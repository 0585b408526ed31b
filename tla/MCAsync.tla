------------------------------ MODULE MCAsync ------------------------------
(* Each async primitive with two coroutines, for TLC: one of the objects of *)
(* AsyncPrimitives, or the channels of AsyncChannel with each pair of roles *)
(* that two coroutines can have.                                            *)
EXTENDS AsyncPrimitives, AsyncChannel

CONSTANTS c1, c2, Which

VARIABLE which

IdleKind == CHOOSE k \in Kinds : TRUE

\* Coroutines are alike, but for their names: one order of the two roles is enough.
Order == [send |-> 1, timed_send |-> 2, receive |-> 3, timed_receive |-> 4, select |-> 5]
RolePairs == {r \in [Coros -> Roles] : Order[r[c1]] <= Order[r[c2]]}

Init ==
  /\ WaitersInit
  /\ PrimitivesInit
  /\ which \in Which
  /\ IF which = "channel"
     THEN /\ obj = Object(IdleKind, 0) /\ role \in RolePairs
          /\ moves \in BOOLEAN /\ (moves = TRUE \/ \E c \in Coros : IsSender(c))
     ELSE role = [c \in Coros |-> "send"] /\ moves = TRUE
  /\ ChannelInit

\* Three bounds: the channels, with coroutines that await once; a primitive with
\* coroutines that await again; and with one coroutine and two threads.
Next ==
  \/ /\ which = "channel" /\ ChannelNext /\ UNCHANGED <<which, primitiveVars>>
     /\ \A c \in Coros : awaits'[c] <= 1
  \/ /\ which # "channel" /\ PrimitivesNext /\ UNCHANGED <<which, channelVars>>
     /\ IF which = "again" THEN \A t \in Threads : calls'[t] = 0
        ELSE st'[c2] = "body" /\ awaits'[c1] <= 1

Spec == Init /\ [][Next]_<<which, waiterVars, primitiveVars, channelVars>>

-----------------------------------------------------------------------------
TypeOK == WaitersTypeOK /\ PrimitivesTypeOK /\ ChannelTypeOK

\* "Each timed awaiter races a timer against a primitive's waiter list": a coroutine
\* that awaits with a timeout and has not been scheduled has its timer still to come.
TimerBacksGate ==
  \A c \in Coros :
    /\ (IF which = "channel" THEN HasDeadline(c) ELSE IsTimed(c))
    /\ st[c] = "awaiting"
    => timer[c] \/ sus[c] = "arm"

\* Until a suspended coroutine has been scheduled, everybody who may schedule it can reach
\* it: the wakers through the list, of each channel in a select, and the timer.
WaitersReachable == TypeOK /\ WaiterIsLinked /\ TimerBacksGate /\ SelectIsInBoth

\* Every wake_all - of a set(), the end of a phase, a store, a close - reaches who
\* registered before it.
WakeAllReleases == IF which = "channel" THEN CloseReleases ELSE BroadcastReleases
=============================================================================
