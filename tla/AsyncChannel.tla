--------------------------- MODULE AsyncChannel ---------------------------
(***************************************************************************)
(* async_channel and select: coroutines in send_async, receive_async,      *)
(* their variants with a timeout, and select over two channels; wakers     *)
(* that use the calls the class inherits or overrides.  What blocking      *)
(* threads see of a channel is SyncChannel's.                              *)
(***************************************************************************)
EXTENDS AsyncWaiters

CONSTANTS First, Second,  \* two channels; coroutines other than select use the first
          Capacity,       \* places in each
          Moved,          \* what is left in a variable after std::move
          MaxCalls        \* bound: calls by one waker

ASSUME ChannelsAssumption == {First, Second} \subseteq Objects /\ First # Second
ASSUME ValuesAssumption ==
  Moved \notin Coros /\ \A x \in Coros \union {Moved, Null} : x \notin Wakers \X Nat
ASSUME CapacityAssumption == Capacity \in Nat \ {0}

VARIABLES buffer,   \* per channel: buffer_
          closed,   \* per channel: closed_
          role,     \* what each coroutine does
          held,     \* value_ of a sender; result_ of a receiver, Null if empty
          sent,     \* sent_
          moves,    \* FALSE: a move leaves T as it was, as of an int
          overtaken, \* then: the senders that were resumed while the timed suspend_impl ran
          received, \* the values that receivers got
          ncalls    \* number of calls by each waker

channelVars == <<buffer, closed, role, held, sent, moves, overtaken, received, ncalls>>

Channels == {First, Second}
Roles == {"send", "timed_send", "receive", "timed_receive", "select"}
Receivers(ch) == <<ch, "waiters_">>
Senders(ch) == <<ch, "send_waiters_">>
IsSender(c) == role[c] \in {"send", "timed_send"}
HasDeadline(c) == role[c] \in {"timed_send", "timed_receive"}

ChannelTypeOK ==
  /\ \A ch \in Channels : Len(buffer[ch]) <= Capacity
  /\ closed \in [Channels -> BOOLEAN]
  /\ role \in [Coros -> Roles]
  /\ sent \in [Coros -> BOOLEAN]
  /\ overtaken \subseteq Coros

ChannelInit ==
  /\ buffer = [ch \in Channels |-> <<>>]
  /\ closed = [ch \in Channels |-> FALSE]
  /\ held = [c \in Coros |-> Null]
  /\ sent = [c \in Coros |-> FALSE]
  /\ overtaken = {}
  /\ received = {}
  /\ ncalls = [w \in Wakers |-> 0]

-----------------------------------------------------------------------------
(* try_send and try_receive of the base class; they wake no coroutine.     *)

HasRoom(ch) == ~closed[ch] /\ Len(buffer[ch]) < Capacity

HasValue(ch) == buffer[ch] # <<>>

Push(ch, v) == buffer' = [buffer EXCEPT ![ch] = Append(@, v)]
\* Mutant: the value is copied out and stays where it is.
PopFrontCopy(ch) == UNCHANGED buffer
PopFront(ch) == buffer' = [buffer EXCEPT ![ch] = Tail(@)]

Got(v) == received' = received \union {v}

\* try_send(std::move(value_)): the parameter is a value, so value_ is moved from
\* whether or not there is room; but a move need not change what it is made from.
TrySend(c, v) ==
  /\ held' = [held EXCEPT ![c] = IF moves THEN Moved ELSE v]
  /\ IF HasRoom(First) THEN Push(First, v) ELSE UNCHANGED buffer

\* sent_ = ...
SentIf(c, ok) == sent' = [sent EXCEPT ![c] = ok]

-----------------------------------------------------------------------------
(* The wakers.                                                             *)

CallChannel(w) ==
  /\ wk[w] = Idle
  /\ ncalls[w] < MaxCalls
  /\ ncalls' = [ncalls EXCEPT ![w] = @ + 1]
  /\ UNCHANGED <<listVars, frameVars, st, wakes, missed, role, held, sent, moves, overtaken>>

\* send(), once there is room; try_send() wakes no receiver.
SendValue(w, ch) ==
  /\ CallChannel(w)
  /\ HasRoom(ch)
  /\ Push(ch, <<w, ncalls[w]>>)
  /\ SetWake(w, WakeOne(<<Receivers(ch)>>)) \/ UNCHANGED wk
  /\ UNCHANGED <<closed, received>>

\* receive(), once there is a value; try_receive() wakes no sender.
ReceiveValue(w, ch) ==
  /\ CallChannel(w)
  /\ HasValue(ch)
  /\ PopFront(ch)
  /\ Got(Head(buffer[ch]))
  /\ SetWake(w, WakeOne(<<Senders(ch)>>)) \/ UNCHANGED wk
  /\ UNCHANGED closed

\* close(): the flag, then both lists.
Close(w, ch) ==
  /\ CallChannel(w)
  /\ ~closed[ch]
  /\ closed' = [closed EXCEPT ![ch] = TRUE]
  /\ SetWake(w, WakeAll(<<Receivers(ch), Senders(ch)>>))
  /\ UNCHANGED <<buffer, received>>

-----------------------------------------------------------------------------
(* ready_impl and the start of suspend_impl.                               *)

SusOnly(c, p) ==
  SusGoto(c, p) /\ UNCHANGED <<listVars, gate, timer, st, awaits, wakes, missed, wk>>

\* A send: the timed one asks first whether the channel is closed.
SendReady(c) ==
  /\ IsSender(c) /\ MayAwait(c)
  /\ IF role[c] = "timed_send" /\ closed[First]
     THEN GoOn(c) /\ SentIf(c, FALSE) /\ UNCHANGED <<buffer, held>>
     ELSE /\ TrySend(c, c)
          /\ SentIf(c, HasRoom(First))
          /\ \/ HasRoom(First) /\ GoOn(c)
             \/ ~HasRoom(First) /\ HasDeadline(c) /\ (GoOn(c) \/ Suspend(c, "open", "arm"))
             \/ ~HasRoom(First) /\ ~HasDeadline(c) /\ Suspend(c, "none", "add")
  /\ UNCHANGED <<closed, role, moves, overtaken, received, ncalls>>

\* Where a receive is when it comes to channel ch; only select comes to the second.
ReceivesFrom(c, ch) ==
  IF ch = First THEN ~IsSender(c) /\ MayAwait(c) ELSE sus[c] = "ready second"

\* try_receive() of ch succeeds: result_ is there at once.
ReceiveReady(c, ch) ==
  /\ ReceivesFrom(c, ch)
  /\ HasValue(ch)
  /\ PopFront(ch)
  /\ held' = [held EXCEPT ![c] = Head(buffer[ch])]
  /\ GoOn(c)
  /\ UNCHANGED <<closed, role, sent, moves, overtaken, received, ncalls>>

\* It does not.  Select does not ask whether a channel is closed.
ReceiveSuspend(c, ch) ==
  /\ ReceivesFrom(c, ch)
  /\ ~HasValue(ch)
  /\ CASE role[c] = "receive" ->
            IF closed[First] THEN GoOn(c) ELSE Suspend(c, "none", "add")
       [] role[c] = "timed_receive" ->
            GoOn(c) \/ (~closed[First] /\ Suspend(c, "open", "arm"))
       [] role[c] = "select" ->
            IF ch = First THEN SusOnly(c, "ready second") ELSE Suspend(c, "open", "add")
  /\ held' = [held EXCEPT ![c] = Null]
  /\ UNCHANGED <<buffer, closed, role, sent, moves, overtaken, received, ncalls>>

\* add_send_waiter, add_receive_waiter: the plain awaiters stop here, select goes on
\* with its second channel, the timed ones look again.
RegisterWaiter(c) ==
  /\ \/ /\ sus[c] = "add"
        /\ Register(c, IF IsSender(c) THEN Senders(First) ELSE Receivers(First),
                    CASE role[c] \in {"send", "receive"} -> "none"
                      [] role[c] = "select" -> "add second"
                      [] OTHER -> "check")
     \/ sus[c] = "add second" /\ Register(c, Receivers(Second), "check")
  /\ UNCHANGED channelVars

\* The check at the end of suspend_impl of a timed send: try_send(), ...
CheckSend(c) ==
  /\ sus[c] = "check" /\ role[c] = "timed_send"
  /\ TrySend(c, held[c])
  /\ SusOnly(c, IF HasRoom(First) THEN "sent" ELSE "unsent")
  /\ UNCHANGED <<closed, role, sent, moves, overtaken, received, ncalls>>

\* ... and what it returned, which resume_impl may have been too early to read.
StoreSent(c) ==
  /\ sus[c] \in {"sent", "unsent"}
  /\ SentIf(c, sus[c] = "sent")
  /\ SusOnly(c, IF sus[c] = "sent" \/ closed[First] THEN "gate" ELSE "none")
  /\ UNCHANGED <<buffer, closed, role, held, moves, overtaken, received, ncalls>>

\* The same of a timed receive and of select: a value goes to result_.  If the
\* coroutine has been resumed meanwhile nobody looks at it any more.
CheckReceive(c, ch) ==
  /\ role[c] \in {"timed_receive", "select"}
  /\ sus[c] = IF ch = First THEN "check" ELSE "check second"
  /\ IF HasValue(ch)
     THEN /\ PopFront(ch)
          /\ held' = [held EXCEPT ![c] = Head(buffer[ch])]
          /\ SusOnly(c, "gate")
     ELSE /\ SusOnly(c, IF role[c] = "timed_receive"
                        THEN (IF closed[First] THEN "gate" ELSE "none")
                        ELSE (IF ch = First THEN "check second" ELSE "none"))
          /\ held' = [held EXCEPT ![c] = Null]
          /\ UNCHANGED buffer
  /\ UNCHANGED <<closed, role, sent, moves, overtaken, received, ncalls>>

-----------------------------------------------------------------------------
(* resume_impl                                                             *)

\* A send that was not sent tries again; the plain one ignores the outcome.
ResumeSend(c) ==
  /\ IsSender(c)
  /\ Resume(c)
  /\ IF sent[c] \/ (role[c] = "timed_send" /\ closed[First])
     THEN UNCHANGED <<buffer, held, sent>>
     ELSE /\ TrySend(c, held[c])
          /\ IF HasDeadline(c) THEN SentIf(c, HasRoom(First)) ELSE UNCHANGED sent
  /\ overtaken' = IF ~moves /\ sus[c] \notin {"none", "gate"}
                  THEN overtaken \union {c} ELSE overtaken
  /\ UNCHANGED <<closed, role, moves, received, ncalls>>

\* A receive uses its result, or tries its channel once more; select tries both, and
\* throws if that fails.
ResumeReceive(c) ==
  /\ ~IsSender(c)
  /\ LET again == role[c] = "select" /\ held[c] = Null /\ ~HasValue(First) IN
       ResumeAt(c, IF again THEN "relook" ELSE "done")
  /\ IF held[c] # Null THEN Got(held[c]) /\ UNCHANGED buffer
     ELSE IF HasValue(First) THEN PopFront(First) /\ Got(Head(buffer[First]))
     ELSE UNCHANGED <<buffer, received>>
  /\ held' = [held EXCEPT ![c] = Null]
  /\ UNCHANGED <<closed, role, sent, moves, overtaken, ncalls>>

SelectSecond(c) ==
  /\ st[c] = "relook"
  /\ st' = [st EXCEPT ![c] = "done"]
  /\ IF HasValue(Second) THEN PopFront(Second) /\ Got(Head(buffer[Second]))
     ELSE UNCHANGED <<buffer, received>>
  /\ UNCHANGED <<closed, role, held, sent, moves, overtaken, ncalls>>
  /\ UNCHANGED <<listVars, frameVars, wakes, missed, wk>>

-----------------------------------------------------------------------------
ChannelCoro(c) ==
  \/ SendReady(c) \/ RegisterWaiter(c) \/ CheckSend(c) \/ StoreSent(c)
  \/ ResumeSend(c) \/ ResumeReceive(c) \/ SelectSecond(c)
  \/ \E ch \in Channels : ReceiveReady(c, ch) \/ ReceiveSuspend(c, ch) \/ CheckReceive(c, ch)

ChannelNext ==
  \/ \E c \in Coros : ChannelCoro(c)
  \/ \E w \in Wakers, ch \in Channels :
       SendValue(w, ch) \/ ReceiveValue(w, ch) \/ Close(w, ch)
  \/ /\ \/ \E c \in Coros : Arm(c) \/ TakeGate(c) \/ TimerFires(c) \/ Abandon(c)
        \/ \E w \in Wakers : WakeStep(w)
     /\ UNCHANGED channelVars

ChannelSpec ==
  /\ WaitersInit /\ role \in [Coros -> Roles] /\ moves \in BOOLEAN /\ ChannelInit
  /\ [][ChannelNext]_<<waiterVars, channelVars>>

-----------------------------------------------------------------------------
(* Properties.                                                             *)

\* The wake_all of a close() reaches who registered before it: once close() has returned,
\* of those who look whether the channel is closed (select does not) a receiver, or a
\* sender with a timeout, stays suspended only if it tested before the close and
\* registered after it, and only without a timeout.
CloseReleases ==
  \A c \in Coros :
    /\ role[c] \in Roles \ {"select"} /\ closed[First] /\ Quiet
    /\ st[c] = "awaiting" /\ sus[c] = "none"
    => gate[c] = "none" /\ (missed[c] \/ role[c] = "send")

\* Whatever receivers, re-checks and resumptions race for it, a value that was sent is in
\* one place: a place of a channel, the result_ of one coroutine, or with one receiver.
\* The exception is the value of a sender with a timeout that was resumed before its
\* suspend_impl had stored what try_send() returned, if a move leaves it as it was: both
\* may send it.
EachValueOnce ==
  \A v \in (Coros \ overtaken) \union (Wakers \X (0 .. MaxCalls)) :
    LET placed == {p \in Channels \X (1 .. Capacity) :
                     p[2] <= Len(buffer[p[1]]) /\ buffer[p[1]][p[2]] = v}
        results == {c \in Coros : ~IsSender(c) /\ held[c] = v}
        gone == received \intersect {v}
    IN Cardinality(placed) + Cardinality(results) + Cardinality(gone) <= 1

\* Until somebody has scheduled a coroutine in select, either channel can wake it.
SelectIsInBoth ==
  \A c \in Coros :
    role[c] = "select" /\ st[c] = "awaiting" /\ sus[c] \notin {"add", "add second", "gate"}
      => \A ch \in Channels : c \in Chain(Receivers(ch))
=============================================================================
