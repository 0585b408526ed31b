---------------------------- MODULE SyncChannel ----------------------------
(***************************************************************************)
(* sync_channel<T, bounded_policy<Capacity>>: a deque under a mutex, one   *)
(* condition variable for receivers (cv_), one for senders (send_cv_), and *)
(* a closed_ flag that close() sets without the mutex.                     *)
(*                                                                         *)
(* A critical section is one step, except that of a send, which is two:    *)
(* the test of closed_ and the push, because close() can store closed_     *)
(* between them.  A waiting thread is in a wait set; a notification, or a  *)
(* spurious wake-up, moves it to "woken", from where it takes the mutex    *)
(* again and repeats its test.  An unbounded channel is one whose Capacity *)
(* is not reached.                                                         *)
(***************************************************************************)
EXTENDS Integers, Sequences, FiniteSets

CONSTANTS
  Senders, Receivers, \* threads
  Closer,             \* the thread that closes the channel
  Capacity,           \* BoundednessPolicy::max_size()
  MaxSends,           \* bound: number of sends
  Nobody              \* the mutex is free

Threads == Senders \union Receivers \union {Closer}

ASSUME ThreadsAssumption ==
  /\ Senders \intersect Receivers = {}
  /\ Closer \notin Senders \union Receivers
  /\ Nobody \notin Threads

ASSUME SizesAssumption == Capacity \in Nat \ {0} /\ MaxSends \in Nat

ASSUME FiniteAssumption == IsFiniteSet(Senders) /\ IsFiniteSet(Receivers)

VARIABLES
  buffer,  \* buffer_: the values, each the number of its send
  closed,  \* closed_
  mutex,   \* who holds mutex_ between two steps
  pc,      \* where each thread's code is
  timed,   \* the thread is in send_for or receive_for
  value,   \* the value each sender is sending
  sends,   \* number of sends begun
  eof      \* history: a receiver was told that the channel is closed

vars == <<buffer, closed, mutex, pc, timed, value, sends, eof>>

SenderPcs == {"idle", "test", "wait", "woken", "push"}
ReceiverPcs == {"idle", "wait", "woken"}
CloserPcs == {"open", "notify", "closed"}

\* The shape of the state.
TypeOK ==
  /\ buffer \in Seq(1 .. MaxSends) /\ Len(buffer) <= Capacity
  /\ closed \in BOOLEAN /\ eof \in BOOLEAN
  /\ mutex \in Senders \union {Nobody}
  /\ pc \in [Threads -> SenderPcs \union ReceiverPcs \union CloserPcs]
  /\ \A s \in Senders : pc[s] \in SenderPcs
  /\ \A r \in Receivers : pc[r] \in ReceiverPcs
  /\ pc[Closer] \in CloserPcs
  /\ timed \in [Threads -> BOOLEAN]
  /\ value \in [Senders -> 0 .. MaxSends]
  /\ sends \in 0 .. MaxSends

Init ==
  /\ buffer = <<>> /\ closed = FALSE /\ eof = FALSE /\ mutex = Nobody
  /\ pc = [x \in Threads |-> IF x = Closer THEN "open" ELSE "idle"]
  /\ timed = [x \in Threads |-> FALSE]
  /\ value = [s \in Senders |-> 0]
  /\ sends = 0

Goto(x, p) == pc' = [pc EXCEPT ![x] = p]

\* can_send()
CanSend == Len(buffer) < Capacity

AtWait(S) == {x \in S : pc[x] = "wait"}
Woken(S) == {x \in S : pc[x] = "woken"}

\* x goes on at p, and notify_one() wakes one of S if any waits.
GotoNotifyOne(x, p, S) ==
  \/ AtWait(S) = {} /\ Goto(x, p)
  \/ \E y \in AtWait(S) : pc' = [pc EXCEPT ![x] = p, ![y] = "woken"]

-----------------------------------------------------------------------------
(* send, try_send, send_for                                                *)

\* A call of send (k = FALSE) or send_for (k = TRUE).
BeginSend(s, k) ==
  /\ pc[s] = "idle"
  /\ sends < MaxSends
  /\ sends' = sends + 1
  /\ value' = [value EXCEPT ![s] = sends + 1]
  /\ timed' = [timed EXCEPT ![s] = k]
  /\ Goto(s, "test")
  /\ UNCHANGED <<buffer, closed, mutex, eof>>

\* Mutant: closed_ is not tested again after the wait.
SendTestOnce(s) ==
  /\ pc[s] \in {"test", "woken"}
  /\ mutex = Nobody
  /\ \/ closed /\ ~CanSend /\ Goto(s, "idle") /\ UNCHANGED mutex
     \/ (pc[s] = "test" => ~closed) /\ CanSend /\ Goto(s, "push") /\ mutex' = s
     \/ ~closed /\ ~CanSend /\ Goto(s, "wait") /\ UNCHANGED mutex
  /\ UNCHANGED <<buffer, closed, timed, value, sends, eof>>

\* The predicate of the wait and the test of closed_, the mutex being taken (again):
\* the send is refused, keeps the mutex and pushes, or waits on send_cv_.
SendTest(s) ==
  /\ pc[s] \in {"test", "woken"}
  /\ mutex = Nobody
  /\ \/ closed /\ Goto(s, "idle") /\ UNCHANGED mutex
     \/ ~closed /\ CanSend /\ Goto(s, "push") /\ mutex' = s
     \/ ~closed /\ ~CanSend /\ Goto(s, "wait") /\ UNCHANGED mutex
  /\ UNCHANGED <<buffer, closed, timed, value, sends, eof>>

\* try_send: the same tests without waiting.
TrySend(s) ==
  /\ pc[s] = "idle"
  /\ sends < MaxSends
  /\ mutex = Nobody
  /\ sends' = sends + 1
  /\ IF ~closed /\ CanSend
     THEN /\ value' = [value EXCEPT ![s] = sends + 1]
          /\ Goto(s, "push") /\ mutex' = s
     ELSE UNCHANGED <<value, pc, mutex>>
  /\ UNCHANGED <<buffer, closed, timed, eof>>

\* The wait of send_for ends by the timeout; the predicate decides once more.
SendTimeout(s) ==
  /\ pc[s] = "wait" /\ timed[s]
  /\ mutex = Nobody
  /\ IF ~closed /\ CanSend THEN Goto(s, "push") /\ mutex' = s
                           ELSE Goto(s, "idle") /\ UNCHANGED mutex
  /\ UNCHANGED <<buffer, closed, timed, value, sends, eof>>

\* buffer_.push_back(value), notify_one() on cv_, and the mutex is released.
Push(s) ==
  /\ pc[s] = "push"
  /\ buffer' = Append(buffer, value[s])
  /\ mutex' = Nobody
  /\ GotoNotifyOne(s, "idle", Receivers)
  /\ UNCHANGED <<closed, timed, value, sends, eof>>

-----------------------------------------------------------------------------
(* receive, try_receive, receive_for                                       *)

\* Mutant: a receiver that takes a value notifies no sender.
TakeFrontSilently(r) ==
  /\ buffer # <<>>
  /\ buffer' = Tail(buffer)
  /\ Goto(r, "idle")
  /\ UNCHANGED eof

\* The front value is removed and one waiting sender is notified.
TakeFront(r) ==
  /\ buffer # <<>>
  /\ buffer' = Tail(buffer)
  /\ GotoNotifyOne(r, "idle", Senders)
  /\ UNCHANGED eof

\* Nothing is there and the channel is closed: receive throws, receive_for returns
\* channel_op_status::closed.
ReportClosed(r) ==
  /\ buffer = <<>> /\ closed
  /\ eof' = TRUE
  /\ Goto(r, "idle")
  /\ UNCHANGED buffer

\* The rest of receive or receive_for, from the beginning or after a wake-up.
ReceiveTest(r) ==
  /\ mutex = Nobody
  /\ \/ TakeFront(r)
     \/ ReportClosed(r)
     \/ buffer = <<>> /\ ~closed /\ Goto(r, "wait") /\ UNCHANGED <<buffer, eof>>

\* A call of receive (k = FALSE) or receive_for (k = TRUE).
BeginReceive(r, k) ==
  /\ pc[r] = "idle"
  /\ timed' = [timed EXCEPT ![r] = k]
  /\ ReceiveTest(r)
  /\ UNCHANGED <<closed, mutex, value, sends>>

ResumeReceive(r) ==
  /\ pc[r] = "woken"
  /\ ReceiveTest(r)
  /\ UNCHANGED <<closed, mutex, timed, value, sends>>

\* The wait of receive_for ends by the timeout; the predicate decides once more.
ReceiveTimeout(r) ==
  /\ pc[r] = "wait" /\ timed[r]
  /\ mutex = Nobody
  /\ \/ TakeFront(r)
     \/ ReportClosed(r)
     \/ buffer = <<>> /\ ~closed /\ Goto(r, "idle") /\ UNCHANGED <<buffer, eof>>
  /\ UNCHANGED <<closed, mutex, timed, value, sends>>

\* try_receive: none if the buffer is empty.
TryReceive(r) ==
  /\ pc[r] = "idle"
  /\ mutex = Nobody
  /\ TakeFront(r)
  /\ UNCHANGED <<closed, mutex, timed, value, sends>>

\* A condition variable may wake a waiter for no reason.
SpuriousWake(x) ==
  /\ pc[x] = "wait"
  /\ Goto(x, "woken")
  /\ UNCHANGED <<buffer, closed, mutex, timed, value, sends, eof>>

-----------------------------------------------------------------------------
(* close                                                                   *)

\* closed_.store(true), without the mutex.
CloseStore ==
  /\ pc[Closer] = "open"
  /\ closed' = TRUE
  /\ Goto(Closer, "notify")
  /\ UNCHANGED <<buffer, mutex, timed, value, sends, eof>>

\* Mutant: on_close() notifies the receivers only.
OnCloseReceivers ==
  /\ pc[Closer] = "notify"
  /\ mutex = Nobody
  /\ pc' = [x \in Threads |->
              IF x = Closer THEN "closed"
              ELSE IF x \in AtWait(Receivers) THEN "woken" ELSE pc[x]]
  /\ UNCHANGED <<buffer, closed, mutex, timed, value, sends, eof>>

\* on_close(): under the mutex, notify_all() on both condition variables.
OnClose ==
  /\ pc[Closer] = "notify"
  /\ mutex = Nobody
  /\ pc' = [x \in Threads |->
              IF x = Closer THEN "closed"
              ELSE IF x \in AtWait(Threads) THEN "woken" ELSE pc[x]]
  /\ UNCHANGED <<buffer, closed, mutex, timed, value, sends, eof>>

-----------------------------------------------------------------------------
\* Steps that a thread takes once it is inside an operation.
SenderStep(s) == SendTest(s) \/ Push(s)
CloserStep == OnClose

Next ==
  \/ \E s \in Senders : \/ \E k \in BOOLEAN : BeginSend(s, k)
                        \/ TrySend(s) \/ SendTimeout(s) \/ SenderStep(s)
  \/ \E r \in Receivers : \/ \E k \in BOOLEAN : BeginReceive(r, k)
                          \/ TryReceive(r) \/ ReceiveTimeout(r)
                          \/ ResumeReceive(r)
  \/ \E x \in Senders \union Receivers : SpuriousWake(x)
  \/ CloseStore
  \/ CloserStep

Spec == Init /\ [][Next]_vars

\* A thread inside an operation keeps running; a thread that asks for the mutex
\* gets it, as others release it (strong fairness).  No timeout, no spurious
\* wake-up and no call is assumed to happen.
Fairness ==
  /\ \A s \in Senders : SF_vars(SendTest(s)) /\ WF_vars(Push(s))
  /\ \A r \in Receivers : SF_vars(ResumeReceive(r))
  /\ SF_vars(CloserStep)

FairSpec == Spec /\ Fairness

-----------------------------------------------------------------------------
(* Properties.                                                             *)

\* No wake-up of a receiver is lost: while one waits, every value in the buffer
\* has a receiver of its own that was woken and is on its way, whichever calls
\* with and without timeout take values in between.
ReceiverWakeups ==
  AtWait(Receivers) # {} => Len(buffer) <= Cardinality(Woken(Receivers))

\* No wake-up of a sender is lost: while one waits, every free place has a sender
\* that was woken and is on its way, or is being filled by the holder of the mutex.
SenderWakeups ==
  AtWait(Senders) # {} /\ ~closed =>
    Capacity - Len(buffer) <=
      Cardinality(Woken(Senders)) + (IF mutex = Nobody THEN 0 ELSE 1)

\* No wake-up is lost on either side of the channel.
NoLostWakeup == TypeOK /\ ReceiverWakeups /\ SenderWakeups

\* When close() has returned nobody waits, and nobody will: each blocked call has
\* been woken to find the channel closed.
CloseWakesAll == pc[Closer] = "closed" => AtWait(Threads) = {}

\* After close() every call that was blocked returns.
BlockedCallsEnd ==
  \A x \in Senders \union Receivers : closed /\ pc[x] = "wait" ~> pc[x] = "idle"

\* The channel is a FIFO of Capacity places whose "closed" is final: a send counts
\* from its test of closed_, while the mutex keeps receivers out until the push.
Fifo == INSTANCE FifoChannel WITH
  Values <- 1 .. MaxSends,
  contents <- IF mutex = Nobody THEN buffer ELSE Append(buffer, value[mutex])

ImplementsFifoChannel == Fifo!Spec
=============================================================================
