------------------------- MODULE SyncChannel_proofs -------------------------
(***************************************************************************)
(* No wake-up of sync_channel is lost, close() leaves nobody waiting, and  *)
(* the channel is a bounded FIFO, for any senders, receivers, capacity and *)
(* number of sends.                                                        *)
(***************************************************************************)
EXTENDS SyncChannel, FiniteSetTheorems, TLAPS

\* The holder of the mutex between two steps is the sender that found room, and nobody
\* fills its place; a sender inside a call has a value.
HolderInv ==
  /\ \A s \in Senders : pc[s] = "push" <=> mutex = s
  /\ mutex # Nobody => Len(buffer) < Capacity
  /\ \A s \in Senders : pc[s] # "idle" => value[s] \in 1 .. MaxSends

\* Once close() has stored closed_, it stays.
ClosedInv == pc[Closer] # "open" => closed

IInv ==
  /\ TypeOK /\ HolderInv /\ ClosedInv
  /\ ReceiverWakeups /\ SenderWakeups /\ CloseWakesAll

\* The three ways in which receivers take part, apart from waking up for no reason.
ReceiverStep(r) ==
  \/ \E k \in BOOLEAN : BeginReceive(r, k)
  \/ TryReceive(r) \/ ReceiveTimeout(r) \/ ResumeReceive(r)

-----------------------------------------------------------------------------
\* The threads that were woken and are on their way are finitely many.
LEMMA WokenFinite ==
  ASSUME NEW S, IsFiniteSet(S)
  PROVE  IsFiniteSet(Woken(S)) /\ Cardinality(Woken(S)) \in Nat
<1>1. Woken(S) \in SUBSET S
  BY DEF Woken
<1>2. IsFiniteSet(Woken(S))
  BY <1>1, FS_Subset
<1> QED
  BY <1>2, FS_CardinalityType

\* A thread that is woken counts for one.
LEMMA OneMore ==
  ASSUME NEW W, IsFiniteSet(W), NEW y, y \notin W
  PROVE  Cardinality(W \union {y}) = Cardinality(W) + 1
  BY FS_AddElement

\* A thread that goes on takes at most one away.
LEMMA OneLess ==
  ASSUME NEW W, IsFiniteSet(W), NEW y
  PROVE  /\ Cardinality(W) \in Nat
         /\ Cardinality(W \ {y}) \in Nat
         /\ Cardinality(W \ {y}) >= Cardinality(W) - 1
<1>1. Cardinality(W) \in Nat
  BY FS_CardinalityType
<1>2. /\ IsFiniteSet(W \ {y})
      /\ Cardinality(W \ {y}) = IF y \in W THEN Cardinality(W) - 1 ELSE Cardinality(W)
  BY FS_RemoveElement
<1>3. Cardinality(W \ {y}) \in Nat
  BY <1>2, FS_CardinalityType
<1> QED
  BY <1>1, <1>2, <1>3, SMT

\* What TakeFront and Append do to the number of values.
LEMMA BufferLengths ==
  ASSUME TypeOK
  PROVE  /\ Len(buffer) \in Nat
         /\ buffer # <<>> => /\ Tail(buffer) \in Seq(1 .. MaxSends)
                             /\ Len(Tail(buffer)) = Len(buffer) - 1
                             /\ Len(buffer) > 0
         /\ buffer = <<>> => Len(buffer) = 0
         /\ \A v \in 1 .. MaxSends : /\ Append(buffer, v) \in Seq(1 .. MaxSends)
                                     /\ Len(Append(buffer, v)) = Len(buffer) + 1
  BY SMT DEF TypeOK

-----------------------------------------------------------------------------
\* A receiver that goes on, and the sender that it may notify.
LEMMA ReceiverMoves ==
  ASSUME TypeOK, NEW r \in Receivers, ReceiverStep(r)
  PROVE  /\ mutex = Nobody /\ UNCHANGED <<closed, mutex, value, sends>>
         /\ timed' \in [Threads -> BOOLEAN]
         /\ \/ /\ buffer # <<>> /\ buffer' = Tail(buffer) /\ eof' = eof
               /\ \/ AtWait(Senders) = {} /\ pc' = [pc EXCEPT ![r] = "idle"]
                  \/ \E y \in Senders :
                       /\ pc[y] = "wait"
                       /\ pc' = [pc EXCEPT ![r] = "idle", ![y] = "woken"]
            \/ /\ buffer = <<>> /\ closed /\ buffer' = buffer /\ eof' = TRUE
               /\ pc' = [pc EXCEPT ![r] = "idle"]
            \/ /\ buffer = <<>> /\ ~closed /\ buffer' = buffer /\ eof' = eof
               /\ \/ pc' = [pc EXCEPT ![r] = "wait"]
                  \/ pc[r] = "wait" /\ pc' = [pc EXCEPT ![r] = "idle"]
<1>1. r \in Threads
  BY DEF Threads
<1>2. CASE \E k \in BOOLEAN : BeginReceive(r, k)
  BY <1>1, <1>2 DEF BeginReceive, ReceiveTest, TakeFront, ReportClosed, Goto,
     GotoNotifyOne, AtWait, TypeOK
<1>3. CASE TryReceive(r)
  BY <1>1, <1>3 DEF TryReceive, TakeFront, GotoNotifyOne, Goto, AtWait, TypeOK
<1>4. CASE ReceiveTimeout(r)
  BY <1>1, <1>4 DEF ReceiveTimeout, TakeFront, ReportClosed, GotoNotifyOne, Goto, AtWait,
     TypeOK
<1>5. CASE ResumeReceive(r)
  BY <1>1, <1>5 DEF ResumeReceive, ReceiveTest, TakeFront, ReportClosed, GotoNotifyOne, Goto,
     AtWait, TypeOK
<1> QED
  BY <1>2, <1>3, <1>4, <1>5 DEF ReceiverStep

\* The push, and the receiver that it may notify.
LEMMA PushMoves ==
  ASSUME TypeOK, HolderInv, NEW s \in Senders, Push(s)
  PROVE  /\ mutex = s /\ mutex' = Nobody
         /\ value[s] \in 1 .. MaxSends /\ buffer' = Append(buffer, value[s])
         /\ UNCHANGED <<closed, timed, value, sends, eof>>
         /\ \/ AtWait(Receivers) = {} /\ pc' = [pc EXCEPT ![s] = "idle"]
            \/ \E y \in Receivers :
                 pc[y] = "wait" /\ pc' = [pc EXCEPT ![s] = "idle", ![y] = "woken"]
  BY DEF TypeOK, HolderInv, Push, GotoNotifyOne, Goto, AtWait

-----------------------------------------------------------------------------
(* The shape of the state, the holder of the mutex, and closed_.           *)

\* Where the threads are.
PcOK ==
  /\ pc \in [Threads -> SenderPcs \union ReceiverPcs \union CloserPcs]
  /\ \A s \in Senders : pc[s] \in SenderPcs
  /\ \A r \in Receivers : pc[r] \in ReceiverPcs
  /\ pc[Closer] \in CloserPcs

\* A sender goes on to another of its places; and when it has pushed or a receiver has
\* taken, somebody of the other side may be woken.
LEMMA SenderGoes ==
  ASSUME PcOK, NEW s \in Senders, NEW p \in SenderPcs, pc' = [pc EXCEPT ![s] = p]
  PROVE  PcOK' /\ pc'[s] = p /\ \A x \in Threads \ {s} : pc'[x] = pc[x]
<1>1. s \in Threads /\ s \notin Receivers /\ s # Closer
  BY ThreadsAssumption DEF Threads
<1>2. pc'[s] = p /\ \A x \in Threads \ {s} : pc'[x] = pc[x]
  BY <1>1 DEF PcOK
<1>3. pc' \in [Threads -> SenderPcs \union ReceiverPcs \union CloserPcs]
  BY <1>1 DEF PcOK
<1>4. \A x \in Senders \union Receivers \union {Closer} : x \in Threads
  BY DEF Threads
<1> QED
  BY <1>1, <1>2, <1>3, <1>4 DEF PcOK

\* A receiver goes on to another of its places.
LEMMA ReceiverGoes ==
  ASSUME PcOK, NEW r \in Receivers, NEW p \in ReceiverPcs, pc' = [pc EXCEPT ![r] = p]
  PROVE  PcOK' /\ pc'[r] = p /\ \A x \in Threads \ {r} : pc'[x] = pc[x]
<1>1. r \in Threads /\ r \notin Senders /\ r # Closer
  BY ThreadsAssumption DEF Threads
<1>2. pc'[r] = p /\ \A x \in Threads \ {r} : pc'[x] = pc[x]
  BY <1>1 DEF PcOK
<1>3. pc' \in [Threads -> SenderPcs \union ReceiverPcs \union CloserPcs]
  BY <1>1 DEF PcOK
<1>4. \A x \in Senders \union Receivers \union {Closer} : x \in Threads
  BY DEF Threads
<1> QED
  BY <1>1, <1>2, <1>3, <1>4 DEF PcOK

\* A step that notifies moves one thread of either side.
LEMMA BothGo ==
  ASSUME PcOK, NEW s \in Senders, NEW r \in Receivers,
         NEW p \in SenderPcs, NEW q \in ReceiverPcs,
         pc' = [pc EXCEPT ![r] = q, ![s] = p]
  PROVE  PcOK' /\ pc'[s] = p /\ pc'[r] = q /\ \A x \in Threads \ {s, r} : pc'[x] = pc[x]
<1>1. /\ s \in Threads /\ s \notin Receivers /\ s # Closer
      /\ r \in Threads /\ r \notin Senders /\ r # Closer /\ r # s
  BY ThreadsAssumption DEF Threads
<1>2. pc'[s] = p /\ pc'[r] = q /\ \A x \in Threads \ {s, r} : pc'[x] = pc[x]
  BY <1>1 DEF PcOK
<1>3. pc' \in [Threads -> SenderPcs \union ReceiverPcs \union CloserPcs]
  BY <1>1 DEF PcOK
<1>4. \A x \in Senders \union Receivers \union {Closer} : x \in Threads
  BY DEF Threads
<1> QED
  BY <1>1, <1>2, <1>3, <1>4 DEF PcOK

\* Every operation of the channel keeps the shape of the state, and the mutex with the
\* sender that has found room.
LEMMA TypeStep ==
  ASSUME TypeOK, HolderInv, ClosedInv, Next
  PROVE  TypeOK' /\ HolderInv' /\ ClosedInv'
<1> USE ThreadsAssumption, SizesAssumption
    DEF Threads, SenderPcs, ReceiverPcs, CloserPcs, ClosedInv
<1>1. ASSUME NEW s \in Senders, NEW k \in BOOLEAN, BeginSend(s, k)
      PROVE  TypeOK' /\ HolderInv' /\ ClosedInv'
  BY <1>1 DEF BeginSend, Goto, TypeOK, HolderInv
<1>2. ASSUME NEW s \in Senders, TrySend(s) PROVE TypeOK' /\ HolderInv' /\ ClosedInv'
  <2>1. CASE ~closed /\ CanSend
    <3>1. /\ pc[s] = "idle" /\ mutex = Nobody /\ mutex' = s /\ pc' = [pc EXCEPT ![s] = "push"]
          /\ sends < MaxSends /\ sends' = sends + 1
          /\ value' = [value EXCEPT ![s] = sends + 1]
          /\ UNCHANGED <<buffer, closed, timed, eof>>
      BY <1>2, <2>1 DEF TrySend, Goto
    <3>2. sends' \in 1 .. MaxSends
      BY <3>1, SMT DEF TypeOK
    <3>3. TypeOK'
      BY <3>1, <3>2 DEF TypeOK
    <3>4. (\A x \in Senders : pc[x] = "push" <=> mutex = x)'
      BY <3>1 DEF TypeOK, HolderInv
    <3>5. (mutex # Nobody => Len(buffer) < Capacity)'
      BY <2>1, <3>1 DEF CanSend
    <3>6. (\A x \in Senders : pc[x] # "idle" => value[x] \in 1 .. MaxSends)'
      BY <3>1, <3>2 DEF TypeOK, HolderInv
    <3> QED
      BY <3>1, <3>3, <3>4, <3>5, <3>6 DEF HolderInv, TypeOK
  <2>2. CASE ~(~closed /\ CanSend)
    BY <1>2, <2>2 DEF TrySend, TypeOK, HolderInv
  <2> QED
    BY <2>1, <2>2
<1>3. ASSUME NEW s \in Senders, SendTimeout(s) PROVE TypeOK' /\ HolderInv' /\ ClosedInv'
  <2>1. /\ UNCHANGED <<buffer, closed, timed, value, sends, eof>>
        /\ mutex = Nobody /\ pc[s] # "idle"
        /\ \/ CanSend /\ pc' = [pc EXCEPT ![s] = "push"] /\ mutex' = s
           \/ \E p \in {"idle", "wait"} : pc' = [pc EXCEPT ![s] = p] /\ mutex' = mutex
    BY <1>3 DEF SendTimeout, Goto
  <2>2. TypeOK'
    <3>1. \E p \in {"push", "idle", "wait"} : pc' = [pc EXCEPT ![s] = p]
      BY <2>1
    <3>2. PcOK'
      BY <3>1, SenderGoes DEF TypeOK, PcOK
    <3>3. mutex' \in Senders \union {Nobody}
      BY <2>1
    <3> QED
      BY <2>1, <3>2, <3>3 DEF TypeOK, PcOK
  <2>3. (\A x \in Senders : pc[x] = "push" <=> mutex = x)'
    BY <2>1 DEF TypeOK, HolderInv
  <2>4. (mutex # Nobody => Len(buffer) < Capacity)'
    BY <2>1 DEF CanSend
  <2>5. (\A x \in Senders : pc[x] # "idle" => value[x] \in 1 .. MaxSends)'
    BY <2>1 DEF TypeOK, HolderInv
  <2>6. ClosedInv'
    BY <2>1 DEF TypeOK
  <2> QED
    BY <2>2, <2>3, <2>4, <2>5, <2>6 DEF HolderInv
<1>4. ASSUME NEW s \in Senders, SendTest(s) PROVE TypeOK' /\ HolderInv' /\ ClosedInv'
  <2>1. /\ UNCHANGED <<buffer, closed, timed, value, sends, eof>>
        /\ mutex = Nobody /\ pc[s] # "idle"
        /\ \/ CanSend /\ pc' = [pc EXCEPT ![s] = "push"] /\ mutex' = s
           \/ \E p \in {"idle", "wait"} : pc' = [pc EXCEPT ![s] = p] /\ mutex' = mutex
    BY <1>4 DEF SendTest, Goto
  <2>2. TypeOK'
    <3>1. \E p \in {"push", "idle", "wait"} : pc' = [pc EXCEPT ![s] = p]
      BY <2>1
    <3>2. PcOK'
      BY <3>1, SenderGoes DEF TypeOK, PcOK
    <3>3. mutex' \in Senders \union {Nobody}
      BY <2>1
    <3> QED
      BY <2>1, <3>2, <3>3 DEF TypeOK, PcOK
  <2>3. (\A x \in Senders : pc[x] = "push" <=> mutex = x)'
    BY <2>1 DEF TypeOK, HolderInv
  <2>4. (mutex # Nobody => Len(buffer) < Capacity)'
    BY <2>1 DEF CanSend
  <2>5. (\A x \in Senders : pc[x] # "idle" => value[x] \in 1 .. MaxSends)'
    BY <2>1 DEF TypeOK, HolderInv
  <2>6. ClosedInv'
    BY <2>1 DEF TypeOK
  <2> QED
    BY <2>2, <2>3, <2>4, <2>5, <2>6 DEF HolderInv
<1>5. ASSUME NEW s \in Senders, Push(s) PROVE TypeOK' /\ HolderInv' /\ ClosedInv'
  <2>1. buffer' \in Seq(1 .. MaxSends) /\ Len(buffer') <= Capacity
    <3>1. /\ buffer' = Append(buffer, value[s]) /\ value[s] \in 1 .. MaxSends
          /\ Len(buffer) < Capacity
      <4>1. mutex = s /\ buffer' = Append(buffer, value[s]) /\ value[s] \in 1 .. MaxSends
        BY <1>5, PushMoves
      <4> QED
        BY <4>1 DEF HolderInv
    <3>2. buffer' \in Seq(1 .. MaxSends) /\ Len(buffer') = Len(buffer) + 1
      BY <3>1, BufferLengths
    <3>3. Len(buffer) \in Nat
      BY BufferLengths
    <3> HIDE DEF TypeOK
    <3> QED
      BY <3>1, <3>2, <3>3, SMT
  <2>2. /\ mutex = s /\ mutex' = Nobody /\ UNCHANGED <<closed, timed, value, sends, eof>>
        /\ \/ pc' = [pc EXCEPT ![s] = "idle"]
           \/ \E y \in Receivers :
                pc[y] = "wait" /\ pc' = [pc EXCEPT ![s] = "idle", ![y] = "woken"]
    BY <1>5, PushMoves
  <2>3. PcOK
    BY DEF TypeOK, PcOK
  <2>4. PcOK' /\ pc'[s] = "idle" /\ \A x \in Senders \ {s} : pc'[x] = pc[x]
    <3>1. \A x \in Senders : x \in Threads /\ x \notin Receivers
      OBVIOUS
    <3>2. CASE pc' = [pc EXCEPT ![s] = "idle"]
      BY <2>3, <3>1, <3>2, SenderGoes
    <3>3. ASSUME NEW y \in Receivers, pc' = [pc EXCEPT ![s] = "idle", ![y] = "woken"]
          PROVE  PcOK' /\ pc'[s] = "idle" /\ \A x \in Senders \ {s} : pc'[x] = pc[x]
      <4>1. "idle" \in SenderPcs /\ "woken" \in ReceiverPcs
        OBVIOUS
      <4> HIDE DEF Threads, SenderPcs, ReceiverPcs, CloserPcs
      <4>2. pc' = [pc EXCEPT ![y] = "woken", ![s] = "idle"]
        <5>1. s # y
          OBVIOUS
        <5> QED
          BY <3>3, <5>1
      <4>4. PcOK' /\ pc'[s] = "idle" /\ pc'[y] = "woken"
            /\ \A x \in Threads \ {s, y} : pc'[x] = pc[x]
        BY <2>3, <4>2, <4>1, BothGo, Zenon
      <4>3. \A x \in Senders \ {s} : x \in Threads \ {s, y}
        BY <3>1
      <4> QED
        BY <4>3, <4>4
    <3> QED
      BY <2>2, <3>2, <3>3
  <2>5. TypeOK'
    BY <2>1, <2>2, <2>4 DEF TypeOK, PcOK
  <2>6. HolderInv'
    BY <2>2, <2>4 DEF TypeOK, HolderInv
  <2>7. ClosedInv'
    BY <2>2, <2>4 DEF TypeOK, PcOK
  <2> QED
    BY <2>5, <2>6, <2>7
<1>6. ASSUME NEW r \in Receivers, ReceiverStep(r)
      PROVE  TypeOK' /\ HolderInv' /\ ClosedInv'
  <2>1. buffer' \in Seq(1 .. MaxSends) /\ Len(buffer') <= Capacity
    <3>1. \/ buffer' = buffer
          \/ buffer # <<>> /\ buffer' = Tail(buffer)
      BY <1>6, ReceiverMoves
    <3>2. buffer \in Seq(1 .. MaxSends) /\ Len(buffer) <= Capacity
      BY DEF TypeOK
    <3>3. buffer # <<>> => /\ Tail(buffer) \in Seq(1 .. MaxSends)
                           /\ Len(Tail(buffer)) = Len(buffer) - 1
      BY BufferLengths
    <3>4. Len(buffer) \in Nat
      BY BufferLengths
    <3>5. CASE buffer' = buffer
      BY <3>2, <3>5
    <3>6. CASE buffer # <<>> /\ buffer' = Tail(buffer)
      <4>1. buffer' \in Seq(1 .. MaxSends) /\ Len(buffer') = Len(buffer) - 1
        BY <3>3, <3>6
      <4> QED
        BY <4>1, <3>2, <3>4, SMT
    <3> QED
      BY <3>1, <3>5, <3>6
  <2>2. /\ mutex = Nobody /\ UNCHANGED <<closed, mutex, value, sends>>
        /\ timed' \in [Threads -> BOOLEAN] /\ eof' \in BOOLEAN
        /\ \/ \E p \in {"idle", "wait"} : pc' = [pc EXCEPT ![r] = p]
           \/ \E y \in Senders : pc[y] = "wait" /\ pc' = [pc EXCEPT ![r] = "idle", ![y] = "woken"]
    BY <1>6, ReceiverMoves DEF TypeOK
  <2>3. PcOK
    BY DEF TypeOK, PcOK
  <2>4. PcOK' /\ \A x \in Senders : /\ pc'[x] = "push" <=> pc[x] = "push"
                                    /\ pc'[x] # "idle" <=> pc[x] # "idle"
    <3>1. \A x \in Senders : x \in Threads /\ x \notin Receivers
      OBVIOUS
    <3>2. CASE \E p \in {"idle", "wait"} : pc' = [pc EXCEPT ![r] = p]
      BY <2>3, <3>1, <3>2, ReceiverGoes
    <3>3. ASSUME NEW y \in Senders, pc[y] = "wait",
                 pc' = [pc EXCEPT ![r] = "idle", ![y] = "woken"]
          PROVE  PcOK' /\ \A x \in Senders : /\ pc'[x] = "push" <=> pc[x] = "push"
                                             /\ pc'[x] # "idle" <=> pc[x] # "idle"
      <4>1. PcOK' /\ pc'[y] = "woken" /\ \A x \in Threads \ {y, r} : pc'[x] = pc[x]
        BY <2>3, <3>3, BothGo
      <4> QED
        BY <4>1, <3>1, <3>3
    <3> QED
      BY <2>2, <3>2, <3>3
  <2>5. TypeOK'
    BY <2>1, <2>2, <2>4 DEF TypeOK, PcOK
  <2>6. HolderInv'
    BY <2>2, <2>4 DEF TypeOK, HolderInv
  <2>7. pc'[Closer] = pc[Closer]
    <3>1. Closer \in Threads /\ Closer # r /\ \A y \in Senders : Closer # y
      OBVIOUS
    <3>2. CASE \E p \in {"idle", "wait"} : pc' = [pc EXCEPT ![r] = p]
      BY <2>3, <3>1, <3>2, ReceiverGoes
    <3>3. ASSUME NEW y \in Senders, pc' = [pc EXCEPT ![r] = "idle", ![y] = "woken"]
          PROVE  pc'[Closer] = pc[Closer]
      <4>1. "woken" \in SenderPcs /\ "idle" \in ReceiverPcs
        OBVIOUS
      <4> HIDE DEF Threads, SenderPcs, ReceiverPcs, CloserPcs
      <4>2. \A x \in Threads \ {y, r} : pc'[x] = pc[x]
        BY <2>3, <3>3, <4>1, BothGo
      <4> QED
        BY <3>1, <4>2
    <3> QED
      BY <2>2, <3>2, <3>3
  <2>8. ClosedInv'
    BY <2>2, <2>7
  <2> QED
    BY <2>5, <2>6, <2>8
<1>7. ASSUME NEW x \in Senders \union Receivers, SpuriousWake(x)
      PROVE  TypeOK' /\ HolderInv' /\ ClosedInv'
  BY <1>7 DEF SpuriousWake, Goto, TypeOK, HolderInv
<1>8. CASE CloseStore
  BY <1>8 DEF CloseStore, Goto, TypeOK, HolderInv
<1>9. CASE OnClose
  BY <1>9 DEF OnClose, AtWait, TypeOK, HolderInv
<1> QED
  BY <1>1, <1>2, <1>3, <1>4, <1>5, <1>6, <1>7, <1>8, <1>9
  DEF Next, SenderStep, CloserStep, ReceiverStep

-----------------------------------------------------------------------------
(* The wake-ups of receivers.                                              *)

\* No operation loses a wake-up of a receiver.
LEMMA ReceiverWakeupsStep ==
  ASSUME TypeOK, HolderInv, ReceiverWakeups, Next
  PROVE  ReceiverWakeups'
<1> USE ThreadsAssumption DEF Threads
<1>f. IsFiniteSet(Woken(Receivers)) /\ Cardinality(Woken(Receivers)) \in Nat
  BY FiniteAssumption, WokenFinite
<1>l. Len(buffer) \in Nat
  BY BufferLengths
\* Where no receiver moves and the buffer stays, nothing changes.
<1>s. ASSUME UNCHANGED buffer, \A r \in Receivers : pc'[r] = pc[r]
      PROVE  ReceiverWakeups'
  <2>1. AtWait(Receivers)' = AtWait(Receivers) /\ Woken(Receivers)' = Woken(Receivers)
    BY <1>s DEF AtWait, Woken
  <2> QED
    BY <1>s, <2>1 DEF ReceiverWakeups
<1>1. ASSUME NEW s \in Senders,
             \/ \E k \in BOOLEAN : BeginSend(s, k)
             \/ TrySend(s) \/ SendTimeout(s) \/ SendTest(s)
      PROVE  ReceiverWakeups'
  <2>1. UNCHANGED buffer /\ \A r \in Receivers : pc'[r] = pc[r]
    BY <1>1 DEF BeginSend, TrySend, SendTimeout, SendTest, Goto, TypeOK
  <2> QED
    BY <2>1, <1>s
<1>2. ASSUME NEW s \in Senders, Push(s) PROVE ReceiverWakeups'
  <2>1. Len(buffer') = Len(buffer) + 1
    BY <1>2, PushMoves, BufferLengths
  <2>2. CASE AtWait(Receivers) = {} /\ pc' = [pc EXCEPT ![s] = "idle"]
    <3>1. AtWait(Receivers)' = {}
      BY <2>2 DEF AtWait, TypeOK
    <3> QED
      BY <3>1 DEF ReceiverWakeups
  <2>3. ASSUME NEW y \in Receivers, pc[y] = "wait",
               pc' = [pc EXCEPT ![s] = "idle", ![y] = "woken"]
        PROVE  ReceiverWakeups'
    <3>1. Woken(Receivers)' = Woken(Receivers) \union {y} /\ y \notin Woken(Receivers)
      BY <2>3 DEF Woken, TypeOK
    <3>2. Cardinality(Woken(Receivers)') = Cardinality(Woken(Receivers)) + 1
      BY <3>1, <1>f, OneMore
    <3>3. AtWait(Receivers) # {}
      BY <2>3 DEF AtWait
    <3>4. Len(buffer) <= Cardinality(Woken(Receivers))
      BY <3>3 DEF ReceiverWakeups
    <3>5. Len(buffer') <= Cardinality(Woken(Receivers)')
      BY <3>2, <3>4, <2>1, <1>f, <1>l, SMT
    <3> QED
      BY <3>5 DEF ReceiverWakeups
  <2> QED
    BY <1>2, <2>2, <2>3, PushMoves
<1>3. ASSUME NEW r \in Receivers, ReceiverStep(r) PROVE ReceiverWakeups'
  \* A buffer that is empty needs nobody.
  <2>1. CASE buffer = <<>> /\ buffer' = buffer
    <3>1. IsFiniteSet(Receivers) /\ Len(buffer') = 0
      BY <2>1, FiniteAssumption, BufferLengths
    <3>2. Cardinality(Woken(Receivers)') \in Nat
      <4>1. Woken(Receivers)' \in SUBSET Receivers
        BY DEF Woken
      <4> QED
        BY <3>1, <4>1, FS_Subset, FS_CardinalityType
    <3>3. Len(buffer') <= Cardinality(Woken(Receivers)')
      BY <3>1, <3>2, SMT
    <3> QED
      BY <3>3 DEF ReceiverWakeups
  \* A value less, and at most one on its way less.
  <2>2. CASE /\ buffer # <<>> /\ buffer' = Tail(buffer)
             /\ \/ pc' = [pc EXCEPT ![r] = "idle"]
                \/ \E y \in Senders : pc' = [pc EXCEPT ![r] = "idle", ![y] = "woken"]
    <3>1. Woken(Receivers)' = Woken(Receivers) \ {r}
      BY <2>2 DEF Woken, TypeOK
    <3>2. AtWait(Receivers)' \subseteq AtWait(Receivers)
      BY <2>2 DEF AtWait, TypeOK
    <3>3. Len(buffer') = Len(buffer) - 1
      BY <2>2, BufferLengths
    <3>4. /\ Cardinality(Woken(Receivers)') \in Nat
          /\ Cardinality(Woken(Receivers)') >= Cardinality(Woken(Receivers)) - 1
      BY <3>1, <1>f, OneLess
    <3>5. SUFFICES ASSUME AtWait(Receivers) # {}
                   PROVE  Len(buffer') <= Cardinality(Woken(Receivers)')
      BY <3>2 DEF ReceiverWakeups
    <3>6. Len(buffer) <= Cardinality(Woken(Receivers))
      BY <3>5 DEF ReceiverWakeups
    <3> QED
      BY <3>3, <3>4, <3>6, <1>f, <1>l, SMT
  <2> QED
    BY <1>3, <2>1, <2>2, ReceiverMoves
<1>4. ASSUME NEW x \in Senders \union Receivers, SpuriousWake(x) PROVE ReceiverWakeups'
  <2>1. pc[x] = "wait" /\ pc' = [pc EXCEPT ![x] = "woken"] /\ buffer' = buffer
    BY <1>4 DEF SpuriousWake, Goto
  <2>2. CASE x \in Senders
    BY <2>1, <2>2, <1>s DEF TypeOK
  <2>3. CASE x \in Receivers
    <3>1. Woken(Receivers)' = Woken(Receivers) \union {x} /\ x \notin Woken(Receivers)
      BY <2>1, <2>3 DEF Woken, TypeOK
    <3>2. Cardinality(Woken(Receivers)') = Cardinality(Woken(Receivers)) + 1
      BY <3>1, <1>f, OneMore
    <3>3. AtWait(Receivers) # {}
      BY <2>1, <2>3 DEF AtWait
    <3>4. Len(buffer) <= Cardinality(Woken(Receivers))
      BY <3>3 DEF ReceiverWakeups
    <3>5. Len(buffer') <= Cardinality(Woken(Receivers)')
      BY <2>1, <3>2, <3>4, <1>f, <1>l, SMT
    <3> QED
      BY <3>5 DEF ReceiverWakeups
  <2> QED
    BY <2>2, <2>3
<1>5. CASE CloseStore
  <2>1. UNCHANGED buffer /\ \A r \in Receivers : pc'[r] = pc[r]
    BY <1>5 DEF CloseStore, Goto, TypeOK
  <2> QED
    BY <2>1, <1>s
<1>6. CASE OnClose
  <2>1. AtWait(Receivers)' = {}
    BY <1>6 DEF OnClose, AtWait
  <2> QED
    BY <2>1 DEF ReceiverWakeups
<1> QED
  BY <1>1, <1>2, <1>3, <1>4, <1>5, <1>6 DEF Next, SenderStep, CloserStep, ReceiverStep

-----------------------------------------------------------------------------
(* The wake-ups of senders.                                                *)

\* The two sides of SenderWakeups.
Places == Capacity - Len(buffer)
OnTheWay == Cardinality(Woken(Senders)) + (IF mutex = Nobody THEN 0 ELSE 1)

\* No operation loses a wake-up of a sender.
LEMMA SenderWakeupsStep ==
  ASSUME TypeOK, HolderInv, SenderWakeups, Next
  PROVE  SenderWakeups'
<1> USE ThreadsAssumption, SizesAssumption DEF Threads
<1>f. IsFiniteSet(Woken(Senders)) /\ Cardinality(Woken(Senders)) \in Nat
  BY FiniteAssumption, WokenFinite
<1>n. Cardinality(Woken(Senders)') \in Nat
  <2>1. Woken(Senders)' \in SUBSET Senders
    BY DEF Woken
  <2> QED
    BY <2>1, FiniteAssumption, FS_Subset, FS_CardinalityType
<1>l. Len(buffer) \in Nat
  BY BufferLengths
<1>d. SenderWakeups <=> (AtWait(Senders) # {} /\ ~closed => Places <= OnTheWay)
  BY DEF SenderWakeups, Places, OnTheWay
<1>e. SenderWakeups' <=> (AtWait(Senders)' # {} /\ ~closed' => Places' <= OnTheWay')
  BY DEF SenderWakeups, Places, OnTheWay
\* Where no sender moves and the buffer and the mutex stay, nothing changes.
<1>s. ASSUME UNCHANGED <<buffer, mutex>>, closed => closed', \A s \in Senders : pc'[s] = pc[s]
      PROVE  SenderWakeups'
  <2>1. AtWait(Senders)' = AtWait(Senders) /\ Woken(Senders)' = Woken(Senders)
    BY <1>s DEF AtWait, Woken
  <2> QED
    BY <1>s, <2>1 DEF SenderWakeups
\* A sender that takes a place for itself.
<1>p. ASSUME NEW s \in Senders, mutex = Nobody, mutex' = s, UNCHANGED <<buffer, closed>>,
             pc' = [pc EXCEPT ![s] = "push"]
      PROVE  SenderWakeups'
  <2>1. Woken(Senders)' = Woken(Senders) \ {s}
    BY <1>p DEF Woken, TypeOK
  <2>2. AtWait(Senders)' \subseteq AtWait(Senders)
    BY <1>p DEF AtWait, TypeOK
  <2>3. Cardinality(Woken(Senders)') >= Cardinality(Woken(Senders)) - 1
    BY <2>1, <1>f, OneLess
  <2>4. OnTheWay = Cardinality(Woken(Senders)) /\ OnTheWay' = Cardinality(Woken(Senders)') + 1
    BY <1>p, <1>f, SMT DEF OnTheWay
  <2>5. Places' = Places /\ Places \in Int
    BY <1>p, <1>l, SMT DEF Places
  <2>6. Places <= OnTheWay => Places' <= OnTheWay'
    BY <2>3, <2>4, <2>5, <1>f, <1>n, SMT
  <2> QED
    BY <1>p, <2>2, <2>6, <1>d, <1>e
\* A sender that waits, or goes away, because there is no place.
<1>w. ASSUME ~CanSend, UNCHANGED <<buffer, closed, mutex>>
      PROVE  SenderWakeups'
  <2>1. Places' <= 0 /\ Places' \in Int
    BY <1>w, <1>l, SMT DEF CanSend, Places
  <2>2. OnTheWay' >= 0 /\ OnTheWay' \in Int
    BY <1>n, SMT DEF OnTheWay
  <2>3. Places' <= OnTheWay'
    BY <2>1, <2>2, SMT
  <2> QED
    BY <2>3, <1>e
<1>c. ASSUME closed' PROVE SenderWakeups'
  BY <1>c, <1>e
<1>1. ASSUME NEW s \in Senders, NEW k \in BOOLEAN, BeginSend(s, k) PROVE SenderWakeups'
  <2>1. pc[s] = "idle" /\ pc' = [pc EXCEPT ![s] = "test"] /\ UNCHANGED <<buffer, closed, mutex>>
    BY <1>1 DEF BeginSend, Goto
  <2>2. AtWait(Senders)' = AtWait(Senders) /\ Woken(Senders)' = Woken(Senders)
    BY <2>1 DEF AtWait, Woken, TypeOK
  <2> QED
    BY <2>1, <2>2 DEF SenderWakeups
<1>2. ASSUME NEW s \in Senders, TrySend(s) PROVE SenderWakeups'
  <2>1. \/ /\ mutex = Nobody /\ mutex' = s /\ UNCHANGED <<buffer, closed>>
           /\ pc' = [pc EXCEPT ![s] = "push"]
        \/ UNCHANGED <<buffer, closed, mutex, pc>>
    BY <1>2 DEF TrySend, Goto
  <2> QED
    BY <2>1, <1>p, <1>s
<1>3. ASSUME NEW s \in Senders, SendTimeout(s) \/ SendTest(s) PROVE SenderWakeups'
  <2>1. \/ /\ mutex = Nobody /\ mutex' = s /\ UNCHANGED <<buffer, closed>>
           /\ pc' = [pc EXCEPT ![s] = "push"]
        \/ closed'
        \/ ~CanSend /\ UNCHANGED <<buffer, closed, mutex>>
    BY <1>3 DEF SendTimeout, SendTest, Goto
  <2> QED
    BY <2>1, <1>p, <1>c, <1>w
<1>4. ASSUME NEW s \in Senders, Push(s) PROVE SenderWakeups'
  <2>1. mutex = s /\ mutex' = Nobody /\ closed' = closed /\ pc[s] = "push"
    BY <1>4, PushMoves DEF Push
  <2>2. \/ pc' = [pc EXCEPT ![s] = "idle"]
        \/ \E y \in Receivers : pc' = [pc EXCEPT ![s] = "idle", ![y] = "woken"]
    BY <1>4, PushMoves
  <2>3. AtWait(Senders)' = AtWait(Senders) /\ Woken(Senders)' = Woken(Senders)
    BY <2>1, <2>2 DEF AtWait, Woken, TypeOK
  <2>4. Len(buffer') = Len(buffer) + 1
    BY <1>4, PushMoves, BufferLengths
  <2>5. Places' = Places - 1 /\ Places \in Int
    BY <2>4, <1>l, SMT DEF Places
  <2>6. mutex # Nobody
    BY <2>1
  <2>7. OnTheWay = Cardinality(Woken(Senders)) + 1 /\ OnTheWay' = Cardinality(Woken(Senders))
    BY <2>1, <2>3, <2>6, <1>f, SMT DEF OnTheWay
  <2>8. Places <= OnTheWay => Places' <= OnTheWay'
    BY <2>5, <2>7, <1>f, SMT
  <2> QED
    BY <2>1, <2>3, <2>8, <1>d, <1>e
<1>5. ASSUME NEW r \in Receivers, ReceiverStep(r) PROVE SenderWakeups'
  <2>m. mutex = Nobody /\ mutex' = Nobody /\ closed' = closed
    BY <1>5, ReceiverMoves
  <2>1. CASE /\ buffer # <<>> /\ buffer' = Tail(buffer)
             /\ AtWait(Senders) = {} /\ pc' = [pc EXCEPT ![r] = "idle"]
    <3>1. AtWait(Senders)' = {}
      BY <2>1 DEF AtWait, TypeOK
    <3> QED
      BY <3>1, <1>e
  <2>2. ASSUME buffer # <<>>, buffer' = Tail(buffer), NEW y \in Senders, pc[y] = "wait",
               pc' = [pc EXCEPT ![r] = "idle", ![y] = "woken"]
        PROVE  SenderWakeups'
    <3>1. Woken(Senders)' = Woken(Senders) \union {y} /\ y \notin Woken(Senders)
      BY <2>2 DEF Woken, TypeOK
    <3>2. Cardinality(Woken(Senders)') = Cardinality(Woken(Senders)) + 1
      BY <3>1, <1>f, OneMore
    <3>3. AtWait(Senders) # {}
      BY <2>2 DEF AtWait
    <3>4. Len(buffer') = Len(buffer) - 1
      BY <2>2, BufferLengths
    <3>5. Places' = Places + 1 /\ Places \in Int
      BY <3>4, <1>l, SMT DEF Places
    <3>6. OnTheWay = Cardinality(Woken(Senders)) /\ OnTheWay' = Cardinality(Woken(Senders)')
      BY <2>m, <1>f, <1>n, SMT DEF OnTheWay
    <3>7. Places <= OnTheWay => Places' <= OnTheWay'
      BY <3>2, <3>5, <3>6, <1>f, SMT
    <3> QED
      BY <3>3, <3>7, <2>m, <1>d, <1>e
  <2>3. CASE buffer' = buffer /\ \E p \in {"idle", "wait"} : pc' = [pc EXCEPT ![r] = p]
    <3>1. \A s \in Senders : pc'[s] = pc[s]
      BY <2>3 DEF TypeOK
    <3> QED
      BY <2>3, <3>1, <2>m, <1>s
  <2> QED
    BY <1>5, <2>1, <2>2, <2>3, ReceiverMoves
<1>6. ASSUME NEW x \in Senders \union Receivers, SpuriousWake(x) PROVE SenderWakeups'
  <2>1. /\ pc[x] = "wait" /\ pc' = [pc EXCEPT ![x] = "woken"]
        /\ UNCHANGED <<buffer, closed, mutex>>
    BY <1>6 DEF SpuriousWake, Goto
  <2>2. CASE x \in Receivers
    <3>1. \A s \in Senders : pc'[s] = pc[s]
      BY <2>1, <2>2 DEF TypeOK
    <3> QED
      BY <2>1, <3>1, <1>s
  <2>3. CASE x \in Senders
    <3>1. Woken(Senders)' = Woken(Senders) \union {x} /\ x \notin Woken(Senders)
      BY <2>1, <2>3 DEF Woken, TypeOK
    <3>2. Cardinality(Woken(Senders)') = Cardinality(Woken(Senders)) + 1
      BY <3>1, <1>f, OneMore
    <3>3. AtWait(Senders) # {}
      BY <2>1, <2>3 DEF AtWait
    <3>4. Places' = Places /\ Places \in Int
      BY <2>1, <1>l, SMT DEF Places
    <3>5. OnTheWay' = OnTheWay + 1 /\ OnTheWay \in Int
      BY <2>1, <3>2, <1>f, SMT DEF OnTheWay
    <3>6. Places <= OnTheWay => Places' <= OnTheWay'
      BY <3>4, <3>5, SMT
    <3> QED
      BY <3>3, <3>6, <2>1, <1>d, <1>e
  <2> QED
    BY <2>2, <2>3
<1>7. CASE CloseStore
  BY <1>7, <1>c DEF CloseStore
<1>8. CASE OnClose
  <2>1. AtWait(Senders)' = {}
    BY <1>8 DEF OnClose, AtWait
  <2> QED
    BY <2>1, <1>e
<1> QED
  BY <1>1, <1>2, <1>3, <1>4, <1>5, <1>6, <1>7, <1>8
  DEF Next, SenderStep, CloserStep, ReceiverStep

-----------------------------------------------------------------------------
(* close()                                                                 *)

\* Who was not woken by close() cannot wait after it.
LEMMA CloseWakesAllStep ==
  ASSUME TypeOK, HolderInv, ClosedInv, CloseWakesAll, Next
  PROVE  CloseWakesAll'
<1> USE ThreadsAssumption DEF Threads
<1>1. CASE pc[Closer] # "closed" /\ ~OnClose
  <2>1. pc'[Closer] # "closed"
    <3>1. ASSUME NEW s \in Senders, NEW k \in BOOLEAN, BeginSend(s, k)
          PROVE  pc'[Closer] # "closed"
      BY <1>1, <3>1 DEF BeginSend, Goto, TypeOK
    <3>2. ASSUME NEW s \in Senders, TrySend(s) \/ SendTimeout(s) \/ SendTest(s)
          PROVE  pc'[Closer] # "closed"
      BY <1>1, <3>2 DEF TrySend, SendTimeout, SendTest, Goto, TypeOK
    <3>3. ASSUME NEW s \in Senders, Push(s) PROVE pc'[Closer] # "closed"
      BY <1>1, <3>3, PushMoves DEF TypeOK
    <3>4. ASSUME NEW r \in Receivers, ReceiverStep(r) PROVE pc'[Closer] # "closed"
      BY <1>1, <3>4, ReceiverMoves DEF TypeOK
    <3>5. ASSUME NEW x \in Senders \union Receivers, SpuriousWake(x) PROVE pc'[Closer] # "closed"
      BY <1>1, <3>5 DEF SpuriousWake, Goto, TypeOK
    <3>6. CASE CloseStore
      BY <3>6 DEF CloseStore, Goto, TypeOK
    <3> QED
      BY <1>1, <3>1, <3>2, <3>3, <3>4, <3>5, <3>6
      DEF Next, SenderStep, CloserStep, ReceiverStep
  <2> QED
    BY <2>1 DEF CloseWakesAll
<1>2. CASE OnClose
  BY <1>2 DEF OnClose, CloseWakesAll, AtWait
<1>3. CASE pc[Closer] = "closed"
  <2>1. closed /\ \A x \in Senders \union Receivers \union {Closer} : pc[x] # "wait"
    BY <1>3 DEF ClosedInv, CloseWakesAll, AtWait
  <2> SUFFICES \A x \in Senders \union Receivers \union {Closer} : pc'[x] # "wait"
    BY DEF CloseWakesAll, AtWait
  <2>2. ASSUME NEW s \in Senders, NEW k \in BOOLEAN, BeginSend(s, k)
        PROVE  \A x \in Senders \union Receivers \union {Closer} : pc'[x] # "wait"
    BY <2>1, <2>2 DEF BeginSend, Goto, TypeOK
  <2>3. ASSUME NEW s \in Senders, TrySend(s) \/ SendTimeout(s) \/ SendTest(s)
        PROVE  \A x \in Senders \union Receivers \union {Closer} : pc'[x] # "wait"
    BY <2>1, <2>3 DEF TrySend, SendTimeout, SendTest, Goto, TypeOK
  <2>4. ASSUME NEW s \in Senders, Push(s)
        PROVE  \A x \in Senders \union Receivers \union {Closer} : pc'[x] # "wait"
    BY <2>1, <2>4, PushMoves DEF TypeOK
  <2>5. ASSUME NEW r \in Receivers, ReceiverStep(r)
        PROVE  \A x \in Senders \union Receivers \union {Closer} : pc'[x] # "wait"
    BY <2>1, <2>5, ReceiverMoves DEF TypeOK
  <2>6. ASSUME NEW x \in Senders \union Receivers, SpuriousWake(x) PROVE FALSE
    BY <2>1, <2>6 DEF SpuriousWake
  <2>7. ~CloseStore /\ ~OnClose
    BY <1>3 DEF CloseStore, OnClose
  <2> QED
    BY <2>2, <2>3, <2>4, <2>5, <2>6, <2>7 DEF Next, SenderStep, CloserStep, ReceiverStep
<1> QED
  BY <1>1, <1>2, <1>3

-----------------------------------------------------------------------------
\* A channel begins open and empty, with nobody in a call.
LEMMA InitInv == Init => IInv
<1> SUFFICES ASSUME Init PROVE IInv
  OBVIOUS
<1> USE ThreadsAssumption, SizesAssumption DEF Threads, Init
<1>1. TypeOK
  <2>1. buffer \in Seq(1 .. MaxSends) /\ Len(buffer) = 0
    BY DEF Init
  <2>2. Len(buffer) <= Capacity
    BY <2>1, SMT
  <2>3. value \in [Senders -> 0 .. MaxSends] /\ sends \in 0 .. MaxSends
    BY SMT
  <2> QED
    BY <2>1, <2>2, <2>3 DEF TypeOK, SenderPcs, ReceiverPcs, CloserPcs
<1>2. HolderInv /\ ClosedInv
  BY DEF HolderInv, ClosedInv
<1>3. ReceiverWakeups /\ SenderWakeups /\ CloseWakesAll
  BY DEF AtWait, ReceiverWakeups, SenderWakeups, CloseWakesAll
<1> QED
  BY <1>1, <1>2, <1>3 DEF IInv

\* The parts of the invariant carry each other over every step.
LEMMA InductiveStep == IInv /\ [Next]_vars => IInv'
<1>1. ASSUME IInv, Next PROVE IInv'
  BY <1>1, TypeStep, ReceiverWakeupsStep, SenderWakeupsStep, CloseWakesAllStep DEF IInv
<1>2. ASSUME IInv, UNCHANGED vars PROVE IInv'
  <2>1. /\ \A S : AtWait(S)' = AtWait(S) /\ Woken(S)' = Woken(S)
        /\ UNCHANGED <<buffer, closed, mutex, pc>>
    BY <1>2 DEF vars, AtWait, Woken
  <2>2. ReceiverWakeups' /\ SenderWakeups' /\ CloseWakesAll'
    BY <1>2, <2>1 DEF IInv, ReceiverWakeups, SenderWakeups, CloseWakesAll
  <2> QED
    BY <1>2, <2>2 DEF vars, IInv, TypeOK, HolderInv, ClosedInv
<1> QED
  BY <1>1, <1>2

\* The inductive invariant holds in every state of the channel.
THEOREM Invariance == Spec => []IInv
  BY InitInv, InductiveStep, PTL DEF Spec

\* Every value in the buffer, and every free place, has somebody who was woken for it while
\* anybody waits: one notify_one() per push_back() and per pop_front() is enough.
THEOREM WakeupsSuffice == Spec => []NoLostWakeup
<1>1. IInv => NoLostWakeup
  BY DEF IInv, NoLostWakeup
<1> QED
  BY <1>1, Invariance, PTL

\* close() leaves nobody waiting although it stores closed_ without the mutex.
THEOREM CloseIsHeard == Spec => []CloseWakesAll
<1>1. IInv => CloseWakesAll
  BY DEF IInv
<1> QED
  BY <1>1, Invariance, PTL

-----------------------------------------------------------------------------
(* Refinement of FifoChannel.                                              *)

\* What is inside the channel, as the refinement sees it.
Contents == IF mutex = Nobody THEN buffer ELSE Append(buffer, value[mutex])

\* A send that finds room puts its value.
LEMMA SendPuts ==
  ASSUME IInv, NEW s \in Senders, mutex = Nobody, mutex' = s, ~closed, CanSend,
         value'[s] \in 1 .. MaxSends, UNCHANGED <<buffer, closed, eof>>
  PROVE  Fifo!Put
<1>1. s # Nobody
  BY ThreadsAssumption DEF Threads
<1>2. Contents = buffer /\ Contents' = Append(buffer, value'[s])
  BY <1>1 DEF Contents
<1>3. Len(buffer) < Capacity
  BY DEF CanSend
<1> QED
  BY <1>2, <1>3 DEF Fifo!Put, Contents

\* The steps of senders.
LEMMA SenderRefines ==
  ASSUME IInv, NEW s \in Senders,
         \/ \E k \in BOOLEAN : BeginSend(s, k)
         \/ TrySend(s) \/ SendTimeout(s) \/ SendTest(s) \/ Push(s)
  PROVE  Fifo!Put \/ UNCHANGED <<Contents, closed, eof>>
<1>1. ASSUME NEW k \in BOOLEAN, BeginSend(s, k)
      PROVE  UNCHANGED <<Contents, closed, eof>>
  <2>1. /\ pc[s] = "idle" /\ value' = [value EXCEPT ![s] = sends + 1]
        /\ UNCHANGED <<buffer, mutex, closed, eof>>
    BY <1>1 DEF BeginSend
  <2>2. mutex # s
    BY <2>1 DEF IInv, HolderInv
  <2>3. mutex = Nobody \/ value'[mutex] = value[mutex]
    BY <2>1, <2>2 DEF IInv, TypeOK
  <2> QED
    BY <2>1, <2>3 DEF Contents
<1>2. CASE TrySend(s)
  <2>1. CASE ~closed /\ CanSend
    <3>1. /\ mutex = Nobody /\ mutex' = s /\ sends < MaxSends
          /\ value' = [value EXCEPT ![s] = sends + 1]
          /\ UNCHANGED <<buffer, closed, eof>>
      BY <1>2, <2>1 DEF TrySend
    <3>2. sends + 1 \in 1 .. MaxSends
      BY <3>1, SizesAssumption, SMT DEF IInv, TypeOK
    <3>3. value'[s] \in 1 .. MaxSends
      BY <3>1, <3>2 DEF IInv, TypeOK
    <3> QED
      BY <2>1, <3>1, <3>3, SendPuts
  <2>2. CASE ~(~closed /\ CanSend)
    BY <1>2, <2>2 DEF TrySend, Contents
  <2> QED
    BY <2>1, <2>2
<1>3. CASE SendTimeout(s) \/ SendTest(s)
  <2>1. /\ mutex = Nobody /\ pc[s] # "idle" /\ UNCHANGED <<buffer, closed, value, eof>>
        /\ mutex' = mutex \/ (mutex' = s /\ ~closed /\ CanSend)
    BY <1>3 DEF SendTimeout, SendTest
  <2>2. value'[s] \in 1 .. MaxSends
    BY <2>1 DEF IInv, HolderInv
  <2>3. CASE mutex' = mutex
    BY <2>1, <2>3 DEF Contents
  <2>4. CASE mutex' = s /\ ~closed /\ CanSend
    BY <2>1, <2>2, <2>4, SendPuts
  <2> QED
    BY <2>1, <2>3, <2>4
<1>4. CASE Push(s)
  <2>1. /\ mutex = s /\ mutex' = Nobody /\ buffer' = Append(buffer, value[s])
        /\ UNCHANGED <<closed, eof>>
    BY <1>4, PushMoves DEF IInv
  <2>2. s # Nobody
    BY ThreadsAssumption DEF Threads
  <2> QED
    BY <2>1, <2>2 DEF Contents
<1> QED
  BY <1>1, <1>2, <1>3, <1>4

\* The steps of receivers.
LEMMA ReceiverRefines ==
  ASSUME IInv, NEW r \in Receivers, ReceiverStep(r)
  PROVE  Fifo!Next \/ UNCHANGED <<Contents, closed, eof>>
<1>1. /\ mutex = Nobody /\ UNCHANGED <<closed, mutex, value>>
      /\ \/ buffer # <<>> /\ buffer' = Tail(buffer) /\ eof' = eof
         \/ buffer = <<>> /\ closed /\ buffer' = buffer /\ eof' = TRUE
         \/ buffer' = buffer /\ eof' = eof
  BY ReceiverMoves DEF IInv
<1>2. Contents = buffer /\ Contents' = buffer'
  BY <1>1 DEF Contents
<1> QED
  BY <1>1, <1>2 DEF Fifo!Next, Fifo!Take, Fifo!ReportClosed, Contents

\* Values come out in the order they went in, at most Capacity are inside, none goes in once
\* the channel is closed, and "closed" is reported only when no value will ever come.
THEOREM FifoRefined == Spec => ImplementsFifoChannel
<1>1. Init => Fifo!Init
  BY DEF Init, Fifo!Init
<1>2. ASSUME IInv, [Next]_vars PROVE [Fifo!Next]_<<Contents, closed, eof>>
  <2>1. ASSUME NEW s \in Senders,
               \/ \E k \in BOOLEAN : BeginSend(s, k)
               \/ TrySend(s) \/ SendTimeout(s) \/ SenderStep(s)
        PROVE  Fifo!Next \/ UNCHANGED <<Contents, closed, eof>>
    BY <1>2, <2>1, SenderRefines DEF SenderStep, Fifo!Next
  <2>2. ASSUME NEW r \in Receivers,
               \/ \E k \in BOOLEAN : BeginReceive(r, k)
               \/ TryReceive(r) \/ ReceiveTimeout(r) \/ ResumeReceive(r)
        PROVE  Fifo!Next \/ UNCHANGED <<Contents, closed, eof>>
    BY <1>2, <2>2, ReceiverRefines DEF ReceiverStep
  <2>3. CASE \/ \E x \in Senders \union Receivers : SpuriousWake(x)
             \/ CloserStep \/ UNCHANGED vars
    <3>1. UNCHANGED <<buffer, mutex, value, closed, eof>>
      BY <2>3 DEF SpuriousWake, CloserStep, OnClose, vars
    <3> QED
      BY <3>1 DEF Contents
  <2>4. CASE CloseStore
    BY <2>4 DEF CloseStore, Fifo!Next, Fifo!Close, Contents
  <2> QED
    BY <1>2, <2>1, <2>2, <2>3, <2>4 DEF Next
<1> QED
  BY <1>1, <1>2, Invariance, PTL
     DEF Spec, Contents, ImplementsFifoChannel, Fifo!Spec, Fifo!vars
=============================================================================
