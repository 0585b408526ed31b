------------------------ MODULE CoroScheduler_proofs ------------------------
(***************************************************************************)
(* The coroutine scheduler implements Executor, and strands a handle only  *)
(* through the gap before its wait, for any workers, submitters, handles.  *)
(***************************************************************************)
EXTENDS CoroScheduler, TLAPS

\* No handle twice.
Distinct(q) == \A i, j \in 1 .. Len(q) : q[i] = q[j] => i = j

\* The submission of op[x] has begun and is not over, or was refused.
Holds(x) == pc[x] \in {"enter", "send", "thrown"}

\* Each handle that was submitted is with one caller, or once in the queue, or was
\* resumed, once.
PlaceInv ==
  /\ Distinct(queue)
  /\ \A h \in Handles :
       /\ ran[h] \in {0, 1}
       /\ Contains(queue, h) => h \in submitted /\ ran[h] = 0
       /\ ran[h] = 1 => h \in submitted
  /\ \A x \in Callers :
       Holds(x) => op[x] \in submitted /\ ran[op[x]] = 0 /\ ~Contains(queue, op[x])
  /\ \A x, y \in Callers : Holds(x) /\ Holds(y) /\ op[x] = op[y] => x = y

IInv == TypeOK /\ PlaceInv /\ StrandedOnlyByGap

-----------------------------------------------------------------------------
(* The queue.                                                              *)

\* What the critical section of send() does to the queue.
LEMMA AppendFacts ==
  ASSUME NEW q \in Seq(Handles), NEW h \in Handles
  PROVE  /\ Append(q, h) \in Seq(Handles)
         /\ \A g \in Handles : Contains(Append(q, h), g) <=> Contains(q, g) \/ g = h
         /\ Distinct(q) /\ ~Contains(q, h) => Distinct(Append(q, h))
<1>1. /\ Len(q) \in Nat /\ Append(q, h) \in Seq(Handles) /\ Len(Append(q, h)) = Len(q) + 1
      /\ \A i \in 1 .. Len(q) : Append(q, h)[i] = q[i]
      /\ Append(q, h)[Len(q) + 1] = h
  OBVIOUS
<1>2. \A i \in 1 .. Len(q) + 1 : i \in 1 .. Len(q) \/ i = Len(q) + 1
  BY <1>1
<1>3. Len(q) + 1 \in 1 .. Len(q) + 1 /\ \A i \in 1 .. Len(q) : i \in 1 .. Len(q) + 1
  BY <1>1
<1>4. \A g \in Handles : Contains(Append(q, h), g) <=> Contains(q, g) \/ g = h
  BY <1>1, <1>2, <1>3 DEF Contains
<1>5. Distinct(q) /\ ~Contains(q, h) => Distinct(Append(q, h))
  BY <1>1, <1>2 DEF Contains, Distinct
<1> QED
  BY <1>1, <1>4, <1>5

\* What the critical section of try_receive() does to it.
LEMMA TailFacts ==
  ASSUME NEW q \in Seq(Handles), q # <<>>, Distinct(q)
  PROVE  /\ Tail(q) \in Seq(Handles) /\ Head(q) \in Handles /\ Contains(q, Head(q))
         /\ \A g \in Handles : Contains(Tail(q), g) <=> Contains(q, g) /\ g # Head(q)
         /\ Distinct(Tail(q))
<1>1. /\ Len(q) \in Nat /\ Len(q) > 0 /\ Tail(q) \in Seq(Handles) /\ Len(Tail(q)) = Len(q) - 1
      /\ \A i \in 1 .. Len(Tail(q)) : Tail(q)[i] = q[i + 1]
      /\ Head(q) = q[1] /\ Head(q) \in Handles
  OBVIOUS
<1>2. /\ 1 \in 1 .. Len(q) /\ \A i \in 1 .. Len(Tail(q)) : i + 1 \in 1 .. Len(q) /\ i + 1 # 1
      /\ \A j \in 1 .. Len(q) : j = 1 \/ (j - 1 \in 1 .. Len(Tail(q)) /\ j = (j - 1) + 1)
  BY <1>1
<1>3. Contains(q, Head(q))
  BY <1>1, <1>2 DEF Contains
<1>4. ASSUME NEW g \in Handles
      PROVE  Contains(Tail(q), g) <=> Contains(q, g) /\ g # Head(q)
  <2>1. ASSUME Contains(Tail(q), g) PROVE Contains(q, g) /\ g # Head(q)
    BY <2>1, <1>1, <1>2 DEF Contains, Distinct
  <2>2. ASSUME Contains(q, g), g # Head(q) PROVE Contains(Tail(q), g)
    <3>1. PICK j \in 1 .. Len(q) : q[j] = g
      BY <2>2 DEF Contains
    <3>2. j - 1 \in 1 .. Len(Tail(q)) /\ Tail(q)[j - 1] = g
      BY <3>1, <2>2, <1>1, <1>2
    <3> QED
      BY <3>2 DEF Contains
  <2> QED
    BY <2>1, <2>2
<1>5. Distinct(Tail(q))
  BY <1>1, <1>2 DEF Distinct
<1> QED
  BY <1>1, <1>3, <1>4, <1>5

\* An empty queue contains nothing.
LEMMA EmptyFacts == Distinct(<<>>) /\ \A h \in Handles : ~Contains(<<>>, h)
  BY DEF Distinct, Contains

-----------------------------------------------------------------------------
(* The shape of the state.                                                 *)

\* The places of the code that one thread can be at.
PcsOf(x) ==
  IF x \in Workers THEN WorkerPcs \union SubmitPcs
  ELSE IF x \in Submitters THEN SubmitPcs \union {"idle"}
  ELSE MainPcs

\* The shape of the state: where the code is, thread by thread, and the rest.
PcOK == pc = [x \in Threads |-> pc[x]] /\ \A x \in Threads : pc[x] \in PcsOf(x)
RestOK ==
  /\ op \in [Callers -> Handles \union {NoHandle}]
  /\ submitted \subseteq Handles
  /\ queue \in Seq(Handles)
  /\ closed \in BOOLEAN /\ shuttingDown \in BOOLEAN /\ missed \in BOOLEAN
  /\ ran \in [Handles -> Nat]

\* The type invariant says the same, place by place.
LEMMA TypeParts == TypeOK <=> PcOK /\ RestOK
<1>1. /\ \A w \in Workers : w \in Threads /\ PcsOf(w) = WorkerPcs \union SubmitPcs
      /\ \A s \in Submitters : s \in Threads /\ PcsOf(s) = SubmitPcs \union {"idle"}
      /\ Main \in Threads /\ PcsOf(Main) = MainPcs
  BY NamesAssumption DEF PcsOf, Threads, Callers
<1>2. \A x \in Threads : x \in Workers \/ x \in Submitters \/ x = Main
  BY DEF Threads, Callers
<1>3. TypeOK => PcOK /\ RestOK
  <2> HAVE TypeOK
  <2>1. RestOK /\ pc = [x \in Threads |-> pc[x]]
    BY DEF TypeOK, RestOK
  <2>2. \A x \in Threads : pc[x] \in PcsOf(x)
    BY <1>1, <1>2 DEF TypeOK
  <2> QED
    BY <2>1, <2>2 DEF PcOK
<1>4. PcOK /\ RestOK => TypeOK
  <2> HAVE PcOK /\ RestOK
  <2>1. /\ \A w \in Workers : pc[w] \in WorkerPcs \union SubmitPcs
        /\ \A s \in Submitters : pc[s] \in SubmitPcs \union {"idle"}
        /\ pc[Main] \in MainPcs
    BY <1>1 DEF PcOK
  <2>2. \A x \in Threads : pc[x] \in WorkerPcs \union SubmitPcs \union MainPcs \union {"idle"}
    BY <2>1, <1>2
  <2>3. pc \in [Threads -> WorkerPcs \union SubmitPcs \union MainPcs \union {"idle"}]
    BY <2>2 DEF PcOK
  <2> QED
    BY <2>1, <2>3 DEF TypeOK, RestOK
<1> QED
  BY <1>3, <1>4

\* A thread that goes on to one of its places.
LEMMA GotoType ==
  ASSUME PcOK, NEW x \in Threads, NEW p \in PcsOf(x), Goto(x, p)
  PROVE  PcOK'
<1>1. pc' = [y \in Threads |-> IF y = x THEN p ELSE pc[y]]
  BY DEF PcOK, Goto
<1>2. \A y \in Threads : pc'[y] \in PcsOf(y)
  BY <1>1 DEF PcOK
<1>3. pc' = [y \in Threads |-> pc'[y]]
  BY <1>1
<1> QED
  BY <1>2, <1>3 DEF PcOK

\* The places that the steps lead to belong to the threads that go there.
LEMMA StepPlaces ==
  /\ \A x \in Callers : /\ x \in Threads
                        /\ {"enter", "send", "notify", "thrown", Home(x)} \subseteq PcsOf(x)
  /\ \A w \in Workers : w \in Threads /\ WorkerPcs \subseteq PcsOf(w)
  /\ Main \in Threads /\ MainPcs \subseteq PcsOf(Main)
<1>1. \A x \in Callers : x \in Workers \/ x \in Submitters
  BY DEF Callers
<1>2. \A w \in Workers : w \in Threads /\ PcsOf(w) = WorkerPcs \union SubmitPcs
  BY DEF PcsOf, Threads, Callers
<1>3. \A s \in Submitters :
        s \in Threads /\ s \notin Workers /\ PcsOf(s) = SubmitPcs \union {"idle"}
  BY NamesAssumption DEF PcsOf, Threads, Callers
<1>4. Main \in Threads /\ PcsOf(Main) = MainPcs
  BY NamesAssumption DEF PcsOf, Threads, Callers
<1>5. /\ {"enter", "send", "notify", "thrown"} \subseteq SubmitPcs /\ "resume" \in WorkerPcs
  BY DEF SubmitPcs, WorkerPcs
<1>6. ASSUME NEW x \in Callers
      PROVE  x \in Threads
             /\ {"enter", "send", "notify", "thrown", Home(x)} \subseteq PcsOf(x)
  <2>1. CASE x \in Workers
    BY <2>1, <1>2, <1>5 DEF Home
  <2>2. CASE x \in Submitters
    BY <2>2, <1>3, <1>5 DEF Home
  <2> QED
    BY <1>1, <2>1, <2>2
<1> QED
  BY <1>2, <1>4, <1>6

\* One more resumption.
LEMMA RanType ==
  ASSUME RestOK, NEW h \in Handles, ran' = [ran EXCEPT ![h] = ran[h] + 1]
  PROVE  ran' \in [Handles -> Nat]
<1>1. ran \in [Handles -> Nat] /\ ran[h] + 1 \in Nat
  BY DEF RestOK
<1> QED
  BY <1>1

\* Every step of the scheduler keeps the shape of the state.
LEMMA TypeStep ==
  ASSUME TypeOK, PlaceInv, Next
  PROVE  TypeOK'
<1>0. PcOK /\ RestOK
  BY TypeParts
<1>1. ASSUME NEW x \in Callers, NEW h \in Handles, Submit(x, h) PROVE PcOK' /\ RestOK'
  <2>1. Goto(x, "enter") /\ op' = [op EXCEPT ![x] = h] /\ submitted' = submitted \union {h}
        /\ UNCHANGED <<queue, closed, shuttingDown, ran, missed>>
    BY <1>1 DEF Submit
  <2>2. PcOK'
    BY <1>0, <2>1, StepPlaces, GotoType
  <2>3. op' \in [Callers -> Handles \union {NoHandle}]
    BY <1>0, <2>1 DEF RestOK
  <2> QED
    BY <1>0, <2>1, <2>2, <2>3 DEF RestOK
<1>2. ASSUME NEW x \in Callers, TestShutdown(x) PROVE PcOK' /\ RestOK'
  <2>1. op[x] \in Handles
    BY <1>2 DEF TestShutdown, PlaceInv, Holds, TypeOK
  <2>2. UNCHANGED <<op, submitted, queue, closed, shuttingDown, missed>>
    BY <1>2 DEF TestShutdown
  <2>3. CASE shuttingDown
    <3>1. ran' = [ran EXCEPT ![op[x]] = ran[op[x]] + 1] /\ Goto(x, Home(x))
      BY <1>2, <2>3 DEF TestShutdown
    <3>2. ran' \in [Handles -> Nat]
      BY <1>0, <2>1, <3>1, RanType
    <3> QED
      BY <1>0, <2>2, <3>1, <3>2, StepPlaces, GotoType DEF RestOK
  <2>4. CASE ~shuttingDown
    <3>1. UNCHANGED ran /\ Goto(x, "send")
      BY <1>2, <2>4 DEF TestShutdown
    <3> QED
      BY <1>0, <2>2, <3>1, StepPlaces, GotoType DEF RestOK
  <2> QED
    BY <2>3, <2>4
<1>r. ASSUME NEW x \in Callers, ResumeInline(x) PROVE PcOK' /\ RestOK'
  <2>1. op[x] \in Handles
    BY <1>r DEF ResumeInline, PlaceInv, Holds, TypeOK
  <2>2. /\ UNCHANGED <<op, submitted, queue, closed, shuttingDown, missed>>
        /\ ran' = [ran EXCEPT ![op[x]] = ran[op[x]] + 1] /\ Goto(x, Home(x))
    BY <1>r DEF ResumeInline
  <2>3. ran' \in [Handles -> Nat]
    BY <1>0, <2>1, <2>2, RanType
  <2> QED
    BY <1>0, <2>2, <2>3, StepPlaces, GotoType DEF RestOK
<1>3. ASSUME NEW x \in Callers, Send(x) PROVE PcOK' /\ RestOK'
  <2>1. op[x] \in Handles
    BY <1>3 DEF Send, PlaceInv, Holds, TypeOK
  <2>2. UNCHANGED <<op, submitted, closed, shuttingDown, ran, missed>>
    BY <1>3 DEF Send
  <2>3. CASE closed
    <3>1. Goto(x, "thrown") /\ UNCHANGED queue
      BY <1>3, <2>3 DEF Send
    <3> QED
      BY <1>0, <2>2, <3>1, StepPlaces, GotoType DEF RestOK
  <2>4. CASE ~closed
    <3>1. Goto(x, "notify") /\ queue' = Append(queue, op[x])
      BY <1>3, <2>4 DEF Send
    <3>2. queue' \in Seq(Handles)
      BY <1>0, <2>1, <3>1, AppendFacts DEF RestOK
    <3> QED
      BY <1>0, <2>2, <3>1, <3>2, StepPlaces, GotoType DEF RestOK
  <2> QED
    BY <2>3, <2>4
<1>4. ASSUME NEW x \in Callers, NotifyOne(x) PROVE PcOK' /\ RestOK'
  <2>1. RestOK'
    <3>1. missed' \in BOOLEAN /\ UNCHANGED <<op, submitted, queue, closed, shuttingDown, ran>>
      BY <1>0, <1>4 DEF NotifyOne, RestOK
    <3> QED
      BY <1>0, <3>1 DEF RestOK
  <2>2. CASE Goto(x, Home(x))
    BY <1>0, <2>1, <2>2, StepPlaces, GotoType
  <2>3. ASSUME NEW w \in Waiting, pc' = [pc EXCEPT ![x] = Home(x), ![w] = "check"]
        PROVE  PcOK'
    <3>1. w \in Workers /\ w \in Threads /\ "check" \in PcsOf(w)
      BY StepPlaces DEF Waiting, WorkerPcs
    <3>2. x \in Threads /\ Home(x) \in PcsOf(x)
      BY StepPlaces
    <3>3. pc' = [y \in Threads |-> IF y = w THEN "check"
                                   ELSE IF y = x THEN Home(x) ELSE pc[y]]
      BY <1>0, <2>3, <3>1, <3>2 DEF PcOK
    <3>4. \A y \in Threads : pc'[y] \in PcsOf(y)
      BY <1>0, <3>1, <3>2, <3>3 DEF PcOK
    <3>5. pc' = [y \in Threads |-> pc'[y]]
      BY <3>3
    <3> QED
      BY <3>4, <3>5 DEF PcOK
  <2> QED
    BY <1>4, <2>1, <2>2, <2>3 DEF NotifyOne
<1>5. ASSUME NEW w \in Workers, TryReceive(w) PROVE PcOK' /\ RestOK'
  <2>1. UNCHANGED <<op, submitted, closed, shuttingDown, missed>>
    BY <1>5 DEF TryReceive
  <2>2. CASE queue = <<>>
    <3>1. Goto(w, "block") /\ UNCHANGED <<queue, ran>>
      BY <1>5, <2>2 DEF TryReceive
    <3> QED
      BY <1>0, <2>1, <3>1, StepPlaces, GotoType DEF RestOK, WorkerPcs
  <2>3. CASE queue # <<>>
    <3>1. /\ ran' = [ran EXCEPT ![Head(queue)] = ran[Head(queue)] + 1]
          /\ queue' = Tail(queue) /\ Goto(w, "resume")
      BY <1>5, <2>3 DEF TryReceive
    <3>2. Tail(queue) \in Seq(Handles) /\ Head(queue) \in Handles
      BY <1>0, <2>3, TailFacts DEF PlaceInv, RestOK
    <3>3. ran' \in [Handles -> Nat]
      BY <1>0, <3>1, <3>2, RanType
    <3>4. PcOK'
      BY <1>0, <3>1, StepPlaces, GotoType DEF WorkerPcs
    <3> QED
      BY <1>0, <2>1, <3>1, <3>2, <3>3, <3>4 DEF RestOK
  <2> QED
    BY <2>2, <2>3
<1>6. ASSUME NEW w \in Workers, TestLoop(w) \/ Resumed(w) \/ Block(w) \/ SpuriousWake(w)
      PROVE  PcOK' /\ RestOK'
  <2>1. /\ \E p \in WorkerPcs : Goto(w, p)
        /\ UNCHANGED <<op, submitted, queue, closed, shuttingDown, ran, missed>>
    BY <1>6 DEF TestLoop, Resumed, Block, SpuriousWake, WorkerPcs
  <2> QED
    BY <1>0, <2>1, StepPlaces, GotoType DEF RestOK
<1>7. ASSUME SetShuttingDown \/ CloseQueue \/ Join PROVE PcOK' /\ RestOK'
  <2>1. \E p \in MainPcs : Goto(Main, p)
    BY <1>7 DEF SetShuttingDown, CloseQueue, Join, MainPcs
  <2>2. PcOK'
    BY <1>0, <2>1, StepPlaces, GotoType
  <2>3. /\ UNCHANGED <<op, submitted, queue, ran, missed>>
        /\ closed' \in {closed, TRUE} /\ shuttingDown' \in {shuttingDown, TRUE}
    BY <1>7 DEF SetShuttingDown, CloseQueue, Join
  <2>4. RestOK'
    BY <1>0, <2>3 DEF RestOK
  <2> QED
    BY <2>2, <2>4
<1>8. ASSUME NotifyAll PROVE PcOK' /\ RestOK'
  <2>1. /\ UNCHANGED <<op, submitted, queue, closed, shuttingDown, ran, missed>>
        /\ pc' = [x \in Threads |-> IF x = Main THEN "close"
                                    ELSE IF x \in Waiting THEN "check" ELSE pc[x]]
    BY <1>8 DEF NotifyAll
  <2>2. "close" \in PcsOf(Main) /\ \A w \in Waiting : "check" \in PcsOf(w)
    BY StepPlaces DEF Waiting, WorkerPcs, MainPcs
  <2>3. \A y \in Threads : pc'[y] \in PcsOf(y)
    BY <1>0, <2>1, <2>2 DEF PcOK
  <2>4. pc' = [y \in Threads |-> pc'[y]]
    BY <2>1
  <2> QED
    BY <1>0, <2>1, <2>3, <2>4 DEF PcOK, RestOK
<1>9. PcOK' /\ RestOK'
  BY <1>1, <1>2, <1>r, <1>3, <1>4, <1>5, <1>6, <1>7, <1>8
  DEF Next, SubmitStep, WorkerStep, StopStep
<1>10. (TypeOK <=> PcOK /\ RestOK)'
  BY TypeParts, PTL
<1> QED
  BY <1>9, <1>10

-----------------------------------------------------------------------------
(* Where a handle is.                                                      *)

\* Steps that submit, queue and resume nothing leave the handles where they are.
LEMMA Quiet ==
  ASSUME TypeOK, PlaceInv, UNCHANGED <<submitted, queue, ran, op>>,
         \A x \in Callers : Holds(x)' <=> Holds(x)
  PROVE  PlaceInv'
  BY DEF PlaceInv

\* The steps of the threads that leave the handles where they are.
LEMMA QuietSteps ==
  ASSUME TypeOK,
         \/ \E x \in Callers : NotifyOne(x)
         \/ \E w \in Workers : TestLoop(w) \/ Resumed(w) \/ Block(w) \/ SpuriousWake(w)
         \/ SetShuttingDown \/ StopStep
  PROVE  /\ UNCHANGED <<submitted, queue, ran, op>>
         /\ \A x \in Callers : /\ Holds(x)' <=> Holds(x)
                               /\ (pc[x] = "thrown")' <=> pc[x] = "thrown"
<1> USE NamesAssumption DEF TypeOK, Callers, Threads, Goto, Home, Holds
<1>1. ASSUME NEW x \in Callers, NotifyOne(x)
      PROVE  /\ UNCHANGED <<submitted, queue, ran, op>>
             /\ \A y \in Callers : /\ Holds(y)' <=> Holds(y)
                                   /\ (pc[y] = "thrown")' <=> pc[y] = "thrown"
  BY <1>1 DEF NotifyOne, Waiting
<1>2. ASSUME NEW w \in Workers, TestLoop(w) \/ Resumed(w) \/ Block(w) \/ SpuriousWake(w)
      PROVE  /\ UNCHANGED <<submitted, queue, ran, op>>
             /\ \A y \in Callers : /\ Holds(y)' <=> Holds(y)
                                   /\ (pc[y] = "thrown")' <=> pc[y] = "thrown"
  BY <1>2 DEF TestLoop, Resumed, Block, SpuriousWake
<1>3. ASSUME SetShuttingDown \/ StopStep
      PROVE  /\ UNCHANGED <<submitted, queue, ran, op>>
             /\ \A y \in Callers : /\ Holds(y)' <=> Holds(y)
                                   /\ (pc[y] = "thrown")' <=> pc[y] = "thrown"
  BY <1>3 DEF SetShuttingDown, StopStep, NotifyAll, CloseQueue, Join, Waiting
<1> HIDE DEF TypeOK, Holds
<1> QED
  BY <1>1, <1>2, <1>3

\* A handle moves from its submitter into the queue and from there to one worker.
LEMMA PlaceStep ==
  ASSUME TypeOK, PlaceInv, Next
  PROVE  PlaceInv'
<1> USE NamesAssumption DEF Callers, Threads, Goto, Home
<1>1. ASSUME NEW x \in Callers, NEW h \in Handles, Submit(x, h) PROVE PlaceInv'
  <2>1. /\ h \notin submitted /\ submitted' = submitted \union {h}
        /\ op' = [op EXCEPT ![x] = h] /\ pc' = [pc EXCEPT ![x] = "enter"]
        /\ UNCHANGED <<queue, ran>> /\ ~Holds(x)
    BY <1>1 DEF Submit, Holds
  <2>2. ran[h] = 0 /\ ~Contains(queue, h)
    BY <2>1 DEF PlaceInv
  <2>3. \A y \in Callers : y # x => (Holds(y)' <=> Holds(y)) /\ op'[y] = op[y]
    BY <2>1 DEF Holds, TypeOK
  <2>4. op'[x] = h
    BY <2>1 DEF TypeOK
  <2>5. \A y \in Callers : Holds(y)' => \/ y = x
                                        \/ y # x /\ op'[y] \in submitted /\ ran[op'[y]] = 0
                                           /\ ~Contains(queue, op'[y])
    BY <2>3 DEF PlaceInv
  <2>6. \A y, z \in Callers : Holds(y)' /\ Holds(z)' /\ op'[y] = op'[z] => y = z
    BY <2>1, <2>3, <2>4, <2>5 DEF PlaceInv
  <2> QED
    BY <2>1, <2>2, <2>4, <2>5, <2>6 DEF PlaceInv
<1>2. ASSUME NEW x \in Callers, TestShutdown(x) PROVE PlaceInv'
  <2>1. /\ Holds(x) /\ op[x] \in Handles /\ op[x] \in submitted /\ ran[op[x]] = 0
        /\ ~Contains(queue, op[x])
    BY <1>2 DEF TestShutdown, Holds, PlaceInv, TypeOK
  <2>2. CASE shuttingDown
    <3>1. /\ ran' = [ran EXCEPT ![op[x]] = @ + 1] /\ UNCHANGED <<op, submitted, queue>>
          /\ ~Holds(x)' /\ \A y \in Callers : y # x => (Holds(y)' <=> Holds(y))
      BY <1>2, <2>2 DEF TestShutdown, Holds, TypeOK
    <3>2. \A g \in Handles : ran'[g] = IF g = op[x] THEN 1 ELSE ran[g]
      BY <2>1, <3>1 DEF TypeOK
    <3>3. \A y \in Callers : Holds(y)' => op[y] # op[x]
      BY <2>1, <3>1 DEF PlaceInv
    <3> QED
      BY <2>1, <3>1, <3>2, <3>3 DEF PlaceInv, TypeOK
  <2>3. CASE ~shuttingDown
    <3>1. /\ UNCHANGED <<op, submitted, queue, ran>>
          /\ \A y \in Callers : Holds(y)' <=> Holds(y)
      BY <1>2, <2>3 DEF TestShutdown, Holds, TypeOK
    <3> QED
      BY <3>1, Quiet
  <2> QED
    BY <2>2, <2>3
<1>r. ASSUME NEW x \in Callers, ResumeInline(x) PROVE PlaceInv'
  <2>1. /\ Holds(x) /\ op[x] \in Handles /\ op[x] \in submitted /\ ran[op[x]] = 0
        /\ ~Contains(queue, op[x])
    BY <1>r DEF ResumeInline, Holds, PlaceInv, TypeOK
  <2>2. /\ ran' = [ran EXCEPT ![op[x]] = @ + 1] /\ UNCHANGED <<op, submitted, queue>>
        /\ ~Holds(x)' /\ \A y \in Callers : y # x => (Holds(y)' <=> Holds(y))
    BY <1>r DEF ResumeInline, Holds, TypeOK
  <2>3. \A g \in Handles : ran'[g] = IF g = op[x] THEN 1 ELSE ran[g]
    BY <2>1, <2>2 DEF TypeOK
  <2>4. \A y \in Callers : Holds(y)' => op[y] # op[x]
    BY <2>1, <2>2 DEF PlaceInv
  <2> QED
    BY <2>1, <2>2, <2>3, <2>4 DEF PlaceInv, TypeOK
<1>3. ASSUME NEW x \in Callers, Send(x) PROVE PlaceInv'
  <2>1. /\ Holds(x) /\ op[x] \in Handles /\ op[x] \in submitted /\ ran[op[x]] = 0
        /\ ~Contains(queue, op[x])
    BY <1>3 DEF Send, Holds, PlaceInv, TypeOK
  <2>2. CASE closed
    <3>1. /\ UNCHANGED <<op, submitted, queue, ran>>
          /\ \A y \in Callers : Holds(y)' <=> Holds(y)
      BY <1>3, <2>2 DEF Send, Holds, TypeOK
    <3> QED
      BY <3>1, Quiet
  <2>3. CASE ~closed
    <3>1. /\ queue' = Append(queue, op[x]) /\ UNCHANGED <<op, submitted, ran>>
          /\ ~Holds(x)' /\ \A y \in Callers : y # x => (Holds(y)' <=> Holds(y))
      BY <1>3, <2>3 DEF Send, Holds, TypeOK
    <3>2. /\ Distinct(queue')
          /\ \A g \in Handles : Contains(queue', g) <=> Contains(queue, g) \/ g = op[x]
      BY <2>1, <3>1, AppendFacts DEF PlaceInv, TypeOK
    <3>3. \A y \in Callers : Holds(y)' => Holds(y) /\ op[y] # op[x]
      BY <2>1, <3>1 DEF PlaceInv
    <3> QED
      BY <2>1, <3>1, <3>2, <3>3 DEF PlaceInv, TypeOK
  <2> QED
    BY <2>2, <2>3
<1>4. ASSUME NEW w \in Workers, TryReceive(w) PROVE PlaceInv'
  <2>1. UNCHANGED <<op, submitted>> /\ \A y \in Callers : Holds(y)' <=> Holds(y)
    BY <1>4 DEF TryReceive, Holds, TypeOK
  <2>2. CASE queue = <<>>
    <3>1. UNCHANGED <<op, submitted, queue, ran>>
      BY <1>4, <2>2 DEF TryReceive
    <3> QED
      BY <2>1, <3>1, Quiet
  <2>3. CASE queue # <<>>
    <3>1. /\ queue' = Tail(queue) /\ ran' = [ran EXCEPT ![Head(queue)] = @ + 1]
      BY <1>4, <2>3 DEF TryReceive
    <3>2. /\ Distinct(queue') /\ Head(queue) \in Handles /\ Contains(queue, Head(queue))
          /\ \A g \in Handles : Contains(queue', g) <=> Contains(queue, g) /\ g # Head(queue)
      BY <2>3, <3>1, TailFacts DEF PlaceInv, TypeOK
    <3>3. \A g \in Handles : ran'[g] = IF g = Head(queue) THEN 1 ELSE ran[g]
      BY <3>1, <3>2 DEF TypeOK, PlaceInv
    <3>4. \A y \in Callers : Holds(y) => op[y] \in Handles /\ op[y] # Head(queue)
      BY <3>2 DEF PlaceInv, TypeOK
    <3> QED
      BY <2>1, <3>1, <3>2, <3>3, <3>4 DEF PlaceInv
  <2> QED
    BY <2>2, <2>3
<1>5. ASSUME \/ \E x \in Callers : NotifyOne(x)
             \/ \E w \in Workers : TestLoop(w) \/ Resumed(w) \/ Block(w) \/ SpuriousWake(w)
             \/ SetShuttingDown \/ StopStep
      PROVE  PlaceInv'
  BY <1>5, QuietSteps, Quiet
<1> HIDE DEF Callers, Threads, Goto, Home
<1> QED
  BY <1>1, <1>2, <1>r, <1>3, <1>4, <1>5 DEF Next, SubmitStep, WorkerStep

-----------------------------------------------------------------------------
(* The gap before the wait.                                                *)

\* Only a notification in the gap leaves a handle with nobody awake: who queues one
\* notifies, and a worker that is awake looks at the queue before it waits.
LEMMA GapStep ==
  ASSUME TypeOK, StrandedOnlyByGap, Next
  PROVE  StrandedOnlyByGap'
<1> USE NamesAssumption DEF TypeOK, Callers, Threads, Goto, Home, StrandedOnlyByGap, Awake
<1>1. ASSUME NEW x \in Callers, NEW h \in Handles, Submit(x, h) PROVE StrandedOnlyByGap'
  BY <1>1 DEF Submit
<1>2. ASSUME NEW x \in Callers, TestShutdown(x) PROVE StrandedOnlyByGap'
  BY <1>2 DEF TestShutdown
<1>r. ASSUME NEW x \in Callers, ResumeInline(x) PROVE StrandedOnlyByGap'
  BY <1>r DEF ResumeInline
<1>3. ASSUME NEW x \in Callers, Send(x) PROVE StrandedOnlyByGap'
  BY <1>3 DEF Send
<1>4. ASSUME NEW x \in Callers, NotifyOne(x) PROVE StrandedOnlyByGap'
  BY <1>4 DEF NotifyOne, Waiting
<1>5. ASSUME NEW w \in Workers, TryReceive(w) PROVE StrandedOnlyByGap'
  BY <1>5 DEF TryReceive
<1>6. ASSUME NEW w \in Workers, TestLoop(w) \/ Resumed(w) \/ Block(w) \/ SpuriousWake(w)
      PROVE  StrandedOnlyByGap'
  BY <1>6 DEF TestLoop, Resumed, Block, SpuriousWake
<1>7. CASE SetShuttingDown \/ NotifyAll \/ CloseQueue \/ Join
  BY <1>7 DEF SetShuttingDown, NotifyAll, CloseQueue, Join, Waiting
<1> HIDE DEF TypeOK, Callers, Threads, Goto, Home, StrandedOnlyByGap, Awake
<1> QED
  BY <1>1, <1>2, <1>r, <1>3, <1>4, <1>5, <1>6, <1>7 DEF Next, SubmitStep, WorkerStep, StopStep

-----------------------------------------------------------------------------
(* The invariant of the specification, and what follows from it.           *)

\* The scheduler starts with nothing submitted.
LEMMA InitInv == Init => IInv
<1> SUFFICES ASSUME Init PROVE IInv
  OBVIOUS
<1> USE NamesAssumption DEF Init, Callers, Threads
<1>1. TypeOK
  <2>1. /\ queue \in Seq(Handles) /\ ran \in [Handles -> Nat]
        /\ op \in [Callers -> Handles \union {NoHandle}] /\ submitted \subseteq Handles
    OBVIOUS
  <2>2. closed \in BOOLEAN /\ shuttingDown \in BOOLEAN /\ missed \in BOOLEAN
    OBVIOUS
  <2>3. /\ pc \in [Threads -> WorkerPcs \union SubmitPcs \union MainPcs \union {"idle"}]
        /\ \A w \in Workers : pc[w] = "check"
        /\ \A s \in Submitters : pc[s] = "idle"
        /\ pc[Main] = "running"
    BY DEF WorkerPcs, SubmitPcs, MainPcs
  <2> QED
    BY <2>1, <2>2, <2>3 DEF TypeOK, WorkerPcs, SubmitPcs, MainPcs
<1>2. PlaceInv
  BY EmptyFacts DEF PlaceInv, Holds
<1>3. StrandedOnlyByGap
  BY DEF StrandedOnlyByGap
<1> QED
  BY <1>1, <1>2, <1>3 DEF IInv

\* The three parts together.
LEMMA InductiveStep == IInv /\ [Next]_vars => IInv'
<1>1. ASSUME IInv, Next PROVE IInv'
  BY <1>1, TypeStep, PlaceStep, GapStep DEF IInv
<1>2. ASSUME IInv, UNCHANGED vars PROVE IInv'
  BY <1>2 DEF IInv, vars, TypeOK, PlaceInv, Holds, StrandedOnlyByGap, Awake
<1> QED
  BY <1>1, <1>2

\* The inductive invariant.
THEOREM Invariance == Spec => []IInv
  BY InitInv, InductiveStep, PTL DEF Spec

\* Apart from a notify_one() that falls between a worker's try_receive() and its wait,
\* no handle waits in the queue with every worker asleep.
THEOREM OnlyTheGapStrands == Spec => []SchedulerInv
<1>1. IInv => SchedulerInv
  BY DEF IInv, SchedulerInv
<1> QED
  BY <1>1, Invariance, PTL

-----------------------------------------------------------------------------
(* The refinement.                                                         *)

\* PlaceOf where no handle is in two places.
PlaceIs(h) ==
  IF ran[h] = 1 THEN "resumed"
  ELSE IF Contains(queue, h) THEN "pending"
  ELSE IF Refused(h) THEN "refused" ELSE "new"

\* In the states of the invariant no handle is.
LEMMA Places ==
  ASSUME PlaceInv, TypeOK, NEW h \in Handles
  PROVE  PlaceOf(h) = PlaceIs(h)
<1>1. /\ ran[h] = 1 => ~Contains(queue, h) /\ ~Refused(h)
      /\ ran[h] # 1 => ran[h] = 0
      /\ Contains(queue, h) => ~Refused(h)
  BY DEF PlaceInv, Refused, Holds
<1> HIDE DEF Refused
<1> USE DEF PlaceIs
<1>2. CASE ran[h] = 1
  BY <1>1, <1>2 DEF PlaceOf
<1>3. CASE ran[h] = 0 /\ Contains(queue, h)
  BY <1>1, <1>3 DEF PlaceOf
<1>4. CASE ran[h] = 0 /\ ~Contains(queue, h) /\ Refused(h)
  BY <1>1, <1>4 DEF PlaceOf
<1>5. CASE ran[h] = 0 /\ ~Contains(queue, h) /\ ~Refused(h)
  BY <1>1, <1>5 DEF PlaceOf
<1> QED
  BY <1>1, <1>2, <1>3, <1>4, <1>5

\* The same, of all handles.
LEMMA PlacesOfAll == IInv => \A g \in Handles : PlaceOf(g) = PlaceIs(g)
  BY Places DEF IInv

\* What a step does to the places is a step of the abstract executor, or nothing.
LEMMA OneMoves ==
  ASSUME NEW h \in Handles, NEW from, NEW to,
         \A g \in Handles : PlaceOf(g) = PlaceIs(g) /\ PlaceOf(g)' = PlaceIs(g)',
         \A g \in Handles \ {h} : PlaceIs(g)' = PlaceIs(g),
         PlaceIs(h) = from, PlaceIs(h)' = to,
         \/ from = "new" /\ to \in {"pending", "refused", "resumed"}
         \/ from = "pending" /\ to = "resumed"
  PROVE  Exec!Next
<1>1. [g \in Handles |-> PlaceOf(g)]' = [[g \in Handles |-> PlaceOf(g)] EXCEPT ![h] = to]
  OBVIOUS
<1>2. [g \in Handles |-> PlaceOf(g)][h] = from
  OBVIOUS
<1>3. \/ Exec!Submit(h) \/ Exec!Resume(h) \/ Exec!Refuse(h)
  BY <1>1, <1>2 DEF Exec!Submit, Exec!Resume, Exec!Refuse, Exec!Move
<1> QED
  BY <1>3 DEF Exec!Next

\* A step that moves no handle.
LEMMA NoneMoves ==
  ASSUME \A g \in Handles : PlaceOf(g) = PlaceIs(g) /\ PlaceOf(g)' = PlaceIs(g)',
         \A g \in Handles : PlaceIs(g)' = PlaceIs(g)
  PROVE  UNCHANGED [g \in Handles |-> PlaceOf(g)]
  OBVIOUS

\* Every step maps to a step of Executor or to none.
LEMMA RefinementStep ==
  ASSUME IInv, IInv', Next
  PROVE  Exec!Next \/ UNCHANGED [g \in Handles |-> PlaceOf(g)]
<1> USE NamesAssumption DEF Callers, Threads, Goto, Home
<1>p. \A g \in Handles : PlaceOf(g) = PlaceIs(g) /\ PlaceOf(g)' = PlaceIs(g)'
  <2>1. \A g \in Handles : PlaceOf(g) = PlaceIs(g)
    BY PlacesOfAll
  <2>2. (\A g \in Handles : PlaceOf(g) = PlaceIs(g))'
    BY PlacesOfAll, PTL
  <2> QED
    BY <2>1, <2>2
<1>i. TypeOK /\ PlaceInv
  BY DEF IInv
\* Refusals are lost or made only by throwing.
<1>r. ASSUME NEW g \in Handles,
             \A y \in Callers : /\ (pc[y] = "thrown")' <=> pc[y] = "thrown"
                                /\ pc[y] = "thrown" => op'[y] = op[y]
      PROVE  Refused(g)' <=> Refused(g)
  BY <1>r DEF Refused
<1>1. ASSUME NEW x \in Callers, NEW h \in Handles, Submit(x, h)
      PROVE  UNCHANGED [g \in Handles |-> PlaceOf(g)]
  <2>1. /\ UNCHANGED <<queue, ran>>
        /\ \A y \in Callers : /\ (pc[y] = "thrown")' <=> pc[y] = "thrown"
                              /\ pc[y] = "thrown" => op'[y] = op[y]
    BY <1>1, <1>i DEF Submit, TypeOK
  <2>2. \A g \in Handles : PlaceIs(g)' = PlaceIs(g)
    BY <2>1, <1>r DEF PlaceIs
  <2> QED
    BY <2>2, <1>p, NoneMoves
\* A caller that is submitting a handle is where the handle is.
<1>h. ASSUME NEW x \in Callers, pc[x] \in {"enter", "send"}
      PROVE  op[x] \in Handles /\ PlaceIs(op[x]) = "new" /\ ran[op[x]] = 0 /\ ~Refused(op[x])
  BY <1>h, <1>i DEF TypeOK, PlaceInv, Holds, Refused, PlaceIs
<1>2. ASSUME NEW x \in Callers, TestShutdown(x)
      PROVE  Exec!Next \/ UNCHANGED [g \in Handles |-> PlaceOf(g)]
  <2>1. op[x] \in Handles /\ PlaceIs(op[x]) = "new" /\ ran[op[x]] = 0
    BY <1>2, <1>h DEF TestShutdown
  <2>2. /\ UNCHANGED <<queue, op>>
        /\ \A y \in Callers : (pc[y] = "thrown")' <=> pc[y] = "thrown"
    BY <1>2, <1>i DEF TestShutdown, TypeOK
  <2>3. \A g \in Handles : Refused(g)' <=> Refused(g)
    BY <2>2, <1>r
  <2>4. CASE shuttingDown
    <3>1. ran' = [ran EXCEPT ![op[x]] = @ + 1]
      BY <1>2, <2>4 DEF TestShutdown
    <3>2. ran'[op[x]] = 1 /\ \A g \in Handles \ {op[x]} : ran'[g] = ran[g]
      BY <3>1, <2>1, <1>i DEF TypeOK
    <3>3. PlaceIs(op[x])' = "resumed"
      BY <3>2, <2>2 DEF PlaceIs
    <3>4. \A g \in Handles \ {op[x]} : PlaceIs(g)' = PlaceIs(g)
      BY <3>2, <2>2, <2>3 DEF PlaceIs
    <3> DEFINE h == op[x]
    <3>5. h \in Handles /\ PlaceIs(h) = "new" /\ PlaceIs(h)' = "resumed"
      BY <2>1, <2>2, <3>3 DEF PlaceIs, Refused
    <3> QED
      BY <3>4, <3>5, <2>1, <2>2, <3>3, <1>p, OneMoves
  <2>5. CASE ~shuttingDown
    <3>1. UNCHANGED ran
      BY <1>2, <2>5 DEF TestShutdown
    <3>2. \A g \in Handles : PlaceIs(g)' = PlaceIs(g)
      BY <3>1, <2>2, <2>3 DEF PlaceIs
    <3> QED
      BY <3>2, <1>p, NoneMoves
  <2> QED
    BY <2>4, <2>5
<1>s. ASSUME NEW x \in Callers, ResumeInline(x)
      PROVE  Exec!Next \/ UNCHANGED [g \in Handles |-> PlaceOf(g)]
  <2>1. /\ op[x] \in Handles /\ PlaceIs(op[x]) = "new" /\ ran[op[x]] = 0
        /\ ~Refused(op[x])
    BY <1>s, <1>h, <1>i DEF ResumeInline, PlaceInv, Holds
  <2>2. /\ UNCHANGED <<queue, op>>
        /\ \A y \in Callers : (pc[y] = "thrown")' <=> pc[y] = "thrown"
        /\ ran' = [ran EXCEPT ![op[x]] = @ + 1]
    BY <1>s, <1>i DEF ResumeInline, TypeOK
  <2>3. \A g \in Handles : Refused(g)' <=> Refused(g)
    BY <2>2, <1>r
  <2>4. ran'[op[x]] = 1 /\ \A g \in Handles \ {op[x]} : ran'[g] = ran[g]
    BY <2>1, <2>2, <1>i DEF TypeOK
  <2>5. \A g \in Handles \ {op[x]} : PlaceIs(g)' = PlaceIs(g)
    BY <2>2, <2>3, <2>4 DEF PlaceIs
  <2> DEFINE h == op[x]
  <2>6. h \in Handles /\ PlaceIs(h) = "new" /\ PlaceIs(h)' = "resumed"
    BY <2>1, <2>2, <2>4 DEF PlaceIs, Refused
  <2> QED
    BY <2>1, <2>2, <2>5, <2>6, <1>p, OneMoves
<1>3. ASSUME NEW x \in Callers, Send(x)
      PROVE  Exec!Next \/ UNCHANGED [g \in Handles |-> PlaceOf(g)]
  <2>1. /\ op[x] \in Handles /\ PlaceIs(op[x]) = "new" /\ ran[op[x]] = 0
        /\ ~Refused(op[x]) /\ ~Contains(queue, op[x])
    BY <1>3, <1>h, <1>i DEF Send, PlaceInv, Holds
  <2>2. UNCHANGED <<op, ran>>
    BY <1>3 DEF Send
  <2>3. CASE closed
    <3>1. UNCHANGED queue /\ pc' = [pc EXCEPT ![x] = "thrown"]
      BY <1>3, <2>3 DEF Send
    <3>2. pc'[x] = "thrown" /\ \A y \in Callers : y # x => pc'[y] = pc[y]
      BY <3>1, <1>i DEF TypeOK
    <3>3. Refused(op[x])' /\ \A g \in Handles \ {op[x]} : Refused(g)' <=> Refused(g)
      BY <1>3, <3>2, <2>2 DEF Refused, Send
    <3>4. PlaceIs(op[x])' = "refused"
      BY <3>1, <3>3, <2>1, <2>2 DEF PlaceIs
    <3>5. \A g \in Handles \ {op[x]} : PlaceIs(g)' = PlaceIs(g)
      BY <3>1, <3>3, <2>2 DEF PlaceIs
    <3> QED
      BY <2>1, <2>2, <3>4, <3>5, <1>p, OneMoves
  <2>4. CASE ~closed
    <3>1. queue' = Append(queue, op[x]) /\ pc' = [pc EXCEPT ![x] = "notify"]
      BY <1>3, <2>4 DEF Send
    <3>2. \A g \in Handles : Refused(g)' <=> Refused(g)
      BY <1>3, <3>1, <1>i, <2>2 DEF Refused, TypeOK, Send
    <3>3. \A g \in Handles : Contains(queue', g) <=> Contains(queue, g) \/ g = op[x]
      BY <2>1, <3>1, <1>i, AppendFacts DEF TypeOK
    <3>4. PlaceIs(op[x])' = "pending"
      BY <3>3, <2>1, <2>2 DEF PlaceIs
    <3>5. \A g \in Handles \ {op[x]} : PlaceIs(g)' = PlaceIs(g)
      BY <3>2, <3>3, <2>2 DEF PlaceIs
    <3> QED
      BY <2>1, <2>2, <3>4, <3>5, <1>p, OneMoves
  <2> QED
    BY <2>3, <2>4
<1>4. ASSUME NEW w \in Workers, TryReceive(w)
      PROVE  Exec!Next \/ UNCHANGED [g \in Handles |-> PlaceOf(g)]
  <2>1. UNCHANGED op /\ \A y \in Callers : (pc[y] = "thrown")' <=> pc[y] = "thrown"
    BY <1>4, <1>i DEF TryReceive, TypeOK
  <2>2. \A g \in Handles : Refused(g)' <=> Refused(g)
    BY <2>1, <1>r
  <2>3. CASE queue = <<>>
    <3>1. UNCHANGED <<queue, ran>>
      BY <1>4, <2>3 DEF TryReceive
    <3>2. \A g \in Handles : PlaceIs(g)' = PlaceIs(g)
      BY <3>1, <2>2 DEF PlaceIs
    <3> QED
      BY <3>2, <1>p, NoneMoves
  <2>4. CASE queue # <<>>
    <3> DEFINE h == Head(queue)
    <3>1. queue' = Tail(queue) /\ ran' = [ran EXCEPT ![h] = @ + 1]
      BY <1>4, <2>4 DEF TryReceive
    <3>2. /\ h \in Handles /\ Contains(queue, h)
          /\ \A g \in Handles : Contains(queue', g) <=> Contains(queue, g) /\ g # h
      BY <2>4, <3>1, <1>i, TailFacts DEF PlaceInv, TypeOK
    <3>3. ran[h] = 0 /\ ran'[h] = 1 /\ \A g \in Handles \ {h} : ran'[g] = ran[g]
      BY <3>1, <3>2, <1>i DEF TypeOK, PlaceInv
    <3> HIDE DEF h
    <3>4. \A g \in Handles \ {h} : PlaceIs(g)' = PlaceIs(g)
      BY <3>2, <3>3, <2>2 DEF PlaceIs
    <3>5. PICK k \in Handles : k = h
      BY <3>2
    <3>6. PlaceIs(k) = "pending" /\ PlaceIs(k)' = "resumed"
      BY <3>2, <3>3, <3>5 DEF PlaceIs
    <3> QED
      BY <3>4, <3>5, <3>6, <1>p, OneMoves
  <2> QED
    BY <2>3, <2>4
<1>5. ASSUME \/ \E x \in Callers : NotifyOne(x)
             \/ \E w \in Workers : TestLoop(w) \/ Resumed(w) \/ Block(w) \/ SpuriousWake(w)
             \/ SetShuttingDown \/ StopStep
      PROVE  UNCHANGED [g \in Handles |-> PlaceOf(g)]
  <2>1. /\ UNCHANGED <<queue, ran, op>>
        /\ \A y \in Callers : (pc[y] = "thrown")' <=> pc[y] = "thrown"
    BY <1>5, <1>i, QuietSteps
  <2>2. \A g \in Handles : PlaceIs(g)' = PlaceIs(g)
    BY <2>1, <1>r DEF PlaceIs
  <2> QED
    BY <2>2, <1>p, NoneMoves
<1> HIDE DEF Callers, Threads, Goto, Home
<1> QED
  BY <1>1, <1>2, <1>s, <1>3, <1>4, <1>5 DEF Next, SubmitStep, WorkerStep

\* No submission has begun.
LEMMA RefinementInit == Init => Exec!Init
<1> SUFFICES ASSUME Init PROVE Exec!Init
  OBVIOUS
<1>1. IInv
  BY InitInv
<1>2. ASSUME NEW h \in Handles PROVE PlaceIs(h) = "new"
  <2>1. ran[h] = 0 /\ ~Contains(queue, h)
    BY EmptyFacts DEF Init
  <2>2. ~Refused(h)
    BY NamesAssumption DEF Init, Refused, Callers, Threads
  <2> QED
    BY <2>1, <2>2 DEF PlaceIs
<1> QED
  BY <1>1, <1>2, PlacesOfAll DEF Exec!Init

\* A submission is resumed at most once, refused, or pending: what schedule_coro_handle,
\* coro_worker and the shutdown do to it is what Executor allows.
THEOREM Refinement == Spec => ImplementsExecutor
<1>1. IInv /\ IInv' /\ [Next]_vars => [Exec!Next]_[h \in Handles |-> PlaceOf(h)]
  <2>1. ASSUME IInv, IInv', Next
        PROVE  Exec!Next \/ UNCHANGED [h \in Handles |-> PlaceOf(h)]
    BY <2>1, RefinementStep
  <2>2. ASSUME UNCHANGED vars PROVE UNCHANGED [h \in Handles |-> PlaceOf(h)]
    BY <2>2 DEF vars, PlaceOf, Refused
  <2> QED
    BY <2>1, <2>2
<1> QED
  BY <1>1, Invariance, RefinementInit, PTL DEF Spec, ImplementsExecutor, Exec!Spec
=============================================================================
