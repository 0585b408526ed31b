--------------------------- MODULE CoroTask_proofs ---------------------------
(***************************************************************************)
(* Theorems of CoroTask, for any number of tasks, threads and workers and  *)
(* any ownership tree: its safety properties hold, it implements fork/join *)
(* and a coroutine does nothing more once it has published                 *)
(* final_suspend_reached.  They follow from the inductive invariant IInv,  *)
(* a conjunction of named parts.                                           *)
(***************************************************************************)
EXTENDS CoroTask, TLAPS

-----------------------------------------------------------------------------
(* The inductive invariant.                                                *)

\* A worker executes a coroutine that is on the CPU, and no two the same.
WorkersInv ==
  /\ \A v, w \in Workers : run[v] = run[w] /\ run[v] # NoTask => v = w
  /\ \A w \in Workers : run[w] # NoTask => pc[run[w]] \in OnCpuPcs

\* Only a started coroutine that is suspended at its beginning or by yield() is in
\* the queue, and only once.
QueueInv ==
  \A t \in Tasks :
    /\ queued[t] \in {0, 1}
    /\ queued[t] = 1 => started[t] /\ pc[t] \in {"initial", "yielded"}

\* A frame that is past its beginning was started, one not created was not.
StartedInv ==
  \A t \in Tasks :
    /\ pc[t] \notin {"none", "initial", "destroyed"} => started[t]
    /\ pc[t] = "none" => ~started[t]

\* A body that was left by co_return has stored its result; only a started task
\* has one.
ResultInv ==
  \A t \in Tasks :
    /\ leaving[t] = "return" => Ready(t)
    /\ Ready(t) => started[t]

\* An operation is on a started task that its caller holds.
OpsInv ==
  \A a \in Actors : pc[a] \in OpPcs \union {"awaiting"} =>
    /\ tgt[a] \in Tasks
    /\ Owner[tgt[a]] = a
    /\ Live(tgt[a])
    /\ started[tgt[a]]

\* c's owner is suspended in co_await c.
AwaitedBySuspendedOwner(c) ==
  /\ Owner[c] \in Tasks
  /\ hand[c].cont = Owner[c]
  /\ pc[Owner[c]] = "awaiting"
  /\ tgt[Owner[c]] = c

\* The handoff word: READY_FLAG tells how far final_awaiter is, and the address is
\* the owner's, which stays suspended until READY_FLAG is set and, if final_awaiter
\* won, until it has transferred.
HandInv ==
  \A c \in Tasks :
    /\ hand[c].rdy => /\ pc[c] \in {"fingetcont", "finstore", "final", "destroyed"}
                      /\ Ready(c)
    /\ pc[c] \in {"fingetcont", "finstore", "final"} => hand[c].rdy
    /\ pc[c] \in FinalPcs => Ready(c)
    /\ pc[c] = "fincas" => ~seen[c].rdy
    /\ hand[c].cont # NoTask /\ ~hand[c].rdy => AwaitedBySuspendedOwner(c)
    /\ pc[c] = "fingetcont" => AwaitedBySuspendedOwner(c)
    /\ pc[c] = "finstore" /\ tgt[c] # NoTask =>
         tgt[c] = Owner[c] /\ AwaitedBySuspendedOwner(c)

\* Whoever is about to publish itself as a continuation is the first to do so.
FirstAwaiterInv ==
  \A a \in Tasks :
    /\ pc[a] \in {"awload", "awcas"} => hand[tgt[a]].cont = NoTask
    /\ pc[a] = "awcas" => seen[a].cont = NoTask

\* A suspended awaiter's handle is in the handoff word, and READY_FLAG tells whether
\* final_awaiter has come across it.
AwaiterInv ==
  \A a \in Tasks : pc[a] = "awaiting" =>
    /\ hand[tgt[a]].cont = a
    /\ \/ ~hand[tgt[a]].rdy /\ Live(tgt[a]) /\ started[tgt[a]]
       \/ pc[tgt[a]] = "fingetcont"
       \/ Transferring(tgt[a], a)

\* final_suspend_reached tells that the coroutine is at its final suspend point.
FinalInv ==
  \A t \in Tasks :
    /\ finalReached[t] => pc[t] \in {"final", "destroyed"}
    /\ pc[t] = "final" => finalReached[t]

\* A frame outlives the frames its scope holds.
TreeInv ==
  \A t \in Tasks : Live(t) =>
    pc[Owner[t]] \in {"body", "awaiting", "yielded"} \union OpPcs

IInv ==
  /\ TypeOK
  /\ WorkersInv
  /\ QueueInv
  /\ StartedInv
  /\ ResultInv
  /\ OpsInv
  /\ HandInv
  /\ FirstAwaiterInv
  /\ AwaitResumeHasResult
  /\ AwaiterInv
  /\ FinalInv
  /\ TreeInv

-----------------------------------------------------------------------------
(* The proofs: each part of IInv is preserved by every action.             *)

\* A handoff word is made of a flag and an address, and taken apart into them
\* (continuation_handoff's READY_FLAG and ADDR_MASK).
LEMMA HandWordMade ==
  ASSUME NEW r \in BOOLEAN, NEW k \in Tasks \union {NoTask}
  PROVE  [rdy |-> r, cont |-> k] \in HandWords
  BY DEF HandWords

\* The two parts of a handoff word have their types.
LEMMA HandWordParts ==
  ASSUME NEW h \in HandWords
  PROVE  h.rdy \in BOOLEAN /\ h.cont \in Tasks \union {NoTask}
  BY DEF HandWords

\* Only a's own code moves.
OnlyMoves(a) == \A b \in Actors : b # a => pc'[b] = pc[b]

\* What an awaiter does: it goes on to the result, or on to the handoff word of a task
\* that it starts.
CoAwaitMove(a, t) ==
  /\ a \in Tasks /\ pc[a] = "body" /\ Owner[t] = a /\ Live(t)
  /\ tgt'[a] = t /\ \A b \in Actors : b # a => tgt'[b] = tgt[b]
  /\ OnlyMoves(a) /\ pc'[a] = IF Ready(t) THEN "awresume" ELSE "awload"
  /\ UNCHANGED <<seen, leaving, result, finalReached, hand, run, yields>>

\* co_await does that.
LEMMA CoAwaitMoves ==
  ASSUME TypeOK, NEW a \in Actors, NEW t \in Tasks, CoAwait(a, t)
  PROVE  CoAwaitMove(a, t)
<1>1. /\ a \in Tasks /\ pc[a] = "body" /\ Owner[t] = a /\ Live(t)
      /\ tgt' = [tgt EXCEPT ![a] = t]
      /\ pc' = [pc EXCEPT ![a] = IF Ready(t) THEN "awresume" ELSE "awload"]
      /\ UNCHANGED <<seen, leaving, result, finalReached, hand, run, yields>>
  BY DEF CoAwait, InScope, At, Holds, Goto
<1>2. pc \in [Actors -> TaskPcs \union ThreadPcs]
      /\ tgt \in [Actors -> Tasks \union {NoTask}]
  BY DEF TypeOK
<1> QED
  BY <1>1, <1>2 DEF CoAwaitMove, OnlyMoves

\* What an awaiter does at the handoff word, of a task it holds: it is suspended, or
\* tries again, or goes on to the result.
SetContinuationMove(a) ==
  /\ a \in Tasks /\ pc[a] = "awcas" /\ tgt[a] \in Tasks
  /\ OnlyMoves(a) /\ pc'[a] \in {"awcas", "awaiting", "awresume"}
  /\ UNCHANGED <<tgt, leaving, result, started, finalReached, queued, yields>>
  /\ \/ pc'[a] = "awaiting" /\ seen[a].cont # NoTask /\ UNCHANGED <<seen, hand>>
     \/ /\ pc'[a] = "awcas" /\ seen[a].cont = NoTask
        /\ seen' = [seen EXCEPT ![a] = hand[tgt[a]]] /\ UNCHANGED hand
     \/ /\ pc'[a] = IF seen[a].rdy THEN "awresume" ELSE "awaiting"
        /\ seen[a].cont = NoTask /\ hand[tgt[a]] = seen[a]
        /\ hand' = [hand EXCEPT ![tgt[a]] = [rdy |-> seen[a].rdy, cont |-> a]]
        /\ UNCHANGED seen

\* set_continuation() does that.
LEMMA SetContinuationMoves ==
  ASSUME TypeOK, OpsInv, NEW a \in Actors, SetContinuation(a)
  PROVE  SetContinuationMove(a)
<1>1. a \in Tasks /\ pc[a] = "awcas"
  BY NamesAssumption DEF SetContinuation, At, TypeOK, ThreadPcs, Actors
<1>2. tgt[a] \in Tasks
  BY <1>1 DEF OpsInv, OpPcs
<1>3. pc \in [Actors -> TaskPcs \union ThreadPcs]
  BY DEF TypeOK
<1>4. OnlyMoves(a)
  BY <1>3 DEF SetContinuation, Goto, OnlyMoves
<1>5. UNCHANGED <<tgt, leaving, result, started, finalReached, queued, yields>>
  BY DEF SetContinuation
<1>6. CASE seen[a].cont # NoTask
  <2>1. pc'[a] = "awaiting" /\ UNCHANGED <<seen, hand>>
    BY <1>3, <1>6 DEF SetContinuation, Goto
  <2> QED
    BY <1>1, <1>2, <1>4, <1>5, <1>6, <2>1 DEF SetContinuationMove
<1>7. CASE seen[a].cont = NoTask /\ hand[tgt[a]] # seen[a]
  <2>1. pc' = pc /\ seen' = [seen EXCEPT ![a] = hand[tgt[a]]] /\ UNCHANGED hand
    BY <1>7 DEF SetContinuation
  <2> QED
    BY <1>1, <1>2, <1>4, <1>5, <1>7, <2>1 DEF SetContinuationMove
<1>8. CASE seen[a].cont = NoTask /\ hand[tgt[a]] = seen[a]
  <2>1. /\ pc' = [pc EXCEPT ![a] = IF seen[a].rdy THEN "awresume" ELSE "awaiting"]
        /\ hand' = [hand EXCEPT ![tgt[a]] = [rdy |-> seen[a].rdy, cont |-> a]]
        /\ UNCHANGED seen
    BY <1>8 DEF SetContinuation, Goto
  <2>2. pc'[a] = IF seen[a].rdy THEN "awresume" ELSE "awaiting"
    BY <1>3, <2>1
  <2> QED
    BY <1>1, <1>2, <1>4, <1>5, <1>8, <2>1, <2>2 DEF SetContinuationMove
<1> QED
  BY <1>6, <1>7, <1>8

\* What final_awaiter does at its own handoff word.
SetReadyMove(a) ==
  /\ a \in Tasks /\ pc[a] = "fincas"
  /\ OnlyMoves(a) /\ pc'[a] \in {"fincas", "fingetcont", "finstore"}
  /\ \A b \in Actors : b # a => tgt'[b] = tgt[b]
  /\ \A u \in Tasks : (u # a => seen'[u] = seen[u]) /\ hand'[u].cont = hand[u].cont
  /\ UNCHANGED <<leaving, result, started, finalReached, run, queued, yields>>

\* set_ready() does that.
LEMMA SetReadyMoves ==
  ASSUME TypeOK, NEW a \in Actors, SetReady(a)
  PROVE  SetReadyMove(a)
<1>1. a \in Tasks /\ pc[a] = "fincas"
  BY NamesAssumption DEF SetReady, At, TypeOK, ThreadPcs, Actors
<1>2. /\ pc \in [Actors -> TaskPcs \union ThreadPcs]
      /\ tgt \in [Actors -> Tasks \union {NoTask}]
      /\ seen \in [Tasks -> HandWords] /\ hand \in [Tasks -> HandWords]
  BY DEF TypeOK
<1>3. OnlyMoves(a) /\ \A b \in Actors : b # a => tgt'[b] = tgt[b]
  BY <1>2 DEF SetReady, Goto, OnlyMoves
<1>4. pc'[a] \in {"fincas", "fingetcont", "finstore"}
  BY <1>1, <1>2 DEF SetReady, Goto
<1>5. \A u \in Tasks : u # a => seen'[u] = seen[u]
  BY <1>2 DEF SetReady
<1>6. \A u \in Tasks : hand'[u].cont = hand[u].cont
  <2>1. \/ hand' = hand
        \/ hand' = [hand EXCEPT ![a] = [rdy |-> TRUE, cont |-> hand[a].cont]]
    BY DEF SetReady
  <2> QED
    BY <1>2, <2>1
<1>7. UNCHANGED <<leaving, result, started, finalReached, run, queued, yields>>
  BY DEF SetReady
<1> QED
  BY <1>1, <1>3, <1>4, <1>5, <1>6, <1>7 DEF SetReadyMove

\* The last step of final_awaiter, and the continuation that it may go on with.
PublishFinalMove(a) ==
  /\ a \in Tasks /\ pc[a] = "finstore"
  /\ UNCHANGED <<tgt, seen, leaving, result, started, hand, queued, yields>>
  /\ \A b \in Actors : b # a /\ b # tgt[a] => pc'[b] = pc[b]
  /\ pc'[a] = "final"
  /\ tgt[a] # NoTask => /\ tgt[a] \in Tasks /\ tgt[a] # a
                        /\ pc[tgt[a]] = "awaiting" /\ pc'[tgt[a]] = "awresume"
                        /\ tgt[tgt[a]] = a

\* The end of final_awaiter does that.
LEMMA PublishFinalMoves ==
  ASSUME TypeOK, HandInv, NEW a \in Actors, PublishFinal(a)
  PROVE  PublishFinalMove(a)
<1>1. a \in Tasks /\ pc[a] = "finstore"
  BY NamesAssumption DEF PublishFinal, At, TypeOK, ThreadPcs, Actors
<1>2. pc' = [b \in Actors |-> IF b = a THEN "final"
                              ELSE IF b = tgt[a] THEN ResumePoint(b) ELSE pc[b]]
  BY DEF PublishFinal
<1>3. ASSUME tgt[a] # NoTask
      PROVE  /\ tgt[a] \in Tasks /\ tgt[a] # a /\ tgt[tgt[a]] = a
             /\ pc[tgt[a]] = "awaiting"
  BY <1>1, <1>3 DEF HandInv, AwaitedBySuspendedOwner
<1>4. ASSUME tgt[a] # NoTask PROVE pc'[tgt[a]] = "awresume"
  <2>1. tgt[a] \in Actors
    BY <1>3, <1>4 DEF Actors
  <2> QED
    BY <1>2, <1>3, <1>4, <2>1 DEF ResumePoint
<1>5. \A b \in Actors : b # a /\ b # tgt[a] => pc'[b] = pc[b]
  BY <1>2
<1>6. pc'[a] = "final"
  BY <1>2
<1>7. UNCHANGED <<tgt, seen, leaving, result, started, hand, queued, yields>>
  BY DEF PublishFinal
<1> QED
  BY <1>1, <1>3, <1>4, <1>5, <1>6, <1>7 DEF PublishFinalMove

\* Every operation of the library keeps the shape of the state.
LEMMA TypeStep ==
  ASSUME TypeOK, OpsInv, Next
  PROVE  TypeOK'
<1> USE NamesAssumption, OwnerAssumption, MaxYieldsAssumption
    DEF TypeOK, OpsInv, Actors, TaskPcs, ThreadPcs, OnCpuPcs, OpPcs, FinalPcs,
        SuspendedPcs
<1>1. ASSUME NEW a \in Actors, NEW t \in Tasks, Create(a, t) PROVE TypeOK'
  BY <1>1 DEF Create, InScope, At, Executing, Goto
<1>2. ASSUME NEW a \in Actors, NEW t \in Tasks, Start(a, t) PROVE TypeOK'
  BY <1>2 DEF Start, InScope, At, Executing, Holds, Live, StartTask
<1>3. ASSUME NEW a \in Actors, NEW t \in Tasks, CoAwait(a, t) PROVE TypeOK'
  <2>1. /\ pc' \in [Actors -> TaskPcs \union ThreadPcs]
        /\ \A m \in Threads : pc'[m] \in ThreadPcs
        /\ \A u \in Tasks : pc'[u] \in TaskPcs
    BY <1>3 DEF CoAwait, Goto
  <2>2. started' \in [Tasks -> BOOLEAN] /\ queued' \in [Tasks -> Nat]
    <3>1. CASE Ready(t)
      BY <1>3, <3>1 DEF CoAwait
    <3>2. CASE ~Ready(t)
      <4>1. StartTask(t)
        BY <1>3, <3>2 DEF CoAwait
      <4> QED
        BY <4>1 DEF StartTask
    <3> QED
      BY <3>1, <3>2
  <2>3. tgt' \in [Actors -> Tasks \union {NoTask}]
    BY <1>3 DEF CoAwait
  <2> QED
    BY <1>3, <2>1, <2>2, <2>3 DEF CoAwait
<1>4. ASSUME NEW a \in Actors, NEW t \in Tasks, Get(a, t) PROVE TypeOK'
  BY <1>4 DEF Get, InScope, At, Executing, Holds, Live, Goto, StartTask
<1>5. ASSUME NEW a \in Actors, NEW t \in Tasks, Drop(a, t) PROVE TypeOK'
  <2>1. /\ pc' \in [Actors -> TaskPcs \union ThreadPcs]
        /\ \A m \in Threads : pc'[m] \in ThreadPcs
        /\ \A u \in Tasks : pc'[u] \in TaskPcs
    BY <1>5 DEF Drop, At
  <2>2. tgt' \in [Actors -> Tasks \union {NoTask}]
    BY <1>5 DEF Drop
  <2> QED
    BY <1>5, <2>1, <2>2 DEF Drop
<1>6. ASSUME NEW a \in Actors, SetContinuationLoad(a) PROVE TypeOK'
  BY <1>6 DEF SetContinuationLoad, At, Executing, Goto
<1>7. ASSUME NEW a \in Actors, SetContinuation(a) PROVE TypeOK'
  <2>1. a \in Tasks /\ tgt[a] \in Tasks
    BY <1>7 DEF SetContinuation, At
  <2>2. /\ pc' \in [Actors -> TaskPcs \union ThreadPcs]
        /\ \A m \in Threads : pc'[m] \in ThreadPcs
        /\ \A u \in Tasks : pc'[u] \in TaskPcs
    BY <1>7, <2>1 DEF SetContinuation, Goto
  <2>3. run' \in [Workers -> Tasks \union {NoTask}]
    BY <1>7 DEF SetContinuation, SwitchTo
  <2>4. seen' \in [Tasks -> HandWords]
    BY <1>7, <2>1 DEF SetContinuation
  <2>5. hand' \in [Tasks -> HandWords]
    <3>1. [rdy |-> seen[a].rdy, cont |-> a] \in HandWords
      BY <2>1, HandWordMade, HandWordParts
    <3>2. \/ hand' = hand
          \/ hand' = [hand EXCEPT ![tgt[a]] = [rdy |-> seen[a].rdy, cont |-> a]]
      BY <1>7 DEF SetContinuation
    <3>3. hand \in [Tasks -> HandWords]
      OBVIOUS
    <3> HIDE DEF TypeOK, OpsInv
    <3> QED
      BY <2>1, <3>1, <3>2, <3>3
  <2> QED
    BY <1>7, <2>2, <2>3, <2>4, <2>5 DEF SetContinuation
<1>8. ASSUME NEW a \in Actors, AwaitResume(a) PROVE TypeOK'
  BY <1>8 DEF AwaitResume, At, Executing, Goto, Ready
<1>9. ASSUME NEW a \in Actors, GetReturn(a) PROVE TypeOK'
  BY <1>9 DEF GetReturn, At, Executing, Goto, Ready
<1>10. ASSUME NEW a \in Actors, DtorSpin(a) PROVE TypeOK'
  <2>1. tgt[a] \in Tasks
    BY <1>10 DEF DtorSpin, At
  <2>2. /\ pc' \in [Actors -> TaskPcs \union ThreadPcs]
        /\ \A m \in Threads : pc'[m] \in ThreadPcs
        /\ \A u \in Tasks : pc'[u] \in TaskPcs
    BY <1>10, <2>1 DEF DtorSpin, At
  <2> QED
    BY <1>10, <2>2 DEF DtorSpin
<1>11. ASSUME NEW a \in Actors, Yield(a) PROVE TypeOK'
  BY <1>11 DEF Yield, InScope, At, Executing, Goto, SwitchTo, Schedule
<1>12. ASSUME NEW a \in Actors, Return(a) PROVE TypeOK'
  BY <1>12 DEF Return, InScope, At, Executing
<1>13. ASSUME NEW a \in Actors, Throw(a) PROVE TypeOK'
  BY <1>13 DEF Throw, InScope, At, Executing
<1>14. ASSUME NEW a \in Actors, FinalSuspend(a) PROVE TypeOK'
  BY <1>14 DEF FinalSuspend, At, Executing, Goto, LocalsDestroyed, Live
<1>15. ASSUME NEW a \in Actors, SetReadyLoad(a) PROVE TypeOK'
  BY <1>15 DEF SetReadyLoad, At, Executing, Goto
<1>16. ASSUME NEW a \in Actors, SetReady(a) PROVE TypeOK'
  <2>1. a \in Tasks
    BY <1>16 DEF SetReady, At
  <2>2. /\ pc' \in [Actors -> TaskPcs \union ThreadPcs]
        /\ \A m \in Threads : pc'[m] \in ThreadPcs
        /\ \A u \in Tasks : pc'[u] \in TaskPcs
    BY <1>16, <2>1 DEF SetReady, Goto
  <2>3. tgt' \in [Actors -> Tasks \union {NoTask}]
    BY <1>16, <2>1 DEF SetReady
  <2>4. seen' \in [Tasks -> HandWords]
    BY <1>16, <2>1 DEF SetReady
  <2>5. hand' \in [Tasks -> HandWords]
    <3>1. [rdy |-> TRUE, cont |-> seen[a].cont] \in HandWords
      <4>1. seen[a] \in HandWords
        BY <2>1
      <4>2. seen[a].cont \in Tasks \union {NoTask}
        BY <4>1, HandWordParts
      <4> QED
        BY <4>2, HandWordMade
    <3>2. \/ hand' = hand
          \/ hand' = [hand EXCEPT ![a] = [rdy |-> TRUE, cont |-> seen[a].cont]]
      BY <1>16 DEF SetReady
    <3>3. hand \in [Tasks -> HandWords]
      OBVIOUS
    <3> HIDE DEF TypeOK, OpsInv
    <3> QED
      BY <2>1, <3>1, <3>2, <3>3
  <2> QED
    BY <1>16, <2>2, <2>3, <2>4, <2>5 DEF SetReady
<1>17. ASSUME NEW a \in Actors, GetContinuation(a) PROVE TypeOK'
  <2>1. a \in Tasks
    BY <1>17 DEF GetContinuation, At
  <2>2. hand[a].cont \in Tasks \union {NoTask}
    BY <2>1, HandWordParts
  <2>3. tgt' \in [Actors -> Tasks \union {NoTask}]
    BY <1>17, <2>2 DEF GetContinuation
  <2>4. /\ pc' \in [Actors -> TaskPcs \union ThreadPcs]
        /\ \A m \in Threads : pc'[m] \in ThreadPcs
        /\ \A u \in Tasks : pc'[u] \in TaskPcs
    BY <1>17, <2>1 DEF GetContinuation, Goto
  <2> QED
    BY <1>17, <2>3, <2>4 DEF GetContinuation
<1>18. ASSUME NEW a \in Actors, PublishFinal(a) PROVE TypeOK'
  BY <1>18 DEF PublishFinal, At, Executing, SwitchTo, ResumePoint
<1>19. ASSUME NEW a \in Actors, ThreadExit(a) PROVE TypeOK'
  BY <1>19 DEF ThreadExit, Goto, LocalsDestroyed, Live
<1>20. ASSUME NEW w \in Workers, NEW t \in Tasks, Take(w, t) PROVE TypeOK'
  <2>1. /\ pc' \in [Actors -> TaskPcs \union ThreadPcs]
        /\ \A m \in Threads : pc'[m] \in ThreadPcs
        /\ \A u \in Tasks : pc'[u] \in TaskPcs
    BY <1>20 DEF Take, Goto, ResumePoint
  <2>2. queued' \in [Tasks -> Nat]
    BY <1>20 DEF Take
  <2>3. run' \in [Workers -> Tasks \union {NoTask}]
    BY <1>20 DEF Take
  <2> QED
    BY <1>20, <2>1, <2>2, <2>3 DEF Take
<1>21. CASE Terminated
  BY <1>21 DEF Terminated, vars
<1> HIDE DEF TypeOK, OpsInv, Actors, TaskPcs, ThreadPcs, OnCpuPcs, OpPcs, FinalPcs,
    SuspendedPcs
<1> QED
  BY <1>1, <1>2, <1>3, <1>4, <1>5, <1>6, <1>7, <1>8, <1>9, <1>10, <1>11, <1>12, <1>13,
     <1>14, <1>15, <1>16, <1>17, <1>18, <1>19, <1>20, <1>21 DEF Next, Step, Leave

\* A worker gets a coroutine from the queue, or by transfer from the one it was
\* executing; in both cases it was suspended.
LEMMA WorkersInvStep ==
  ASSUME TypeOK, TypeOK', WorkersInv, QueueInv, StartedInv, OpsInv, HandInv, FinalInv, Next
  PROVE  WorkersInv'
<1>3. ASSUME NEW a \in Actors, NEW t \in Tasks, CoAwait(a, t) PROVE WorkersInv'
  <2>1. CoAwaitMove(a, t)
    BY <1>3, CoAwaitMoves
  <2>2. /\ run' = run /\ OnlyMoves(a) /\ pc'[a] \in {"awload", "awresume"}
    BY <2>1 DEF CoAwaitMove
  <2>3. \A w \in Workers : run[w] # NoTask => run[w] \in Actors
    BY DEF TypeOK, Actors
  <2> QED
    BY <2>2, <2>3 DEF WorkersInv, OnlyMoves, OnCpuPcs, OpPcs
<1>10. ASSUME NEW a \in Actors, DtorSpin(a) PROVE WorkersInv'
  <2>1. /\ tgt[a] \in Tasks /\ finalReached[tgt[a]] /\ pc[a] = "dtor"
        /\ pc' = [pc EXCEPT ![tgt[a]] = "destroyed", ![a] = "body"] /\ run' = run
    BY <1>10 DEF DtorSpin, At, OpsInv, OpPcs
  <2>2. pc[tgt[a]] \in {"final", "destroyed"}
    BY <2>1 DEF FinalInv
  <2>3. \A w \in Workers : run[w] # NoTask => run[w] \in Actors /\ run[w] # tgt[a]
    BY <2>2 DEF TypeOK, Actors, WorkersInv, OnCpuPcs, OpPcs, FinalPcs
  <2>4. pc \in [Actors -> TaskPcs \union ThreadPcs] /\ tgt[a] \in Actors /\ tgt[a] # a
    BY <2>1, <2>2 DEF TypeOK, Actors
  <2>5. pc'[a] = "body" /\ \A b \in Actors : b # tgt[a] /\ b # a => pc'[b] = pc[b]
    BY <2>1, <2>4
  <2> QED
    BY <2>1, <2>3, <2>5 DEF WorkersInv, OnCpuPcs
<1> USE NamesAssumption, OwnerAssumption, MaxYieldsAssumption
    DEF TypeOK, WorkersInv, QueueInv, StartedInv, OpsInv, HandInv, FinalInv,
        AwaitedBySuspendedOwner, Live, Ready, Transferring, Actors, OnCpuPcs, OpPcs,
        FinalPcs, TaskPcs, ThreadPcs, SuspendedPcs, HandWords
<1>1. ASSUME NEW a \in Actors, NEW t \in Tasks, Create(a, t) PROVE WorkersInv'
  BY <1>1 DEF Create, InScope, At, Executing, Goto
<1>2. ASSUME NEW a \in Actors, NEW t \in Tasks, Start(a, t) PROVE WorkersInv'
  BY <1>2 DEF Start, InScope, At, Executing, Holds, Live, StartTask
<1>4. ASSUME NEW a \in Actors, NEW t \in Tasks, Get(a, t) PROVE WorkersInv'
  BY <1>4 DEF Get, InScope, At, Executing, Holds, Live, Goto, StartTask
<1>5. ASSUME NEW a \in Actors, NEW t \in Tasks, Drop(a, t) PROVE WorkersInv'
  <2>1. CASE started[t]
    BY <1>5, <2>1 DEF Drop, Holds, Live, At, Executing
  <2>2. CASE ~started[t]
    BY <1>5, <2>2 DEF Drop, Holds, Live, At, Executing
  <2> QED
    BY <2>1, <2>2
<1>6. ASSUME NEW a \in Actors, SetContinuationLoad(a) PROVE WorkersInv'
  BY <1>6 DEF SetContinuationLoad, At, Executing, Goto
<1>7. ASSUME NEW a \in Actors, SetContinuation(a) PROVE WorkersInv'
  <2>1. \/ /\ run' = run
           /\ pc' = pc \/ pc' = [pc EXCEPT ![a] = "awresume"]
        \/ /\ SwitchTo(a, NoTask)
           /\ \A u \in Tasks : u # a => pc'[u] = pc[u]
    BY <1>7 DEF SetContinuation, Goto
  <2>2. CASE run' = run /\ (pc' = pc \/ pc' = [pc EXCEPT ![a] = "awresume"])
    BY <2>2
  <2>3. CASE SwitchTo(a, NoTask) /\ \A u \in Tasks : u # a => pc'[u] = pc[u]
    <3>1. \A v \in Workers : run'[v] # NoTask => run'[v] = run[v] /\ run[v] # a
      BY <2>3 DEF SwitchTo
    <3> QED
      BY <2>3, <3>1
  <2> QED
    BY <2>1, <2>2, <2>3
<1>8. ASSUME NEW a \in Actors, AwaitResume(a) PROVE WorkersInv'
  BY <1>8 DEF AwaitResume, At, Executing, Goto, Ready
<1>9. ASSUME NEW a \in Actors, GetReturn(a) PROVE WorkersInv'
  BY <1>9 DEF GetReturn, At, Executing, Goto, Ready
<1>11. ASSUME NEW a \in Actors, Yield(a) PROVE WorkersInv'
  BY <1>11 DEF Yield, InScope, At, Executing, Goto, SwitchTo, Schedule
<1>12. ASSUME NEW a \in Actors, Return(a) PROVE WorkersInv'
  BY <1>12 DEF Return, InScope, At, Executing
<1>13. ASSUME NEW a \in Actors, Throw(a) PROVE WorkersInv'
  BY <1>13 DEF Throw, InScope, At, Executing
<1>14. ASSUME NEW a \in Actors, FinalSuspend(a) PROVE WorkersInv'
  BY <1>14 DEF FinalSuspend, At, Executing, Goto, LocalsDestroyed, Live
<1>15. ASSUME NEW a \in Actors, SetReadyLoad(a) PROVE WorkersInv'
  BY <1>15 DEF SetReadyLoad, At, Executing, Goto
<1>16. ASSUME NEW a \in Actors, SetReady(a) PROVE WorkersInv'
  <2>1. CASE seen[a].rdy
    BY <1>16, <2>1 DEF SetReady, At, Executing, Goto
  <2>2. CASE ~seen[a].rdy /\ hand[a] # seen[a]
    BY <1>16, <2>2 DEF SetReady, At, Executing, Goto
  <2>3. CASE ~seen[a].rdy /\ hand[a] = seen[a] /\ seen[a].cont # NoTask
    <3>1. pc' = [pc EXCEPT ![a] = "fingetcont"] /\ run' = run
      BY <1>16, <2>3 DEF SetReady, Goto
    <3> QED
      BY <3>1
  <2>4. CASE ~seen[a].rdy /\ hand[a] = seen[a] /\ seen[a].cont = NoTask
    BY <1>16, <2>4 DEF SetReady, At, Executing, Goto
  <2> QED
    BY <2>1, <2>2, <2>3, <2>4
<1>17. ASSUME NEW a \in Actors, GetContinuation(a) PROVE WorkersInv'
  BY <1>17 DEF GetContinuation, At, Executing, Goto
<1>18. ASSUME NEW a \in Actors, PublishFinal(a) PROVE WorkersInv'
  <2>1. a \in Tasks
    BY <1>18 DEF PublishFinal, At
  <2>2. run' = [w \in Workers |-> IF run[w] = a THEN tgt[a] ELSE run[w]]
    BY <1>18 DEF PublishFinal, SwitchTo
  <2>3. \A b \in Actors \ {a, tgt[a]} : pc'[b] = pc[b]
    BY <1>18 DEF PublishFinal
  <2>4. CASE tgt[a] = NoTask
    <3>1. \A v \in Workers : run'[v] # NoTask => run'[v] = run[v] /\ run[v] # a
      BY <2>1, <2>2, <2>4
    <3>2. \A v \in Workers : run'[v] # NoTask => pc'[run'[v]] \in OnCpuPcs
      BY <3>1, <2>3, <2>4
    <3> QED
      BY <3>1, <3>2
  <2>5. CASE tgt[a] # NoTask
    <3>1. tgt[a] \in Tasks /\ pc[tgt[a]] = "awaiting" /\ tgt[a] # a
      BY <1>18, <2>1, <2>5 DEF PublishFinal, At
    <3>2. \A v \in Workers : run[v] # tgt[a]
      <4> SUFFICES ASSUME NEW v \in Workers, run[v] = tgt[a] PROVE FALSE
        OBVIOUS
      <4>1. run[v] # NoTask
        BY <3>1
      <4>2. pc[run[v]] \in OnCpuPcs
        BY <4>1
      <4> QED
        BY <3>1, <4>2
    <3>3. pc'[tgt[a]] = "awresume"
      BY <1>18, <3>1 DEF PublishFinal, ResumePoint
    <3>4. \A v \in Workers : run'[v] # NoTask => pc'[run'[v]] \in OnCpuPcs
      <4> SUFFICES ASSUME NEW v \in Workers, run'[v] # NoTask
                   PROVE  pc'[run'[v]] \in OnCpuPcs
        OBVIOUS
      <4>1. CASE run[v] = a
        BY <2>2, <3>3, <4>1
      <4>2. CASE run[v] # a
        <5>1. run'[v] = run[v] /\ run[v] # tgt[a] /\ run[v] \in Actors
          BY <2>2, <3>2, <4>2
        <5> QED
          BY <2>3, <4>2, <5>1
      <4> QED
        BY <4>1, <4>2
    <3>5. \A u, v \in Workers : run'[u] = run'[v] /\ run'[u] # NoTask => u = v
      BY <2>2, <3>2
    <3> QED
      BY <3>4, <3>5
  <2> QED
    BY <2>4, <2>5
<1>19. ASSUME NEW a \in Actors, ThreadExit(a) PROVE WorkersInv'
  BY <1>19 DEF ThreadExit, Goto, LocalsDestroyed, Live
<1>20. ASSUME NEW w \in Workers, NEW t \in Tasks, Take(w, t) PROVE WorkersInv'
  <2>1. CASE pc[t] = "final"
    BY <1>20, <2>1 DEF Take
  <2>2. CASE pc[t] # "final"
    <3>1. pc[t] \in {"initial", "yielded"}
      BY <1>20 DEF Take
    <3>2. \A v \in Workers : run[v] # t
      <4> SUFFICES ASSUME NEW v \in Workers, run[v] = t PROVE FALSE
        OBVIOUS
      <4>1. t # NoTask /\ pc[t] \in OnCpuPcs
        OBVIOUS
      <4> QED
        BY <3>1, <4>1
    <3>3. /\ run' = [run EXCEPT ![w] = t]
          /\ pc' = [pc EXCEPT ![t] = "body"]
      BY <1>20, <2>2, <3>1 DEF Take, Goto, ResumePoint
    <3>4. \A v \in Workers : run'[v] # NoTask => pc'[run'[v]] \in OnCpuPcs
      BY <3>2, <3>3
    <3>5. \A u, v \in Workers : run'[u] = run'[v] /\ run'[u] # NoTask => u = v
      BY <3>2, <3>3
    <3> QED
      BY <3>4, <3>5
  <2> QED
    BY <2>1, <2>2
<1>21. CASE Terminated
  BY <1>21 DEF Terminated, vars
<1> HIDE DEF TypeOK, WorkersInv, QueueInv, StartedInv, OpsInv, HandInv, FinalInv,
    AwaitedBySuspendedOwner, Live, Ready, Transferring, Actors, OnCpuPcs, OpPcs, FinalPcs,
    TaskPcs, ThreadPcs, SuspendedPcs, HandWords
<1> QED
  BY <1>1, <1>2, <1>3, <1>4, <1>5, <1>6, <1>7, <1>8, <1>9, <1>10, <1>11, <1>12, <1>13,
     <1>14, <1>15, <1>16, <1>17, <1>18, <1>19, <1>20, <1>21 DEF Next, Step, Leave

\* A coroutine is scheduled when it is started and when it yields; it was in no
\* queue before.
LEMMA QueueInvStep ==
  ASSUME TypeOK, TypeOK', QueueInv, WorkersInv, StartedInv, OpsInv, HandInv, FinalInv, Next
  PROVE  QueueInv'
<1>16. ASSUME NEW a \in Actors, SetReady(a) PROVE QueueInv'
  <2>1. SetReadyMove(a)
    BY <1>16, SetReadyMoves
  <2>2. /\ a \in Tasks /\ pc[a] = "fincas" /\ UNCHANGED <<queued, started>>
        /\ \A u \in Tasks : u # a => pc'[u] = pc[u]
    BY <2>1 DEF SetReadyMove, OnlyMoves, Actors
  <2>3. queued[a] # 1
    BY <2>2 DEF QueueInv
  <2> QED
    BY <2>2, <2>3 DEF QueueInv
<1> USE NamesAssumption, OwnerAssumption, MaxYieldsAssumption
    DEF TypeOK, QueueInv, WorkersInv, StartedInv, OpsInv, HandInv, FinalInv,
        AwaitedBySuspendedOwner, Live, Ready, Transferring, Actors, OnCpuPcs, OpPcs,
        FinalPcs, TaskPcs, ThreadPcs, SuspendedPcs, HandWords
<1>1. ASSUME NEW a \in Actors, NEW t \in Tasks, Create(a, t) PROVE QueueInv'
  BY <1>1 DEF Create, InScope, At, Executing, Goto
<1>2. ASSUME NEW a \in Actors, NEW t \in Tasks, Start(a, t) PROVE QueueInv'
  BY <1>2 DEF Start, InScope, At, Executing, Holds, Live, StartTask
<1>3. ASSUME NEW a \in Actors, NEW t \in Tasks, CoAwait(a, t) PROVE QueueInv'
  <2>1. CASE Ready(t)
    BY <1>3, <2>1 DEF CoAwait, InScope, At, Executing, Holds, Live, Goto, StartTask, Ready
  <2>2. CASE ~Ready(t)
    BY <1>3, <2>2 DEF CoAwait, InScope, At, Executing, Holds, Live, Goto, StartTask, Ready
  <2> QED
    BY <2>1, <2>2
<1>4. ASSUME NEW a \in Actors, NEW t \in Tasks, Get(a, t) PROVE QueueInv'
  BY <1>4 DEF Get, InScope, At, Executing, Holds, Live, Goto, StartTask
<1>5. ASSUME NEW a \in Actors, NEW t \in Tasks, Drop(a, t) PROVE QueueInv'
  <2>1. CASE started[t]
    BY <1>5, <2>1 DEF Drop, Holds, Live, At, Executing
  <2>2. CASE ~started[t]
    BY <1>5, <2>2 DEF Drop, Holds, Live, At, Executing
  <2> QED
    BY <2>1, <2>2
<1>6. ASSUME NEW a \in Actors, SetContinuationLoad(a) PROVE QueueInv'
  BY <1>6 DEF SetContinuationLoad, At, Executing, Goto
<1>7. ASSUME NEW a \in Actors, SetContinuation(a) PROVE QueueInv'
  <2>1. a \in Tasks /\ queued' = queued /\ started' = started
    BY <1>7 DEF SetContinuation, At
  <2>2. \A u \in Tasks : u # a => pc'[u] = pc[u]
    BY <1>7 DEF SetContinuation, Goto
  <2>3. pc[a] = "awcas"
    BY <1>7 DEF SetContinuation, At
  <2> QED
    BY <2>1, <2>2, <2>3
<1>8. ASSUME NEW a \in Actors, AwaitResume(a) PROVE QueueInv'
  BY <1>8 DEF AwaitResume, At, Executing, Goto, Ready
<1>9. ASSUME NEW a \in Actors, GetReturn(a) PROVE QueueInv'
  BY <1>9 DEF GetReturn, At, Executing, Goto, Ready
<1>10. ASSUME NEW a \in Actors, DtorSpin(a) PROVE QueueInv'
  BY <1>10 DEF DtorSpin, At, Executing
<1>11. ASSUME NEW a \in Actors, Yield(a) PROVE QueueInv'
  BY <1>11 DEF Yield, InScope, At, Executing, Goto, SwitchTo, Schedule
<1>12. ASSUME NEW a \in Actors, Return(a) PROVE QueueInv'
  BY <1>12 DEF Return, InScope, At, Executing
<1>13. ASSUME NEW a \in Actors, Throw(a) PROVE QueueInv'
  BY <1>13 DEF Throw, InScope, At, Executing
<1>14. ASSUME NEW a \in Actors, FinalSuspend(a) PROVE QueueInv'
  BY <1>14 DEF FinalSuspend, At, Executing, Goto, LocalsDestroyed, Live
<1>15. ASSUME NEW a \in Actors, SetReadyLoad(a) PROVE QueueInv'
  BY <1>15 DEF SetReadyLoad, At, Executing, Goto
<1>17. ASSUME NEW a \in Actors, GetContinuation(a) PROVE QueueInv'
  BY <1>17 DEF GetContinuation, At, Executing, Goto
<1>18. ASSUME NEW a \in Actors, PublishFinal(a) PROVE QueueInv'
  BY <1>18 DEF PublishFinal, At, Executing, SwitchTo, ResumePoint
<1>19. ASSUME NEW a \in Actors, ThreadExit(a) PROVE QueueInv'
  BY <1>19 DEF ThreadExit, Goto, LocalsDestroyed, Live
<1>20. ASSUME NEW w \in Workers, NEW t \in Tasks, Take(w, t) PROVE QueueInv'
  <2>1. CASE pc[t] = "final"
    BY <1>20, <2>1 DEF Take, Goto, ResumePoint
  <2>2. CASE pc[t] # "final"
    BY <1>20, <2>2 DEF Take, Goto, ResumePoint
  <2> QED
    BY <2>1, <2>2
<1>21. CASE Terminated
  BY <1>21 DEF Terminated, vars
<1> HIDE DEF TypeOK, QueueInv, WorkersInv, StartedInv, OpsInv, HandInv, FinalInv,
    AwaitedBySuspendedOwner, Live, Ready, Transferring, Actors, OnCpuPcs, OpPcs, FinalPcs,
    TaskPcs, ThreadPcs, SuspendedPcs, HandWords
<1> QED
  BY <1>1, <1>2, <1>3, <1>4, <1>5, <1>6, <1>7, <1>8, <1>9, <1>10, <1>11, <1>12, <1>13,
     <1>14, <1>15, <1>16, <1>17, <1>18, <1>19, <1>20, <1>21 DEF Next, Step, Leave

\* Nothing runs without having been started.
LEMMA StartedInvStep ==
  ASSUME TypeOK, TypeOK', StartedInv, OpsInv, HandInv, QueueInv, Next
  PROVE  StartedInv'
<1>5. ASSUME NEW a \in Actors, NEW t \in Tasks, Drop(a, t) PROVE StartedInv'
  <2>1. CASE started[t]
    <3>1. pc[a] = "body" /\ pc' = [pc EXCEPT ![a] = "dtor"] /\ UNCHANGED started
      BY <1>5, <2>1 DEF Drop, At
    <3>2. OnlyMoves(a) /\ pc'[a] = "dtor"
      BY <3>1 DEF TypeOK, OnlyMoves
    <3> QED
      BY <3>1, <3>2 DEF StartedInv, OnlyMoves, Actors
  <2>2. CASE ~started[t]
    <3>1. pc' = [pc EXCEPT ![t] = "destroyed"] /\ UNCHANGED started
      BY <1>5, <2>2 DEF Drop
    <3>2. t \in Actors
      BY DEF Actors
    <3>3. OnlyMoves(t) /\ pc'[t] = "destroyed"
      BY <3>1, <3>2 DEF TypeOK, OnlyMoves
    <3> QED
      BY <3>1, <3>3 DEF StartedInv, OnlyMoves, Actors
  <2> QED
    BY <2>1, <2>2
<1>7. ASSUME NEW a \in Actors, SetContinuation(a) PROVE StartedInv'
  <2>1. SetContinuationMove(a)
    BY <1>7, SetContinuationMoves
  <2>2. /\ a \in Tasks /\ pc[a] = "awcas" /\ UNCHANGED started
        /\ \A u \in Tasks : u # a => pc'[u] = pc[u]
        /\ pc'[a] \in {"awcas", "awaiting", "awresume"}
    BY <2>1 DEF SetContinuationMove, OnlyMoves, Actors
  <2> QED
    BY <2>2 DEF StartedInv
<1> USE NamesAssumption, OwnerAssumption, MaxYieldsAssumption
    DEF TypeOK, StartedInv, OpsInv, HandInv, QueueInv, AwaitedBySuspendedOwner, Live,
        Ready, Transferring, Actors, OnCpuPcs, OpPcs, FinalPcs, TaskPcs, ThreadPcs,
        SuspendedPcs, HandWords
<1>1. ASSUME NEW a \in Actors, NEW t \in Tasks, Create(a, t) PROVE StartedInv'
  BY <1>1 DEF Create, InScope, At, Executing, Goto
<1>2. ASSUME NEW a \in Actors, NEW t \in Tasks, Start(a, t) PROVE StartedInv'
  BY <1>2 DEF Start, InScope, At, Executing, Holds, Live, StartTask
<1>3. ASSUME NEW a \in Actors, NEW t \in Tasks, CoAwait(a, t) PROVE StartedInv'
  <2>1. CASE Ready(t)
    BY <1>3, <2>1 DEF CoAwait, InScope, At, Executing, Holds, Live, Goto, StartTask, Ready
  <2>2. CASE ~Ready(t)
    BY <1>3, <2>2 DEF CoAwait, InScope, At, Executing, Holds, Live, Goto, StartTask, Ready
  <2> QED
    BY <2>1, <2>2
<1>4. ASSUME NEW a \in Actors, NEW t \in Tasks, Get(a, t) PROVE StartedInv'
  BY <1>4 DEF Get, InScope, At, Executing, Holds, Live, Goto, StartTask
<1>6. ASSUME NEW a \in Actors, SetContinuationLoad(a) PROVE StartedInv'
  BY <1>6 DEF SetContinuationLoad, At, Executing, Goto
<1>8. ASSUME NEW a \in Actors, AwaitResume(a) PROVE StartedInv'
  BY <1>8 DEF AwaitResume, At, Executing, Goto, Ready
<1>9. ASSUME NEW a \in Actors, GetReturn(a) PROVE StartedInv'
  BY <1>9 DEF GetReturn, At, Executing, Goto, Ready
<1>10. ASSUME NEW a \in Actors, DtorSpin(a) PROVE StartedInv'
  BY <1>10 DEF DtorSpin, At, Executing
<1>11. ASSUME NEW a \in Actors, Yield(a) PROVE StartedInv'
  BY <1>11 DEF Yield, InScope, At, Executing, Goto, SwitchTo, Schedule
<1>12. ASSUME NEW a \in Actors, Return(a) PROVE StartedInv'
  BY <1>12 DEF Return, InScope, At, Executing
<1>13. ASSUME NEW a \in Actors, Throw(a) PROVE StartedInv'
  BY <1>13 DEF Throw, InScope, At, Executing
<1>14. ASSUME NEW a \in Actors, FinalSuspend(a) PROVE StartedInv'
  BY <1>14 DEF FinalSuspend, At, Executing, Goto, LocalsDestroyed, Live
<1>15. ASSUME NEW a \in Actors, SetReadyLoad(a) PROVE StartedInv'
  BY <1>15 DEF SetReadyLoad, At, Executing, Goto
<1>16. ASSUME NEW a \in Actors, SetReady(a) PROVE StartedInv'
  <2>1. CASE seen[a].rdy
    BY <1>16, <2>1 DEF SetReady, At, Executing, Goto
  <2>2. CASE ~seen[a].rdy /\ hand[a] # seen[a]
    BY <1>16, <2>2 DEF SetReady, At, Executing, Goto
  <2>3. CASE ~seen[a].rdy /\ hand[a] = seen[a] /\ seen[a].cont # NoTask
    BY <1>16, <2>3 DEF SetReady, At, Executing, Goto
  <2>4. CASE ~seen[a].rdy /\ hand[a] = seen[a] /\ seen[a].cont = NoTask
    BY <1>16, <2>4 DEF SetReady, At, Executing, Goto
  <2> QED
    BY <2>1, <2>2, <2>3, <2>4
<1>17. ASSUME NEW a \in Actors, GetContinuation(a) PROVE StartedInv'
  BY <1>17 DEF GetContinuation, At, Executing, Goto
<1>18. ASSUME NEW a \in Actors, PublishFinal(a) PROVE StartedInv'
  BY <1>18 DEF PublishFinal, At, Executing, SwitchTo, ResumePoint
<1>19. ASSUME NEW a \in Actors, ThreadExit(a) PROVE StartedInv'
  BY <1>19 DEF ThreadExit, Goto, LocalsDestroyed, Live
<1>20. ASSUME NEW w \in Workers, NEW t \in Tasks, Take(w, t) PROVE StartedInv'
  <2>1. CASE pc[t] = "final"
    BY <1>20, <2>1 DEF Take, Goto, ResumePoint
  <2>2. CASE pc[t] # "final"
    BY <1>20, <2>2 DEF Take, Goto, ResumePoint
  <2> QED
    BY <2>1, <2>2
<1>21. CASE Terminated
  BY <1>21 DEF Terminated, vars
<1> HIDE DEF TypeOK, StartedInv, OpsInv, HandInv, QueueInv, AwaitedBySuspendedOwner, Live,
    Ready, Transferring, Actors, OnCpuPcs, OpPcs, FinalPcs, TaskPcs, ThreadPcs,
    SuspendedPcs, HandWords
<1> QED
  BY <1>1, <1>2, <1>3, <1>4, <1>5, <1>6, <1>7, <1>8, <1>9, <1>10, <1>11, <1>12, <1>13,
     <1>14, <1>15, <1>16, <1>17, <1>18, <1>19, <1>20, <1>21 DEF Next, Step, Leave

\* co_return stores the result before anything else of the body ends.
LEMMA ResultInvStep ==
  ASSUME TypeOK, TypeOK', ResultInv, StartedInv, Next
  PROVE  ResultInv'
<1> USE NamesAssumption, OwnerAssumption, MaxYieldsAssumption
    DEF TypeOK, ResultInv, StartedInv, Ready, Actors, OnCpuPcs,
        OpPcs, FinalPcs, TaskPcs, ThreadPcs, SuspendedPcs, HandWords
<1>1. ASSUME NEW a \in Actors, NEW t \in Tasks, Create(a, t) PROVE ResultInv'
  BY <1>1 DEF Create, InScope, At, Executing, Goto
<1>2. ASSUME NEW a \in Actors, NEW t \in Tasks, Start(a, t) PROVE ResultInv'
  BY <1>2 DEF Start, InScope, At, Executing, Holds, Live, StartTask
<1>3. ASSUME NEW a \in Actors, NEW t \in Tasks, CoAwait(a, t) PROVE ResultInv'
  <2>1. CASE Ready(t)
    BY <1>3, <2>1 DEF CoAwait, InScope, At, Executing, Holds, Live, Goto, StartTask, Ready
  <2>2. CASE ~Ready(t)
    BY <1>3, <2>2 DEF CoAwait, InScope, At, Executing, Holds, Live, Goto, StartTask, Ready
  <2> QED
    BY <2>1, <2>2
<1>4. ASSUME NEW a \in Actors, NEW t \in Tasks, Get(a, t) PROVE ResultInv'
  BY <1>4 DEF Get, InScope, At, Executing, Holds, Live, Goto, StartTask
<1>5. ASSUME NEW a \in Actors, NEW t \in Tasks, Drop(a, t) PROVE ResultInv'
  <2>1. CASE started[t]
    BY <1>5, <2>1 DEF Drop, Holds, Live, At, Executing
  <2>2. CASE ~started[t]
    BY <1>5, <2>2 DEF Drop, Holds, Live, At, Executing
  <2> QED
    BY <2>1, <2>2
<1>6. ASSUME NEW a \in Actors, SetContinuationLoad(a) PROVE ResultInv'
  BY <1>6 DEF SetContinuationLoad, At, Executing, Goto
<1>7. ASSUME NEW a \in Actors, SetContinuation(a) PROVE ResultInv'
  <2>1. CASE seen[a].cont # NoTask
    BY <1>7, <2>1 DEF SetContinuation, At, Executing, Goto, SwitchTo
  <2>2. CASE seen[a].cont = NoTask /\ hand[tgt[a]] # seen[a]
    BY <1>7, <2>2 DEF SetContinuation, At, Executing, Goto, SwitchTo
  <2>3. CASE seen[a].cont = NoTask /\ hand[tgt[a]] = seen[a] /\ seen[a].rdy
    BY <1>7, <2>3 DEF SetContinuation, At, Executing, Goto, SwitchTo
  <2>4. CASE seen[a].cont = NoTask /\ hand[tgt[a]] = seen[a] /\ ~seen[a].rdy
    BY <1>7, <2>4 DEF SetContinuation, At, Executing, Goto, SwitchTo
  <2> QED
    BY <2>1, <2>2, <2>3, <2>4
<1>8. ASSUME NEW a \in Actors, AwaitResume(a) PROVE ResultInv'
  BY <1>8 DEF AwaitResume, At, Executing, Goto, Ready
<1>9. ASSUME NEW a \in Actors, GetReturn(a) PROVE ResultInv'
  BY <1>9 DEF GetReturn, At, Executing, Goto, Ready
<1>10. ASSUME NEW a \in Actors, DtorSpin(a) PROVE ResultInv'
  BY <1>10 DEF DtorSpin, At, Executing
<1>11. ASSUME NEW a \in Actors, Yield(a) PROVE ResultInv'
  BY <1>11 DEF Yield, InScope, At, Executing, Goto, SwitchTo, Schedule
<1>12. ASSUME NEW a \in Actors, Return(a) PROVE ResultInv'
  BY <1>12 DEF Return, InScope, At, Executing
<1>13. ASSUME NEW a \in Actors, Throw(a) PROVE ResultInv'
  BY <1>13 DEF Throw, InScope, At, Executing
<1>14. ASSUME NEW a \in Actors, FinalSuspend(a) PROVE ResultInv'
  BY <1>14 DEF FinalSuspend, At, Executing, Goto, LocalsDestroyed, Live
<1>15. ASSUME NEW a \in Actors, SetReadyLoad(a) PROVE ResultInv'
  BY <1>15 DEF SetReadyLoad, At, Executing, Goto
<1>16. ASSUME NEW a \in Actors, SetReady(a) PROVE ResultInv'
  <2>1. CASE seen[a].rdy
    BY <1>16, <2>1 DEF SetReady, At, Executing, Goto
  <2>2. CASE ~seen[a].rdy /\ hand[a] # seen[a]
    BY <1>16, <2>2 DEF SetReady, At, Executing, Goto
  <2>3. CASE ~seen[a].rdy /\ hand[a] = seen[a] /\ seen[a].cont # NoTask
    BY <1>16, <2>3 DEF SetReady, At, Executing, Goto
  <2>4. CASE ~seen[a].rdy /\ hand[a] = seen[a] /\ seen[a].cont = NoTask
    BY <1>16, <2>4 DEF SetReady, At, Executing, Goto
  <2> QED
    BY <2>1, <2>2, <2>3, <2>4
<1>17. ASSUME NEW a \in Actors, GetContinuation(a) PROVE ResultInv'
  BY <1>17 DEF GetContinuation, At, Executing, Goto
<1>18. ASSUME NEW a \in Actors, PublishFinal(a) PROVE ResultInv'
  BY <1>18 DEF PublishFinal, At, Executing, SwitchTo, ResumePoint
<1>19. ASSUME NEW a \in Actors, ThreadExit(a) PROVE ResultInv'
  BY <1>19 DEF ThreadExit, Goto, LocalsDestroyed, Live
<1>20. ASSUME NEW w \in Workers, NEW t \in Tasks, Take(w, t) PROVE ResultInv'
  <2>1. CASE pc[t] = "final"
    BY <1>20, <2>1 DEF Take, Goto, ResumePoint
  <2>2. CASE pc[t] # "final"
    BY <1>20, <2>2 DEF Take, Goto, ResumePoint
  <2> QED
    BY <2>1, <2>2
<1>21. CASE Terminated
  BY <1>21 DEF Terminated, vars
<1> HIDE DEF TypeOK, ResultInv, StartedInv, Ready, Actors, OnCpuPcs, OpPcs, FinalPcs,
    TaskPcs, ThreadPcs, SuspendedPcs, HandWords
<1> QED
  BY <1>1, <1>2, <1>3, <1>4, <1>5, <1>6, <1>7, <1>8, <1>9, <1>10, <1>11, <1>12, <1>13,
     <1>14, <1>15, <1>16, <1>17, <1>18, <1>19, <1>20, <1>21 DEF Next, Step, Leave

\* An operation begins on a held task and starts it; the task is not destroyed by
\* another while it lasts.
LEMMA OpsInvStep ==
  ASSUME TypeOK, TypeOK', OpsInv, ResultInv, StartedInv, QueueInv, HandInv, FinalInv,
         TreeInv, Next
  PROVE  OpsInv'
<1> USE NamesAssumption, OwnerAssumption, MaxYieldsAssumption
    DEF TypeOK, OpsInv, ResultInv, StartedInv, QueueInv, HandInv, FinalInv, TreeInv,
        AwaitedBySuspendedOwner, Live, Ready, Transferring, Actors, OnCpuPcs, OpPcs,
        FinalPcs, TaskPcs, ThreadPcs, SuspendedPcs, HandWords
<1>1. ASSUME NEW a \in Actors, NEW t \in Tasks, Create(a, t) PROVE OpsInv'
  BY <1>1 DEF Create, InScope, At, Executing, Goto
<1>2. ASSUME NEW a \in Actors, NEW t \in Tasks, Start(a, t) PROVE OpsInv'
  BY <1>2 DEF Start, InScope, At, Executing, Holds, Live, StartTask
<1>3. ASSUME NEW a \in Actors, NEW t \in Tasks, CoAwait(a, t) PROVE OpsInv'
  <2>1. t \in Tasks /\ Owner[t] = a /\ Live(t) /\ tgt' = [tgt EXCEPT ![a] = t]
    BY <1>3 DEF CoAwait, Holds
  <2>2. \A u \in Tasks : started[u] => started'[u]
    BY <1>3 DEF CoAwait, StartTask
  <2>3. started'[t]
    <3>1. CASE Ready(t)
      BY <1>3, <3>1 DEF CoAwait
    <3>2. CASE ~Ready(t)
      BY <1>3, <3>2 DEF CoAwait, StartTask
    <3> QED
      BY <3>1, <3>2
  <2>4. \A b \in Actors : b # a => pc'[b] = pc[b]
    BY <1>3 DEF CoAwait, Goto
  <2>5. pc[a] = "body" /\ pc'[a] \notin {"none", "destroyed"}
    BY <1>3 DEF CoAwait, InScope, At, Goto
  <2> QED
    BY <2>1, <2>2, <2>3, <2>4, <2>5
<1>4. ASSUME NEW a \in Actors, NEW t \in Tasks, Get(a, t) PROVE OpsInv'
  BY <1>4 DEF Get, InScope, At, Executing, Holds, Live, Goto, StartTask
<1>5. ASSUME NEW a \in Actors, NEW t \in Tasks, Drop(a, t) PROVE OpsInv'
  <2>1. CASE started[t]
    BY <1>5, <2>1 DEF Drop, Holds, Live, At, Executing
  <2>2. CASE ~started[t]
    BY <1>5, <2>2 DEF Drop, Holds, Live, At, Executing
  <2> QED
    BY <2>1, <2>2
<1>6. ASSUME NEW a \in Actors, SetContinuationLoad(a) PROVE OpsInv'
  BY <1>6 DEF SetContinuationLoad, At, Executing, Goto
<1>7. ASSUME NEW a \in Actors, SetContinuation(a) PROVE OpsInv'
  <2>1. CASE seen[a].cont # NoTask
    BY <1>7, <2>1 DEF SetContinuation, At, Executing, Goto, SwitchTo
  <2>2. CASE seen[a].cont = NoTask /\ hand[tgt[a]] # seen[a]
    BY <1>7, <2>2 DEF SetContinuation, At, Executing, Goto, SwitchTo
  <2>3. CASE seen[a].cont = NoTask /\ hand[tgt[a]] = seen[a] /\ seen[a].rdy
    BY <1>7, <2>3 DEF SetContinuation, At, Executing, Goto, SwitchTo
  <2>4. CASE seen[a].cont = NoTask /\ hand[tgt[a]] = seen[a] /\ ~seen[a].rdy
    BY <1>7, <2>4 DEF SetContinuation, At, Executing, Goto, SwitchTo
  <2> QED
    BY <2>1, <2>2, <2>3, <2>4
<1>8. ASSUME NEW a \in Actors, AwaitResume(a) PROVE OpsInv'
  BY <1>8 DEF AwaitResume, At, Executing, Goto, Ready
<1>9. ASSUME NEW a \in Actors, GetReturn(a) PROVE OpsInv'
  BY <1>9 DEF GetReturn, At, Executing, Goto, Ready
<1>10. ASSUME NEW a \in Actors, DtorSpin(a) PROVE OpsInv'
  BY <1>10 DEF DtorSpin, At, Executing
<1>11. ASSUME NEW a \in Actors, Yield(a) PROVE OpsInv'
  BY <1>11 DEF Yield, InScope, At, Executing, Goto, SwitchTo, Schedule
<1>12. ASSUME NEW a \in Actors, Return(a) PROVE OpsInv'
  BY <1>12 DEF Return, InScope, At, Executing
<1>13. ASSUME NEW a \in Actors, Throw(a) PROVE OpsInv'
  BY <1>13 DEF Throw, InScope, At, Executing
<1>14. ASSUME NEW a \in Actors, FinalSuspend(a) PROVE OpsInv'
  BY <1>14 DEF FinalSuspend, At, Executing, Goto, LocalsDestroyed, Live
<1>15. ASSUME NEW a \in Actors, SetReadyLoad(a) PROVE OpsInv'
  BY <1>15 DEF SetReadyLoad, At, Executing, Goto
<1>16. ASSUME NEW a \in Actors, SetReady(a) PROVE OpsInv'
  <2>1. CASE seen[a].rdy
    BY <1>16, <2>1 DEF SetReady, At, Executing, Goto
  <2>2. CASE ~seen[a].rdy /\ hand[a] # seen[a]
    BY <1>16, <2>2 DEF SetReady, At, Executing, Goto
  <2>3. CASE ~seen[a].rdy /\ hand[a] = seen[a] /\ seen[a].cont # NoTask
    BY <1>16, <2>3 DEF SetReady, At, Executing, Goto
  <2>4. CASE ~seen[a].rdy /\ hand[a] = seen[a] /\ seen[a].cont = NoTask
    BY <1>16, <2>4 DEF SetReady, At, Executing, Goto
  <2> QED
    BY <2>1, <2>2, <2>3, <2>4
<1>17. ASSUME NEW a \in Actors, GetContinuation(a) PROVE OpsInv'
  BY <1>17 DEF GetContinuation, At, Executing, Goto
<1>18. ASSUME NEW a \in Actors, PublishFinal(a) PROVE OpsInv'
  BY <1>18 DEF PublishFinal, At, Executing, SwitchTo, ResumePoint
<1>19. ASSUME NEW a \in Actors, ThreadExit(a) PROVE OpsInv'
  BY <1>19 DEF ThreadExit, Goto, LocalsDestroyed, Live
<1>20. ASSUME NEW w \in Workers, NEW t \in Tasks, Take(w, t) PROVE OpsInv'
  <2>1. CASE pc[t] = "final"
    BY <1>20, <2>1 DEF Take, Goto, ResumePoint
  <2>2. CASE pc[t] # "final"
    BY <1>20, <2>2 DEF Take, Goto, ResumePoint
  <2> QED
    BY <2>1, <2>2
<1>21. CASE Terminated
  BY <1>21 DEF Terminated, vars
<1> HIDE DEF TypeOK, OpsInv, ResultInv, StartedInv, QueueInv, HandInv, FinalInv, TreeInv,
    AwaitedBySuspendedOwner, Live, Ready, Transferring, Actors, OnCpuPcs, OpPcs, FinalPcs,
    TaskPcs, ThreadPcs, SuspendedPcs, HandWords
<1> QED
  BY <1>1, <1>2, <1>3, <1>4, <1>5, <1>6, <1>7, <1>8, <1>9, <1>10, <1>11, <1>12, <1>13,
     <1>14, <1>15, <1>16, <1>17, <1>18, <1>19, <1>20, <1>21 DEF Next, Step, Leave

\* Both ends of the handoff agree on who resumes the awaiting coroutine.
LEMMA HandInvStep ==
  ASSUME TypeOK, TypeOK', HandInv, ResultInv, StartedInv, OpsInv, QueueInv,
         FirstAwaiterInv, FinalInv, TreeInv, AwaiterInv, Next
  PROVE  HandInv'
<1>c. ASSUME NEW a \in Actors, SetContinuation(a),
             seen[a].cont # NoTask \/ hand[tgt[a]] # seen[a]
      PROVE  HandInv'
  <2>1. SetContinuationMove(a)
    BY <1>c, SetContinuationMoves
  <2>2. /\ a \in Tasks /\ pc[a] = "awcas" /\ pc'[a] \in {"awcas", "awaiting"}
        /\ \A b \in Actors : b # a => pc'[b] = pc[b]
        /\ UNCHANGED <<hand, tgt, result>>
    BY <1>c, <2>1 DEF SetContinuationMove, OnlyMoves
  <2>5. \A u \in Tasks : u # a => seen'[u] = seen[u]
    BY <1>c, <2>1 DEF SetContinuationMove, TypeOK
  <2>3. \A u \in Tasks : u \in Actors
    BY DEF Actors
  <2>4. \A c \in Tasks : AwaitedBySuspendedOwner(c) => AwaitedBySuspendedOwner(c)'
    BY <2>2, <2>3 DEF AwaitedBySuspendedOwner
  <2> QED
    BY <2>2, <2>3, <2>4, <2>5 DEF HandInv, FinalPcs, Ready
<1> USE NamesAssumption, OwnerAssumption, MaxYieldsAssumption
    DEF TypeOK, HandInv, ResultInv, StartedInv, OpsInv, QueueInv, FirstAwaiterInv,
        FinalInv, TreeInv, AwaiterInv, AwaitedBySuspendedOwner, Live, Ready, Transferring,
        Actors, OnCpuPcs, OpPcs, FinalPcs, TaskPcs, ThreadPcs, SuspendedPcs, HandWords
<1>1. ASSUME NEW a \in Actors, NEW t \in Tasks, Create(a, t) PROVE HandInv'
  BY <1>1 DEF Create, InScope, At, Executing, Goto
<1>2. ASSUME NEW a \in Actors, NEW t \in Tasks, Start(a, t) PROVE HandInv'
  BY <1>2 DEF Start, InScope, At, Executing, Holds, Live, StartTask
<1>3. ASSUME NEW a \in Actors, NEW t \in Tasks, CoAwait(a, t) PROVE HandInv'
  <2>1. CASE Ready(t)
    BY <1>3, <2>1 DEF CoAwait, InScope, At, Executing, Holds, Live, Goto, StartTask, Ready
  <2>2. CASE ~Ready(t)
    BY <1>3, <2>2 DEF CoAwait, InScope, At, Executing, Holds, Live, Goto, StartTask, Ready
  <2> QED
    BY <2>1, <2>2
<1>4. ASSUME NEW a \in Actors, NEW t \in Tasks, Get(a, t) PROVE HandInv'
  BY <1>4 DEF Get, InScope, At, Executing, Holds, Live, Goto, StartTask
<1>5. ASSUME NEW a \in Actors, NEW t \in Tasks, Drop(a, t) PROVE HandInv'
  <2>1. CASE started[t]
    BY <1>5, <2>1 DEF Drop, Holds, Live, At, Executing
  <2>2. CASE ~started[t]
    BY <1>5, <2>2 DEF Drop, Holds, Live, At, Executing
  <2> QED
    BY <2>1, <2>2
<1>6. ASSUME NEW a \in Actors, SetContinuationLoad(a) PROVE HandInv'
  BY <1>6 DEF SetContinuationLoad, At, Executing, Goto
<1>7. ASSUME NEW a \in Actors, SetContinuation(a),
             seen[a].cont = NoTask, hand[tgt[a]] = seen[a]
      PROVE  HandInv'
  <2>3. CASE seen[a].cont = NoTask /\ hand[tgt[a]] = seen[a] /\ seen[a].rdy
    BY <1>7, <2>3 DEF SetContinuation, At, Executing, Goto, SwitchTo
  <2>4. CASE seen[a].cont = NoTask /\ hand[tgt[a]] = seen[a] /\ ~seen[a].rdy
    BY <1>7, <2>4 DEF SetContinuation, At, Executing, Goto, SwitchTo
  <2> QED
    BY <1>7, <2>3, <2>4
<1>8. ASSUME NEW a \in Actors, AwaitResume(a) PROVE HandInv'
  BY <1>8 DEF AwaitResume, At, Executing, Goto, Ready
<1>9. ASSUME NEW a \in Actors, GetReturn(a) PROVE HandInv'
  BY <1>9 DEF GetReturn, At, Executing, Goto, Ready
<1>10. ASSUME NEW a \in Actors, DtorSpin(a) PROVE HandInv'
  BY <1>10 DEF DtorSpin, At, Executing
<1>11. ASSUME NEW a \in Actors, Yield(a) PROVE HandInv'
  BY <1>11 DEF Yield, InScope, At, Executing, Goto, SwitchTo, Schedule
<1>12. ASSUME NEW a \in Actors, Return(a) PROVE HandInv'
  BY <1>12 DEF Return, InScope, At, Executing
<1>13. ASSUME NEW a \in Actors, Throw(a) PROVE HandInv'
  BY <1>13 DEF Throw, InScope, At, Executing
<1>14. ASSUME NEW a \in Actors, FinalSuspend(a) PROVE HandInv'
  BY <1>14 DEF FinalSuspend, At, Executing, Goto, LocalsDestroyed, Live
<1>15. ASSUME NEW a \in Actors, SetReadyLoad(a) PROVE HandInv'
  BY <1>15 DEF SetReadyLoad, At, Executing, Goto
<1>16. ASSUME NEW a \in Actors, SetReady(a) PROVE HandInv'
  <2>1. CASE seen[a].rdy
    BY <1>16, <2>1 DEF SetReady, At, Executing, Goto
  <2>2. CASE ~seen[a].rdy /\ hand[a] # seen[a]
    <3>1. /\ seen' = [seen EXCEPT ![a] = hand[a]] /\ a \in Tasks /\ pc[a] = "fincas"
          /\ UNCHANGED <<pc, tgt, hand, result, started, finalReached, queued, run>>
      BY <1>16, <2>2 DEF SetReady, At, Executing
    <3>2. ~hand[a].rdy
      BY <3>1
    <3> QED
      BY <3>1, <3>2
  <2>3. CASE ~seen[a].rdy /\ hand[a] = seen[a] /\ seen[a].cont # NoTask
    BY <1>16, <2>3 DEF SetReady, At, Executing, Goto
  <2>4. CASE ~seen[a].rdy /\ hand[a] = seen[a] /\ seen[a].cont = NoTask
    BY <1>16, <2>4 DEF SetReady, At, Executing, Goto
  <2> QED
    BY <2>1, <2>2, <2>3, <2>4
<1>17. ASSUME NEW a \in Actors, GetContinuation(a) PROVE HandInv'
  BY <1>17 DEF GetContinuation, At, Executing, Goto
<1>18. ASSUME NEW a \in Actors, PublishFinal(a) PROVE HandInv'
  BY <1>18 DEF PublishFinal, At, Executing, SwitchTo, ResumePoint
<1>19. ASSUME NEW a \in Actors, ThreadExit(a) PROVE HandInv'
  BY <1>19 DEF ThreadExit, Goto, LocalsDestroyed, Live
<1>20. ASSUME NEW w \in Workers, NEW t \in Tasks, Take(w, t) PROVE HandInv'
  <2>1. CASE pc[t] = "final"
    BY <1>20, <2>1 DEF Take, Goto, ResumePoint
  <2>2. CASE pc[t] # "final"
    BY <1>20, <2>2 DEF Take, Goto, ResumePoint
  <2> QED
    BY <2>1, <2>2
<1>21. CASE Terminated
  BY <1>21 DEF Terminated, vars
<1> HIDE DEF TypeOK, HandInv, ResultInv, StartedInv, OpsInv, QueueInv, FirstAwaiterInv,
    FinalInv, TreeInv, AwaiterInv, AwaitedBySuspendedOwner, Live, Ready, Transferring,
    Actors, OnCpuPcs, OpPcs, FinalPcs, TaskPcs, ThreadPcs, SuspendedPcs, HandWords
<1> QED
  BY <1>1, <1>2, <1>3, <1>4, <1>5, <1>6, <1>7, <1>c, <1>8, <1>9, <1>10, <1>11, <1>12, <1>13,
     <1>14, <1>15, <1>16, <1>17, <1>18, <1>19, <1>20, <1>21 DEF Next, Step, Leave

\* A task that has no result yet was awaited by nobody.
LEMMA FirstAwaiterInvStep ==
  ASSUME TypeOK, TypeOK', FirstAwaiterInv, OpsInv, HandInv, QueueInv, Next
  PROVE  FirstAwaiterInv'
<1>7. ASSUME NEW a \in Actors, SetContinuation(a) PROVE FirstAwaiterInv'
  <2>1. SetContinuationMove(a)
    BY <1>7, SetContinuationMoves
  <2>2. /\ a \in Tasks /\ pc[a] = "awcas" /\ tgt[a] \in Tasks /\ tgt' = tgt
        /\ \A u \in Tasks : u # a => pc'[u] = pc[u]
    BY <2>1 DEF SetContinuationMove, OnlyMoves, Actors
  <2>3. /\ seen \in [Tasks -> HandWords] /\ hand \in [Tasks -> HandWords]
        /\ a \in Actors /\ \A u \in Tasks : u \in Actors
    BY DEF TypeOK, Actors
  <2>4. \A u \in Tasks : pc[u] \in {"awload", "awcas"} =>
          tgt[u] \in Tasks /\ Owner[tgt[u]] = u
    BY <2>3 DEF OpsInv, OpPcs
  <2>5. CASE pc'[a] = "awaiting" /\ UNCHANGED <<seen, hand>>
    BY <2>2, <2>5 DEF FirstAwaiterInv
  <2>6. CASE pc'[a] = "awcas" /\ seen' = [seen EXCEPT ![a] = hand[tgt[a]]] /\ UNCHANGED hand
    <3>1. hand[tgt[a]].cont = NoTask /\ seen'[a] = hand[tgt[a]]
          /\ \A u \in Tasks : u # a => seen'[u] = seen[u]
      BY <2>2, <2>3, <2>6 DEF FirstAwaiterInv
    <3> QED
      BY <2>2, <2>6, <3>1 DEF FirstAwaiterInv
  <2>7. CASE /\ pc'[a] \in {"awresume", "awaiting"} /\ UNCHANGED seen
             /\ hand' = [hand EXCEPT ![tgt[a]] = [rdy |-> seen[a].rdy, cont |-> a]]
    <3>1. \A c \in Tasks : c # tgt[a] => hand'[c] = hand[c]
      BY <2>3, <2>7
    <3>2. \A u \in Tasks : u # a /\ pc[u] \in {"awload", "awcas"} => tgt[u] # tgt[a]
      BY <2>2, <2>4
    <3> QED
      BY <2>2, <2>4, <2>7, <3>1, <3>2 DEF FirstAwaiterInv
  <2> QED
    BY <2>1, <2>5, <2>6, <2>7 DEF SetContinuationMove
<1>16. ASSUME NEW a \in Actors, SetReady(a) PROVE FirstAwaiterInv'
  <2>1. SetReadyMove(a)
    BY <1>16, SetReadyMoves
  <2>2. \A u \in Tasks : pc'[u] \in {"awload", "awcas"} =>
          u # a /\ pc[u] = pc'[u] /\ tgt'[u] = tgt[u] /\ seen'[u] = seen[u]
    BY <2>1 DEF SetReadyMove, OnlyMoves, Actors
  <2>3. \A u \in Tasks : pc[u] \in {"awload", "awcas"} => tgt[u] \in Tasks
    BY DEF OpsInv, OpPcs, Actors
  <2>4. \A c \in Tasks : hand'[c].cont = hand[c].cont
    BY <2>1 DEF SetReadyMove
  <2> QED
    BY <2>2, <2>3, <2>4 DEF FirstAwaiterInv
<1> USE NamesAssumption, OwnerAssumption, MaxYieldsAssumption
    DEF TypeOK, FirstAwaiterInv, OpsInv, HandInv, QueueInv, AwaitedBySuspendedOwner, Live,
        Ready, Transferring, Actors, OnCpuPcs, OpPcs, FinalPcs, TaskPcs, ThreadPcs,
        SuspendedPcs, HandWords
<1>1. ASSUME NEW a \in Actors, NEW t \in Tasks, Create(a, t)
      PROVE  FirstAwaiterInv'
  BY <1>1 DEF Create, InScope, At, Executing, Goto
<1>2. ASSUME NEW a \in Actors, NEW t \in Tasks, Start(a, t)
      PROVE  FirstAwaiterInv'
  BY <1>2 DEF Start, InScope, At, Executing, Holds, Live, StartTask
<1>3. ASSUME NEW a \in Actors, NEW t \in Tasks, CoAwait(a, t)
      PROVE  FirstAwaiterInv'
  <2>1. CASE Ready(t)
    BY <1>3, <2>1 DEF CoAwait, InScope, At, Executing, Holds, Live, Goto, StartTask, Ready
  <2>2. CASE ~Ready(t)
    BY <1>3, <2>2 DEF CoAwait, InScope, At, Executing, Holds, Live, Goto, StartTask, Ready
  <2> QED
    BY <2>1, <2>2
<1>4. ASSUME NEW a \in Actors, NEW t \in Tasks, Get(a, t) PROVE FirstAwaiterInv'
  BY <1>4 DEF Get, InScope, At, Executing, Holds, Live, Goto, StartTask
<1>5. ASSUME NEW a \in Actors, NEW t \in Tasks, Drop(a, t)
      PROVE  FirstAwaiterInv'
  <2>1. CASE started[t]
    BY <1>5, <2>1 DEF Drop, Holds, Live, At, Executing
  <2>2. CASE ~started[t]
    BY <1>5, <2>2 DEF Drop, Holds, Live, At, Executing
  <2> QED
    BY <2>1, <2>2
<1>6. ASSUME NEW a \in Actors, SetContinuationLoad(a) PROVE FirstAwaiterInv'
  BY <1>6 DEF SetContinuationLoad, At, Executing, Goto
<1>8. ASSUME NEW a \in Actors, AwaitResume(a) PROVE FirstAwaiterInv'
  BY <1>8 DEF AwaitResume, At, Executing, Goto, Ready
<1>9. ASSUME NEW a \in Actors, GetReturn(a) PROVE FirstAwaiterInv'
  BY <1>9 DEF GetReturn, At, Executing, Goto, Ready
<1>10. ASSUME NEW a \in Actors, DtorSpin(a) PROVE FirstAwaiterInv'
  BY <1>10 DEF DtorSpin, At, Executing
<1>11. ASSUME NEW a \in Actors, Yield(a) PROVE FirstAwaiterInv'
  BY <1>11 DEF Yield, InScope, At, Executing, Goto, SwitchTo, Schedule
<1>12. ASSUME NEW a \in Actors, Return(a) PROVE FirstAwaiterInv'
  BY <1>12 DEF Return, InScope, At, Executing
<1>13. ASSUME NEW a \in Actors, Throw(a) PROVE FirstAwaiterInv'
  BY <1>13 DEF Throw, InScope, At, Executing
<1>14. ASSUME NEW a \in Actors, FinalSuspend(a) PROVE FirstAwaiterInv'
  BY <1>14 DEF FinalSuspend, At, Executing, Goto, LocalsDestroyed, Live
<1>15. ASSUME NEW a \in Actors, SetReadyLoad(a) PROVE FirstAwaiterInv'
  BY <1>15 DEF SetReadyLoad, At, Executing, Goto
<1>17. ASSUME NEW a \in Actors, GetContinuation(a) PROVE FirstAwaiterInv'
  BY <1>17 DEF GetContinuation, At, Executing, Goto
<1>18. ASSUME NEW a \in Actors, PublishFinal(a) PROVE FirstAwaiterInv'
  BY <1>18 DEF PublishFinal, At, Executing, SwitchTo, ResumePoint
<1>19. ASSUME NEW a \in Actors, ThreadExit(a) PROVE FirstAwaiterInv'
  BY <1>19 DEF ThreadExit, Goto, LocalsDestroyed, Live
<1>20. ASSUME NEW w \in Workers, NEW t \in Tasks, Take(w, t)
      PROVE  FirstAwaiterInv'
  <2>1. CASE pc[t] = "final"
    BY <1>20, <2>1 DEF Take, Goto, ResumePoint
  <2>2. CASE pc[t] # "final"
    BY <1>20, <2>2 DEF Take, Goto, ResumePoint
  <2> QED
    BY <2>1, <2>2
<1>21. CASE Terminated
  BY <1>21 DEF Terminated, vars
<1> HIDE DEF TypeOK, FirstAwaiterInv, OpsInv, HandInv, QueueInv, AwaitedBySuspendedOwner,
    Live, Ready, Transferring, Actors, OnCpuPcs, OpPcs, FinalPcs, TaskPcs, ThreadPcs,
    SuspendedPcs, HandWords
<1> QED
  BY <1>1, <1>2, <1>3, <1>4, <1>5, <1>6, <1>7, <1>8, <1>9, <1>10, <1>11, <1>12, <1>13,
     <1>14, <1>15, <1>16, <1>17, <1>18, <1>19, <1>20, <1>21 DEF Next, Step, Leave

\* await_resume finds the result on each of its three ways in: the short cut, the
\* symmetric transfer of await_suspend, and that of final_awaiter.
LEMMA AwaitResumeHasResultStep ==
  ASSUME TypeOK, TypeOK', AwaitResumeHasResult, OpsInv, HandInv, QueueInv, Next
  PROVE  AwaitResumeHasResult'
<1> USE NamesAssumption, OwnerAssumption, MaxYieldsAssumption
    DEF TypeOK, AwaitResumeHasResult, OpsInv, HandInv, QueueInv, AwaitedBySuspendedOwner,
        Live, Ready, Transferring, Actors, OnCpuPcs, OpPcs, FinalPcs, TaskPcs, ThreadPcs,
        SuspendedPcs, HandWords
<1>1. ASSUME NEW a \in Actors, NEW t \in Tasks, Create(a, t)
      PROVE  AwaitResumeHasResult'
  BY <1>1 DEF Create, InScope, At, Executing, Goto
<1>2. ASSUME NEW a \in Actors, NEW t \in Tasks, Start(a, t)
      PROVE  AwaitResumeHasResult'
  BY <1>2 DEF Start, InScope, At, Executing, Holds, Live, StartTask
<1>3. ASSUME NEW a \in Actors, NEW t \in Tasks, CoAwait(a, t)
      PROVE  AwaitResumeHasResult'
  <2>1. CASE Ready(t)
    BY <1>3, <2>1 DEF CoAwait, InScope, At, Executing, Holds, Live, Goto, StartTask, Ready
  <2>2. CASE ~Ready(t)
    BY <1>3, <2>2 DEF CoAwait, InScope, At, Executing, Holds, Live, Goto, StartTask, Ready
  <2> QED
    BY <2>1, <2>2
<1>4. ASSUME NEW a \in Actors, NEW t \in Tasks, Get(a, t)
      PROVE  AwaitResumeHasResult'
  BY <1>4 DEF Get, InScope, At, Executing, Holds, Live, Goto, StartTask
<1>5. ASSUME NEW a \in Actors, NEW t \in Tasks, Drop(a, t)
      PROVE  AwaitResumeHasResult'
  <2>1. CASE started[t]
    BY <1>5, <2>1 DEF Drop, Holds, Live, At, Executing
  <2>2. CASE ~started[t]
    BY <1>5, <2>2 DEF Drop, Holds, Live, At, Executing
  <2> QED
    BY <2>1, <2>2
<1>6. ASSUME NEW a \in Actors, SetContinuationLoad(a)
      PROVE  AwaitResumeHasResult'
  BY <1>6 DEF SetContinuationLoad, At, Executing, Goto
<1>7. ASSUME NEW a \in Actors, SetContinuation(a) PROVE AwaitResumeHasResult'
  <2>1. CASE seen[a].cont # NoTask
    BY <1>7, <2>1 DEF SetContinuation, At, Executing, Goto, SwitchTo
  <2>2. CASE seen[a].cont = NoTask /\ hand[tgt[a]] # seen[a]
    BY <1>7, <2>2 DEF SetContinuation, At, Executing, Goto, SwitchTo
  <2>3. CASE seen[a].cont = NoTask /\ hand[tgt[a]] = seen[a] /\ seen[a].rdy
    BY <1>7, <2>3 DEF SetContinuation, At, Executing, Goto, SwitchTo
  <2>4. CASE seen[a].cont = NoTask /\ hand[tgt[a]] = seen[a] /\ ~seen[a].rdy
    BY <1>7, <2>4 DEF SetContinuation, At, Executing, Goto, SwitchTo
  <2> QED
    BY <2>1, <2>2, <2>3, <2>4
<1>8. ASSUME NEW a \in Actors, AwaitResume(a) PROVE AwaitResumeHasResult'
  BY <1>8 DEF AwaitResume, At, Executing, Goto, Ready
<1>9. ASSUME NEW a \in Actors, GetReturn(a) PROVE AwaitResumeHasResult'
  BY <1>9 DEF GetReturn, At, Executing, Goto, Ready
<1>10. ASSUME NEW a \in Actors, DtorSpin(a) PROVE AwaitResumeHasResult'
  BY <1>10 DEF DtorSpin, At, Executing
<1>11. ASSUME NEW a \in Actors, Yield(a) PROVE AwaitResumeHasResult'
  BY <1>11 DEF Yield, InScope, At, Executing, Goto, SwitchTo, Schedule
<1>12. ASSUME NEW a \in Actors, Return(a) PROVE AwaitResumeHasResult'
  BY <1>12 DEF Return, InScope, At, Executing
<1>13. ASSUME NEW a \in Actors, Throw(a) PROVE AwaitResumeHasResult'
  BY <1>13 DEF Throw, InScope, At, Executing
<1>14. ASSUME NEW a \in Actors, FinalSuspend(a) PROVE AwaitResumeHasResult'
  BY <1>14 DEF FinalSuspend, At, Executing, Goto, LocalsDestroyed, Live
<1>15. ASSUME NEW a \in Actors, SetReadyLoad(a) PROVE AwaitResumeHasResult'
  BY <1>15 DEF SetReadyLoad, At, Executing, Goto
<1>16. ASSUME NEW a \in Actors, SetReady(a) PROVE AwaitResumeHasResult'
  <2>1. result' = result
    BY <1>16 DEF SetReady
  <2>2. \A c \in Actors : pc'[c] = "awresume" =>
          pc[c] = "awresume" /\ tgt'[c] = tgt[c]
    BY <1>16 DEF SetReady, At, Goto
  <2> QED
    BY <2>1, <2>2
<1>17. ASSUME NEW a \in Actors, GetContinuation(a) PROVE AwaitResumeHasResult'
  BY <1>17 DEF GetContinuation, At, Executing, Goto
<1>18. ASSUME NEW a \in Actors, PublishFinal(a) PROVE AwaitResumeHasResult'
  BY <1>18 DEF PublishFinal, At, Executing, SwitchTo, ResumePoint
<1>19. ASSUME NEW a \in Actors, ThreadExit(a) PROVE AwaitResumeHasResult'
  BY <1>19 DEF ThreadExit, Goto, LocalsDestroyed, Live
<1>20. ASSUME NEW w \in Workers, NEW t \in Tasks, Take(w, t)
      PROVE  AwaitResumeHasResult'
  <2>1. CASE pc[t] = "final"
    BY <1>20, <2>1 DEF Take, Goto, ResumePoint
  <2>2. CASE pc[t] # "final"
    BY <1>20, <2>2 DEF Take, Goto, ResumePoint
  <2> QED
    BY <2>1, <2>2
<1>21. CASE Terminated
  BY <1>21 DEF Terminated, vars
<1> HIDE DEF TypeOK, AwaitResumeHasResult, OpsInv, HandInv, QueueInv,
    AwaitedBySuspendedOwner, Live, Ready, Transferring, Actors, OnCpuPcs, OpPcs, FinalPcs,
    TaskPcs, ThreadPcs, SuspendedPcs, HandWords
<1> QED
  BY <1>1, <1>2, <1>3, <1>4, <1>5, <1>6, <1>7, <1>8, <1>9, <1>10, <1>11, <1>12, <1>13,
     <1>14, <1>15, <1>16, <1>17, <1>18, <1>19, <1>20, <1>21 DEF Next, Step, Leave

\* Whichever of set_continuation() and set_ready() is first, the suspended awaiter
\* has somebody who resumes it.
LEMMA AwaiterInvStep ==
  ASSUME TypeOK, TypeOK', AwaiterInv, OpsInv, HandInv, FirstAwaiterInv, QueueInv, FinalInv, Next
  PROVE  AwaiterInv'
<1>p. ASSUME NEW a \in Actors, PublishFinal(a) PROVE PublishFinalMove(a)
  BY <1>p, PublishFinalMoves
<1> USE NamesAssumption, OwnerAssumption, MaxYieldsAssumption
    DEF TypeOK, AwaiterInv, OpsInv, HandInv, FirstAwaiterInv, QueueInv, FinalInv,
        AwaitedBySuspendedOwner, Live, Ready, Transferring, Actors, OnCpuPcs, OpPcs,
        FinalPcs, TaskPcs, ThreadPcs, SuspendedPcs, HandWords
<1>1. ASSUME NEW a \in Actors, NEW t \in Tasks, Create(a, t) PROVE AwaiterInv'
  BY <1>1 DEF Create, InScope, At, Executing, Goto
<1>2. ASSUME NEW a \in Actors, NEW t \in Tasks, Start(a, t) PROVE AwaiterInv'
  BY <1>2 DEF Start, InScope, At, Executing, Holds, Live, StartTask
<1>3. ASSUME NEW a \in Actors, NEW t \in Tasks, CoAwait(a, t) PROVE AwaiterInv'
  <2>1. CASE Ready(t)
    BY <1>3, <2>1 DEF CoAwait, InScope, At, Executing, Holds, Live, Goto, StartTask, Ready
  <2>2. CASE ~Ready(t)
    BY <1>3, <2>2 DEF CoAwait, InScope, At, Executing, Holds, Live, Goto, StartTask, Ready
  <2> QED
    BY <2>1, <2>2
<1>4. ASSUME NEW a \in Actors, NEW t \in Tasks, Get(a, t) PROVE AwaiterInv'
  BY <1>4 DEF Get, InScope, At, Executing, Holds, Live, Goto, StartTask
<1>5. ASSUME NEW a \in Actors, NEW t \in Tasks, Drop(a, t) PROVE AwaiterInv'
  <2>1. CASE started[t]
    BY <1>5, <2>1 DEF Drop, Holds, Live, At, Executing
  <2>2. CASE ~started[t]
    BY <1>5, <2>2 DEF Drop, Holds, Live, At, Executing
  <2> QED
    BY <2>1, <2>2
<1>6. ASSUME NEW a \in Actors, SetContinuationLoad(a) PROVE AwaiterInv'
  BY <1>6 DEF SetContinuationLoad, At, Executing, Goto
<1>7. ASSUME NEW a \in Actors, SetContinuation(a) PROVE AwaiterInv'
  <2> DEFINE Resumer(d) == /\ hand[tgt[d]].cont = d
                           /\ \/ ~hand[tgt[d]].rdy /\ Live(tgt[d]) /\ started[tgt[d]]
                              \/ pc[tgt[d]] = "fingetcont"
                              \/ Transferring(tgt[d], d)
  <2>1. /\ a \in Tasks /\ pc[a] = "awcas" /\ seen[a].cont = NoTask
        /\ tgt[a] \in Tasks /\ Owner[tgt[a]] = a /\ tgt[a] # a
        /\ Live(tgt[a]) /\ started[tgt[a]]
    <3>1. pc[a] = "awcas"
      BY <1>7 DEF SetContinuation, At
    <3>2. a \in Tasks
      BY <3>1
    <3>3. tgt[a] \in Tasks /\ Owner[tgt[a]] = a /\ Live(tgt[a]) /\ started[tgt[a]]
      BY <3>1
    <3> QED
      BY <3>1, <3>2, <3>3
  <2>2. tgt' = tgt /\ started' = started
    BY <1>7 DEF SetContinuation
  <2> SUFFICES ASSUME NEW d \in Tasks, pc'[d] = "awaiting"
               PROVE  Resumer(d)'
    OBVIOUS
  <2>3. CASE hand[tgt[a]] # seen[a]
    <3>1. pc' = pc /\ hand' = hand
      BY <1>7, <2>1, <2>3 DEF SetContinuation
    <3> QED
      BY <2>2, <3>1
  <2>4. CASE hand[tgt[a]] = seen[a]
    <3>1. /\ hand' = [hand EXCEPT ![tgt[a]] = [rdy |-> seen[a].rdy, cont |-> a]]
          /\ pc' = [pc EXCEPT ![a] = IF seen[a].rdy THEN "awresume" ELSE "awaiting"]
      BY <1>7, <2>1, <2>4 DEF SetContinuation, Goto
    <3>2. CASE d = a
      <4>1. ~seen[a].rdy
        BY <2>1, <3>1, <3>2
      <4>2. hand'[tgt[a]] = [rdy |-> seen[a].rdy, cont |-> a]
        BY <2>1, <3>1
      <4>3. pc'[tgt[a]] = pc[tgt[a]]
        BY <2>1, <3>1
      <4> QED
        BY <2>1, <2>2, <3>2, <4>1, <4>2, <4>3
    <3>3. CASE d # a
      <4>1. pc[d] = "awaiting" /\ Resumer(d)
        BY <3>1, <3>3
      <4>2. tgt[d] \in Tasks /\ tgt[d] # tgt[a]
        BY <2>1, <3>3, <4>1
      <4>3. hand'[tgt[d]] = hand[tgt[d]]
        BY <3>1, <4>2
      <4>4. CASE tgt[d] = a
        <5>1. ~hand[a].rdy /\ started[a] /\ hand[a].cont = d
          BY <2>1, <4>1, <4>4
        <5>2. pc'[a] \notin {"none", "destroyed"}
          BY <2>1, <3>1
        <5> QED
          BY <2>2, <4>3, <4>4, <5>1, <5>2
      <4>5. CASE tgt[d] # a
        <5>1. pc'[tgt[d]] = pc[tgt[d]]
          BY <3>1, <4>2, <4>5
        <5> QED
          BY <2>2, <4>1, <4>3, <5>1
      <4> QED
        BY <4>4, <4>5
    <3> QED
      BY <3>2, <3>3
  <2> QED
    BY <2>3, <2>4
<1>8. ASSUME NEW a \in Actors, AwaitResume(a) PROVE AwaiterInv'
  BY <1>8 DEF AwaitResume, At, Executing, Goto, Ready
<1>9. ASSUME NEW a \in Actors, GetReturn(a) PROVE AwaiterInv'
  BY <1>9 DEF GetReturn, At, Executing, Goto, Ready
<1>10. ASSUME NEW a \in Actors, DtorSpin(a) PROVE AwaiterInv'
  BY <1>10 DEF DtorSpin, At, Executing
<1>11. ASSUME NEW a \in Actors, Yield(a) PROVE AwaiterInv'
  BY <1>11 DEF Yield, InScope, At, Executing, Goto, SwitchTo, Schedule
<1>12. ASSUME NEW a \in Actors, Return(a) PROVE AwaiterInv'
  BY <1>12 DEF Return, InScope, At, Executing
<1>13. ASSUME NEW a \in Actors, Throw(a) PROVE AwaiterInv'
  BY <1>13 DEF Throw, InScope, At, Executing
<1>14. ASSUME NEW a \in Actors, FinalSuspend(a) PROVE AwaiterInv'
  BY <1>14 DEF FinalSuspend, At, Executing, Goto, LocalsDestroyed, Live
<1>15. ASSUME NEW a \in Actors, SetReadyLoad(a) PROVE AwaiterInv'
  BY <1>15 DEF SetReadyLoad, At, Executing, Goto
<1>16. ASSUME NEW a \in Actors, SetReady(a) PROVE AwaiterInv'
  <2> DEFINE Resumer(d) == /\ hand[tgt[d]].cont = d
                           /\ \/ ~hand[tgt[d]].rdy /\ Live(tgt[d]) /\ started[tgt[d]]
                              \/ pc[tgt[d]] = "fingetcont"
                              \/ Transferring(tgt[d], d)
  <2>1. a \in Tasks /\ pc[a] = "fincas" /\ ~seen[a].rdy
    BY <1>16 DEF SetReady, At
  <2>2. started' = started
    BY <1>16 DEF SetReady
  <2> SUFFICES ASSUME NEW d \in Tasks, pc'[d] = "awaiting"
               PROVE  Resumer(d)'
    OBVIOUS
  <2>3. CASE hand[a] # seen[a]
    <3>1. pc' = pc /\ hand' = hand /\ tgt' = tgt
      BY <1>16, <2>1, <2>3 DEF SetReady
    <3> QED
      BY <2>2, <3>1
  <2>4. CASE hand[a] = seen[a]
    <3>1. /\ hand' = [hand EXCEPT ![a] = [rdy |-> TRUE, cont |-> seen[a].cont]]
          /\ pc' = [pc EXCEPT ![a] = IF seen[a].cont # NoTask
                                     THEN "fingetcont" ELSE "finstore"]
          /\ \A b \in Actors : b # a => tgt'[b] = tgt[b]
      BY <1>16, <2>1, <2>4 DEF SetReady, Goto
    <3>2. d # a /\ pc[d] = "awaiting" /\ Resumer(d)
      BY <2>1, <3>1
    <3>3. tgt'[d] = tgt[d] /\ tgt[d] \in Tasks
      BY <3>1, <3>2
    <3>4. CASE tgt[d] = a
      <4>1. seen[a].cont # NoTask
        BY <2>4, <3>2, <3>4
      <4>2. pc'[a] = "fingetcont" /\ hand'[a].cont = d
        BY <2>1, <2>4, <3>1, <3>2, <3>4, <4>1
      <4> QED
        BY <3>3, <3>4, <4>2
    <3>5. CASE tgt[d] # a
      <4>1. /\ pc'[tgt[d]] = pc[tgt[d]]
            /\ hand'[tgt[d]] = hand[tgt[d]]
            /\ tgt'[tgt[d]] = tgt[tgt[d]]
        BY <3>1, <3>3, <3>5
      <4> QED
        BY <2>2, <3>2, <3>3, <4>1
    <3> QED
      BY <3>4, <3>5
  <2> QED
    BY <2>3, <2>4
<1>17. ASSUME NEW a \in Actors, GetContinuation(a) PROVE AwaiterInv'
  BY <1>17 DEF GetContinuation, At, Executing, Goto
<1>18. ASSUME NEW a \in Actors, PublishFinal(a) PROVE AwaiterInv'
  <2> DEFINE Resumer(d) == /\ hand[tgt[d]].cont = d
                           /\ \/ ~hand[tgt[d]].rdy /\ Live(tgt[d]) /\ started[tgt[d]]
                              \/ pc[tgt[d]] = "fingetcont"
                              \/ Transferring(tgt[d], d)
  <2>1. /\ a \in Tasks /\ pc[a] = "finstore" /\ UNCHANGED <<tgt, hand, started>>
        /\ \A b \in Actors : b # a /\ b # tgt[a] => pc'[b] = pc[b]
        /\ pc'[a] = "final"
        /\ tgt[a] # NoTask => pc'[tgt[a]] = "awresume" /\ tgt[tgt[a]] = a
    BY <1>18, <1>p DEF PublishFinalMove
  <2> SUFFICES ASSUME NEW d \in Tasks, pc'[d] = "awaiting"
               PROVE  Resumer(d)'
    OBVIOUS
  <2>2. d # a /\ d # tgt[a] /\ pc[d] = "awaiting" /\ Resumer(d) /\ tgt[d] \in Tasks
    BY <2>1
  \* The waiting task of d is not a: a would have gone on with d.
  <2>3. tgt[d] # a
    BY <2>1, <2>2
  <2>4. CASE tgt[d] = tgt[a]
    BY <2>1, <2>2, <2>4
  <2>5. CASE tgt[d] # tgt[a]
    <3>1. pc'[tgt[d]] = pc[tgt[d]] /\ tgt'[tgt[d]] = tgt[tgt[d]] /\ hand' = hand
      BY <2>1, <2>2, <2>3, <2>5
    <3> QED
      BY <2>1, <2>2, <3>1
  <2> QED
    BY <2>4, <2>5
<1>19. ASSUME NEW a \in Actors, ThreadExit(a) PROVE AwaiterInv'
  BY <1>19 DEF ThreadExit, Goto, LocalsDestroyed, Live
<1>20. ASSUME NEW w \in Workers, NEW t \in Tasks, Take(w, t) PROVE AwaiterInv'
  <2>1. CASE pc[t] = "final"
    BY <1>20, <2>1 DEF Take
  <2>2. CASE pc[t] # "final"
    <3>1. /\ pc[t] \in {"initial", "yielded"} /\ pc' = [pc EXCEPT ![t] = "body"]
          /\ UNCHANGED <<tgt, hand, started>>
      BY <1>20, <2>2 DEF Take, Goto, ResumePoint
    <3>2. \A d \in Tasks : pc'[d] = "awaiting" => pc[d] = "awaiting" /\ tgt[d] \in Tasks
      BY <3>1
    <3>3. \A c \in Tasks : /\ Live(c) => Live(c)'
                           /\ pc[c] \in {"fingetcont", "finstore"} => pc'[c] = pc[c]
      BY <3>1
    <3> QED
      BY <3>1, <3>2, <3>3
  <2> QED
    BY <2>1, <2>2
<1>21. CASE Terminated
  BY <1>21 DEF Terminated, vars
<1> HIDE DEF TypeOK, AwaiterInv, OpsInv, HandInv, FirstAwaiterInv, QueueInv, FinalInv,
    AwaitedBySuspendedOwner, Live, Ready, Transferring, Actors, OnCpuPcs, OpPcs, FinalPcs,
    TaskPcs, ThreadPcs, SuspendedPcs, HandWords
<1> QED
  BY <1>1, <1>2, <1>3, <1>4, <1>5, <1>6, <1>7, <1>8, <1>9, <1>10, <1>11, <1>12, <1>13,
     <1>14, <1>15, <1>16, <1>17, <1>18, <1>19, <1>20, <1>21 DEF Next, Step, Leave

\* Nothing moves a coroutine from its final suspend point but its destruction.
LEMMA FinalInvStep ==
  ASSUME TypeOK, TypeOK', FinalInv, StartedInv, OpsInv, QueueInv, HandInv, Next
  PROVE  FinalInv'
<1> USE NamesAssumption, OwnerAssumption, MaxYieldsAssumption
    DEF TypeOK, FinalInv, StartedInv, OpsInv, QueueInv, HandInv, AwaitedBySuspendedOwner,
        Live, Ready, Transferring, Actors, OnCpuPcs, OpPcs, FinalPcs, TaskPcs, ThreadPcs,
        SuspendedPcs, HandWords
<1>1. ASSUME NEW a \in Actors, NEW t \in Tasks, Create(a, t) PROVE FinalInv'
  BY <1>1 DEF Create, InScope, At, Executing, Goto
<1>2. ASSUME NEW a \in Actors, NEW t \in Tasks, Start(a, t) PROVE FinalInv'
  BY <1>2 DEF Start, InScope, At, Executing, Holds, Live, StartTask
<1>3. ASSUME NEW a \in Actors, NEW t \in Tasks, CoAwait(a, t) PROVE FinalInv'
  <2>1. CASE Ready(t)
    BY <1>3, <2>1 DEF CoAwait, InScope, At, Executing, Holds, Live, Goto, StartTask, Ready
  <2>2. CASE ~Ready(t)
    BY <1>3, <2>2 DEF CoAwait, InScope, At, Executing, Holds, Live, Goto, StartTask, Ready
  <2> QED
    BY <2>1, <2>2
<1>4. ASSUME NEW a \in Actors, NEW t \in Tasks, Get(a, t) PROVE FinalInv'
  BY <1>4 DEF Get, InScope, At, Executing, Holds, Live, Goto, StartTask
<1>5. ASSUME NEW a \in Actors, NEW t \in Tasks, Drop(a, t) PROVE FinalInv'
  <2>1. CASE started[t]
    BY <1>5, <2>1 DEF Drop, Holds, Live, At, Executing
  <2>2. CASE ~started[t]
    BY <1>5, <2>2 DEF Drop, Holds, Live, At, Executing
  <2> QED
    BY <2>1, <2>2
<1>6. ASSUME NEW a \in Actors, SetContinuationLoad(a) PROVE FinalInv'
  BY <1>6 DEF SetContinuationLoad, At, Executing, Goto
<1>7. ASSUME NEW a \in Actors, SetContinuation(a) PROVE FinalInv'
  <2>1. CASE seen[a].cont # NoTask
    BY <1>7, <2>1 DEF SetContinuation, At, Executing, Goto, SwitchTo
  <2>2. CASE seen[a].cont = NoTask /\ hand[tgt[a]] # seen[a]
    BY <1>7, <2>2 DEF SetContinuation, At, Executing, Goto, SwitchTo
  <2>3. CASE seen[a].cont = NoTask /\ hand[tgt[a]] = seen[a] /\ seen[a].rdy
    BY <1>7, <2>3 DEF SetContinuation, At, Executing, Goto, SwitchTo
  <2>4. CASE seen[a].cont = NoTask /\ hand[tgt[a]] = seen[a] /\ ~seen[a].rdy
    BY <1>7, <2>4 DEF SetContinuation, At, Executing, Goto, SwitchTo
  <2> QED
    BY <2>1, <2>2, <2>3, <2>4
<1>8. ASSUME NEW a \in Actors, AwaitResume(a) PROVE FinalInv'
  BY <1>8 DEF AwaitResume, At, Executing, Goto, Ready
<1>9. ASSUME NEW a \in Actors, GetReturn(a) PROVE FinalInv'
  BY <1>9 DEF GetReturn, At, Executing, Goto, Ready
<1>10. ASSUME NEW a \in Actors, DtorSpin(a) PROVE FinalInv'
  BY <1>10 DEF DtorSpin, At, Executing
<1>11. ASSUME NEW a \in Actors, Yield(a) PROVE FinalInv'
  BY <1>11 DEF Yield, InScope, At, Executing, Goto, SwitchTo, Schedule
<1>12. ASSUME NEW a \in Actors, Return(a) PROVE FinalInv'
  BY <1>12 DEF Return, InScope, At, Executing
<1>13. ASSUME NEW a \in Actors, Throw(a) PROVE FinalInv'
  BY <1>13 DEF Throw, InScope, At, Executing
<1>14. ASSUME NEW a \in Actors, FinalSuspend(a) PROVE FinalInv'
  BY <1>14 DEF FinalSuspend, At, Executing, Goto, LocalsDestroyed, Live
<1>15. ASSUME NEW a \in Actors, SetReadyLoad(a) PROVE FinalInv'
  BY <1>15 DEF SetReadyLoad, At, Executing, Goto
<1>16. ASSUME NEW a \in Actors, SetReady(a) PROVE FinalInv'
  <2>1. CASE seen[a].rdy
    BY <1>16, <2>1 DEF SetReady, At, Executing, Goto
  <2>2. CASE ~seen[a].rdy /\ hand[a] # seen[a]
    BY <1>16, <2>2 DEF SetReady, At, Executing, Goto
  <2>3. CASE ~seen[a].rdy /\ hand[a] = seen[a] /\ seen[a].cont # NoTask
    BY <1>16, <2>3 DEF SetReady, At, Executing, Goto
  <2>4. CASE ~seen[a].rdy /\ hand[a] = seen[a] /\ seen[a].cont = NoTask
    BY <1>16, <2>4 DEF SetReady, At, Executing, Goto
  <2> QED
    BY <2>1, <2>2, <2>3, <2>4
<1>17. ASSUME NEW a \in Actors, GetContinuation(a) PROVE FinalInv'
  BY <1>17 DEF GetContinuation, At, Executing, Goto
<1>18. ASSUME NEW a \in Actors, PublishFinal(a) PROVE FinalInv'
  BY <1>18 DEF PublishFinal, At, Executing, SwitchTo, ResumePoint
<1>19. ASSUME NEW a \in Actors, ThreadExit(a) PROVE FinalInv'
  BY <1>19 DEF ThreadExit, Goto, LocalsDestroyed, Live
<1>20. ASSUME NEW w \in Workers, NEW t \in Tasks, Take(w, t) PROVE FinalInv'
  <2>1. CASE pc[t] = "final"
    BY <1>20, <2>1 DEF Take, Goto, ResumePoint
  <2>2. CASE pc[t] # "final"
    BY <1>20, <2>2 DEF Take, Goto, ResumePoint
  <2> QED
    BY <2>1, <2>2
<1>21. CASE Terminated
  BY <1>21 DEF Terminated, vars
<1> HIDE DEF TypeOK, FinalInv, StartedInv, OpsInv, QueueInv, HandInv,
    AwaitedBySuspendedOwner, Live, Ready, Transferring, Actors, OnCpuPcs, OpPcs, FinalPcs,
    TaskPcs, ThreadPcs, SuspendedPcs, HandWords
<1> QED
  BY <1>1, <1>2, <1>3, <1>4, <1>5, <1>6, <1>7, <1>8, <1>9, <1>10, <1>11, <1>12, <1>13,
     <1>14, <1>15, <1>16, <1>17, <1>18, <1>19, <1>20, <1>21 DEF Next, Step, Leave

\* A scope is left only when the frames it holds are destroyed.
LEMMA TreeInvStep ==
  ASSUME TypeOK, TypeOK', TreeInv, OpsInv, StartedInv, QueueInv, HandInv, FinalInv, Next
  PROVE  TreeInv'
<1>3. ASSUME NEW a \in Actors, NEW t \in Tasks, CoAwait(a, t) PROVE TreeInv'
  <2>1. CoAwaitMove(a, t)
    BY <1>3, CoAwaitMoves
  <2>2. /\ a \in Tasks /\ pc[a] = "body" /\ pc'[a] \in {"awload", "awresume"}
        /\ \A b \in Actors : b # a => pc'[b] = pc[b]
    BY <2>1 DEF CoAwaitMove, OnlyMoves
  <2>3. \A u \in Tasks : u \in Actors /\ Owner[u] \in Actors
    BY OwnerAssumption DEF Actors
  <2> QED
    BY <2>2, <2>3 DEF TreeInv, Live, OpPcs
<1>7. ASSUME NEW a \in Actors, SetContinuation(a) PROVE TreeInv'
  <2>1. SetContinuationMove(a)
    BY <1>7, SetContinuationMoves
  <2>2. /\ a \in Tasks /\ pc[a] = "awcas" /\ pc'[a] \in {"awcas", "awaiting", "awresume"}
        /\ \A b \in Actors : b # a => pc'[b] = pc[b]
    BY <2>1 DEF SetContinuationMove, OnlyMoves
  <2>3. \A u \in Tasks : u \in Actors /\ Owner[u] \in Actors
    BY OwnerAssumption DEF Actors
  <2> QED
    BY <2>2, <2>3 DEF TreeInv, Live, OpPcs
<1>16. ASSUME NEW a \in Actors, SetReady(a) PROVE TreeInv'
  <2>1. SetReadyMove(a)
    BY <1>16, SetReadyMoves
  <2>2. /\ a \in Tasks /\ pc[a] = "fincas"
        /\ pc'[a] \in {"fincas", "fingetcont", "finstore"}
        /\ \A b \in Actors : b # a => pc'[b] = pc[b]
    BY <2>1 DEF SetReadyMove, OnlyMoves
  <2>3. \A u \in Tasks : u \in Actors /\ Owner[u] \in Actors
    BY OwnerAssumption DEF Actors
  <2> QED
    BY <2>2, <2>3 DEF TreeInv, Live, OpPcs
<1> USE NamesAssumption, OwnerAssumption, MaxYieldsAssumption
    DEF TypeOK, TreeInv, OpsInv, StartedInv, QueueInv, HandInv, FinalInv,
        AwaitedBySuspendedOwner, Live, Ready, Transferring, Actors, OnCpuPcs, OpPcs,
        FinalPcs, TaskPcs, ThreadPcs, SuspendedPcs, HandWords
<1>1. ASSUME NEW a \in Actors, NEW t \in Tasks, Create(a, t) PROVE TreeInv'
  BY <1>1 DEF Create, InScope, At, Executing, Goto
<1>2. ASSUME NEW a \in Actors, NEW t \in Tasks, Start(a, t) PROVE TreeInv'
  BY <1>2 DEF Start, InScope, At, Executing, Holds, Live, StartTask
<1>4. ASSUME NEW a \in Actors, NEW t \in Tasks, Get(a, t) PROVE TreeInv'
  BY <1>4 DEF Get, InScope, At, Executing, Holds, Live, Goto, StartTask
<1>5. ASSUME NEW a \in Actors, NEW t \in Tasks, Drop(a, t) PROVE TreeInv'
  <2>1. CASE started[t]
    BY <1>5, <2>1 DEF Drop, Holds, Live, At, Executing
  <2>2. CASE ~started[t]
    BY <1>5, <2>2 DEF Drop, Holds, Live, At, Executing
  <2> QED
    BY <2>1, <2>2
<1>6. ASSUME NEW a \in Actors, SetContinuationLoad(a) PROVE TreeInv'
  BY <1>6 DEF SetContinuationLoad, At, Executing, Goto
<1>8. ASSUME NEW a \in Actors, AwaitResume(a) PROVE TreeInv'
  BY <1>8 DEF AwaitResume, At, Executing, Goto, Ready
<1>9. ASSUME NEW a \in Actors, GetReturn(a) PROVE TreeInv'
  BY <1>9 DEF GetReturn, At, Executing, Goto, Ready
<1>10. ASSUME NEW a \in Actors, DtorSpin(a) PROVE TreeInv'
  BY <1>10 DEF DtorSpin, At, Executing
<1>11. ASSUME NEW a \in Actors, Yield(a) PROVE TreeInv'
  BY <1>11 DEF Yield, InScope, At, Executing, Goto, SwitchTo, Schedule
<1>12. ASSUME NEW a \in Actors, Return(a) PROVE TreeInv'
  BY <1>12 DEF Return, InScope, At, Executing
<1>13. ASSUME NEW a \in Actors, Throw(a) PROVE TreeInv'
  BY <1>13 DEF Throw, InScope, At, Executing
<1>14. ASSUME NEW a \in Actors, FinalSuspend(a) PROVE TreeInv'
  BY <1>14 DEF FinalSuspend, At, Executing, Goto, LocalsDestroyed, Live
<1>15. ASSUME NEW a \in Actors, SetReadyLoad(a) PROVE TreeInv'
  BY <1>15 DEF SetReadyLoad, At, Executing, Goto
<1>17. ASSUME NEW a \in Actors, GetContinuation(a) PROVE TreeInv'
  BY <1>17 DEF GetContinuation, At, Executing, Goto
<1>18. ASSUME NEW a \in Actors, PublishFinal(a) PROVE TreeInv'
  BY <1>18 DEF PublishFinal, At, Executing, SwitchTo, ResumePoint
<1>19. ASSUME NEW a \in Actors, ThreadExit(a) PROVE TreeInv'
  BY <1>19 DEF ThreadExit, Goto, LocalsDestroyed, Live
<1>20. ASSUME NEW w \in Workers, NEW t \in Tasks, Take(w, t) PROVE TreeInv'
  <2>1. CASE pc[t] = "final"
    BY <1>20, <2>1 DEF Take, Goto, ResumePoint
  <2>2. CASE pc[t] # "final"
    BY <1>20, <2>2 DEF Take, Goto, ResumePoint
  <2> QED
    BY <2>1, <2>2
<1>21. CASE Terminated
  BY <1>21 DEF Terminated, vars
<1> HIDE DEF TypeOK, TreeInv, OpsInv, StartedInv, QueueInv, HandInv, FinalInv,
    AwaitedBySuspendedOwner, Live, Ready, Transferring, Actors, OnCpuPcs, OpPcs, FinalPcs,
    TaskPcs, ThreadPcs, SuspendedPcs, HandWords
<1> QED
  BY <1>1, <1>2, <1>3, <1>4, <1>5, <1>6, <1>7, <1>8, <1>9, <1>10, <1>11, <1>12, <1>13,
     <1>14, <1>15, <1>16, <1>17, <1>18, <1>19, <1>20, <1>21 DEF Next, Step, Leave

-----------------------------------------------------------------------------
(* The theorems.                                                           *)

\* The parts of IInv hold together: no step of the library falsifies one.
LEMMA InductiveStep == IInv /\ [Next]_vars => IInv'
<1> SUFFICES ASSUME IInv, [Next]_vars PROVE IInv'
  OBVIOUS
<1>1. CASE Next
  <2>1. TypeOK'
    BY <1>1, TypeStep DEF IInv
  <2>2. WorkersInv' /\ QueueInv' /\ StartedInv' /\ ResultInv' /\ OpsInv'
    BY <1>1, <2>1, WorkersInvStep, QueueInvStep, StartedInvStep, ResultInvStep,
       OpsInvStep DEF IInv
  <2>3. HandInv' /\ FirstAwaiterInv' /\ AwaitResumeHasResult'
    BY <1>1, <2>1, HandInvStep, FirstAwaiterInvStep, AwaitResumeHasResultStep
       DEF IInv
  <2>4. AwaiterInv' /\ FinalInv' /\ TreeInv'
    BY <1>1, <2>1, AwaiterInvStep, FinalInvStep, TreeInvStep DEF IInv
  <2> QED
    BY <2>1, <2>2, <2>3, <2>4 DEF IInv
<1>2. CASE UNCHANGED vars
  BY <1>2 DEF vars, IInv, TypeOK, WorkersInv, QueueInv, StartedInv, ResultInv,
     OpsInv, HandInv, FirstAwaiterInv, AwaitResumeHasResult, AwaiterInv,
     FinalInv, TreeInv, AwaitedBySuspendedOwner, Transferring, Live, Ready
<1> QED
  BY <1>1, <1>2

\* IInv holds before anything was created, and so always.
THEOREM Invariance == Spec => []IInv
<1>1. Init => IInv
  <2> SUFFICES ASSUME Init PROVE IInv
    OBVIOUS
  <2> USE NamesAssumption, OwnerAssumption, MaxYieldsAssumption
      DEF Init, NoHand, Actors
  <2>1. TypeOK
    BY DEF TypeOK, HandWords, TaskPcs, ThreadPcs
  <2>2. WorkersInv /\ QueueInv /\ StartedInv /\ FinalInv
    BY DEF WorkersInv, QueueInv, StartedInv, FinalInv
  <2>3. ResultInv /\ HandInv /\ FirstAwaiterInv /\ TreeInv
    BY DEF ResultInv, HandInv, FirstAwaiterInv, TreeInv, FinalPcs, Ready, Live
  <2>4. OpsInv /\ AwaitResumeHasResult /\ AwaiterInv
    BY DEF OpsInv, AwaitResumeHasResult, AwaiterInv, OpPcs
  <2> QED
    BY <2>1, <2>2, <2>3, <2>4 DEF IInv
<1> QED
  BY <1>1, InductiveStep, PTL DEF Spec

\* The state of the coroutine library always has its type.
THEOREM TypeCorrect == Spec => []TypeOK
<1>1. IInv => TypeOK
  BY DEF IInv
<1> QED
  BY <1>1, Invariance, PTL

\* A coroutine is never resumed by two parties (continuation_handoff: "Exactly one
\* party wins and is responsible for resumption").
THEOREM OneResumer == Spec => []ResumedByOne
<1>1. IInv => ResumedByOne
  <2> SUFFICES ASSUME IInv, NEW t \in Tasks
               PROVE  /\ queued[t] <= 1
                      /\ queued[t] = 1 => \A w \in Workers : run[w] # t
                      /\ \A v, w \in Workers : run[v] = t /\ run[w] = t => v = w
                      /\ \A c, d \in Tasks :
                           Transferring(c, t) /\ Transferring(d, t) => c = d
                      /\ \A c \in Tasks : Transferring(c, t) =>
                           queued[t] = 0 /\ \A w \in Workers : run[w] # t
    BY DEF ResumedByOne
  <2>1. t # NoTask
    BY NamesAssumption DEF Actors
  <2>2. queued[t] \in {0, 1}
    BY DEF IInv, QueueInv
  <2>3. pc[t] \notin OnCpuPcs => \A w \in Workers : run[w] # t
    BY <2>1 DEF IInv, WorkersInv
  <2>4. \A c \in Tasks : Transferring(c, t) => pc[t] = "awaiting" /\ tgt[t] = c
    BY <2>1 DEF IInv, HandInv, AwaitedBySuspendedOwner, Transferring
  <2>5. queued[t] = 1 => pc[t] \in {"initial", "yielded"}
    BY DEF IInv, QueueInv
  <2>6. \A v, w \in Workers : run[v] = t /\ run[w] = t => v = w
    BY <2>1 DEF IInv, WorkersInv
  <2> QED
    BY <2>2, <2>3, <2>4, <2>5, <2>6 DEF OnCpuPcs, OpPcs, FinalPcs
<1> QED
  BY <1>1, Invariance, PTL

\* Nothing reaches a destroyed frame (~coro_task(): once final_suspend_reached is
\* true the coroutine is "safe to destroy").
THEOREM DestroyIsSafe == Spec => []NoUseAfterDestroy
<1>1. IInv => NoUseAfterDestroy
  <2> SUFFICES ASSUME IInv, NEW t \in Tasks, pc[t] = "destroyed"
               PROVE  /\ queued[t] = 0
                      /\ \A w \in Workers : run[w] # t
                      /\ \A c \in Tasks : ~Transferring(c, t)
                      /\ \A a \in Actors :
                           pc[a] \in OpPcs \union {"awaiting"} => tgt[a] # t
                      /\ LocalsDestroyed(t)
    BY DEF NoUseAfterDestroy
  <2>1. t # NoTask
    BY NamesAssumption DEF Actors
  <2>2. queued[t] = 0
    BY DEF IInv, QueueInv
  <2>3. \A w \in Workers : run[w] # t
    BY <2>1 DEF IInv, WorkersInv, OnCpuPcs, OpPcs, FinalPcs
  <2>4. \A c \in Tasks : ~Transferring(c, t)
    <3>1. HandInv
      BY DEF IInv
    <3>2. ASSUME NEW c \in Tasks, Transferring(c, t)
          PROVE  AwaitedBySuspendedOwner(c) /\ t = Owner[c]
      BY <2>1, <3>1, <3>2 DEF HandInv, Transferring
    <3> QED
      BY <3>2 DEF AwaitedBySuspendedOwner
  <2>5. \A a \in Actors : pc[a] \in OpPcs \union {"awaiting"} => tgt[a] # t
    BY DEF IInv, OpsInv, Live
  <2>6. LocalsDestroyed(t)
    BY DEF IInv, TreeInv, LocalsDestroyed, OpPcs
  <2> QED
    BY <2>2, <2>3, <2>4, <2>5, <2>6
<1> QED
  BY <1>1, Invariance, PTL

\* await_resume never blocks its worker.
THEOREM AwaitResumeNeverBlocks == Spec => []AwaitResumeHasResult
<1>1. IInv => AwaitResumeHasResult
  BY DEF IInv
<1> QED
  BY <1>1, Invariance, PTL

\* A suspended awaiter always has one who will resume it: the safety part of "no
\* lost wake-up" of the handoff.
THEOREM NoStrandedAwaiter == Spec => []AwaiterHasResumer
<1>1. IInv => AwaiterHasResumer
  <2> SUFFICES ASSUME IInv, NEW a \in Tasks, pc[a] = "awaiting"
               PROVE  /\ hand[tgt[a]].cont = a
                      /\ \/ /\ started[tgt[a]] /\ ~hand[tgt[a]].rdy
                            /\ Live(tgt[a])
                            /\ pc[tgt[a]] \notin {"finstore", "final"}
                         \/ pc[tgt[a]] = "fingetcont"
                         \/ Transferring(tgt[a], a)
    BY DEF AwaiterHasResumer
  <2>1. /\ hand[tgt[a]].cont = a
        /\ \/ ~hand[tgt[a]].rdy /\ Live(tgt[a]) /\ started[tgt[a]]
           \/ pc[tgt[a]] = "fingetcont"
           \/ Transferring(tgt[a], a)
    BY DEF IInv, AwaiterInv
  <2>2. tgt[a] \in Tasks
    BY DEF IInv, OpsInv, Actors
  <2>3. pc[tgt[a]] \in {"finstore", "final"} => hand[tgt[a]].rdy
    BY <2>2 DEF IInv, HandInv
  <2> QED
    BY <2>1, <2>3
<1> QED
  BY <1>1, Invariance, PTL

-----------------------------------------------------------------------------
(* After final_suspend_reached.                                            *)

\* READY_FLAG was set before, and the destruction of the frame leaves it.
PublishedInv == \A t \in Tasks : finalReached[t] => hand[t].rdy

\* READY_FLAG is never taken back: the loops only swap a word for one with the same flag
\* or with the flag set.
LEMMA ReadyFlagStays ==
  ASSUME IInv, Next, NEW t \in Tasks, hand[t].rdy
  PROVE  hand'[t].rdy
<1> USE DEF IInv, TypeOK
<1>1. ASSUME NEW a \in Actors, SetContinuation(a) PROVE hand'[t].rdy
  BY <1>1 DEF SetContinuation
<1>2. ASSUME NEW a \in Actors, SetReady(a) PROVE hand'[t].rdy
  BY <1>2 DEF SetReady
<1>3. \/ hand' = hand
      \/ \E a \in Actors : SetContinuation(a) \/ SetReady(a)
  <2>1. ASSUME NEW a \in Actors, Step(a), ~SetContinuation(a), ~SetReady(a)
        PROVE  hand' = hand
    BY <2>1 DEF Step, Create, Start, CoAwait, Get, Drop, SetContinuationLoad, AwaitResume,
       GetReturn, DtorSpin, Yield, Leave, Return, Throw, FinalSuspend, SetReadyLoad,
       GetContinuation, PublishFinal, ThreadExit
  <2>2. ASSUME NEW w \in Workers, NEW u \in Tasks, Take(w, u) PROVE hand' = hand
    BY <2>2 DEF Take
  <2>3. Terminated => hand' = hand
    BY DEF Terminated, vars
  <2> QED
    BY <2>1, <2>2, <2>3 DEF Next
<1> QED
  BY <1>1, <1>2, <1>3

\* Only final_awaiter publishes, when READY_FLAG is set, and nobody takes it back.
LEMMA PublishedOnce ==
  ASSUME IInv, Next, NEW t \in Tasks
  PROVE  /\ finalReached[t] => finalReached'[t]
         /\ finalReached'[t] => finalReached[t] \/ pc[t] = "finstore"
<1> USE DEF IInv, TypeOK
<1>1. ASSUME NEW a \in Actors, PublishFinal(a)
      PROVE  finalReached' = [finalReached EXCEPT ![a] = TRUE] /\ pc[a] = "finstore"
  BY <1>1 DEF PublishFinal, At
<1>2. \/ finalReached' = finalReached
      \/ \E a \in Actors : PublishFinal(a)
  <2>1. ASSUME NEW a \in Actors, Step(a), ~PublishFinal(a)
        PROVE  finalReached' = finalReached
    BY <2>1 DEF Step, Create, Start, CoAwait, Get, Drop, SetContinuationLoad, SetContinuation,
       AwaitResume, GetReturn, DtorSpin, Yield, Leave, Return, Throw, FinalSuspend,
       SetReadyLoad, SetReady, GetContinuation, ThreadExit
  <2>2. ASSUME NEW w \in Workers, NEW u \in Tasks, Take(w, u)
        PROVE  finalReached' = finalReached
    BY <2>2 DEF Take
  <2>3. Terminated => finalReached' = finalReached
    BY DEF Terminated, vars
  <2> QED
    BY <2>1, <2>2, <2>3 DEF Next
<1> QED
  BY <1>1, <1>2

\* A result is written by the body alone, which is over at the final suspend point.
LEMMA ResultStays ==
  ASSUME IInv, Next, NEW t \in Tasks, finalReached[t]
  PROVE  result'[t] = result[t]
<1> USE DEF IInv, TypeOK
<1>1. pc[t] # "body"
  BY DEF FinalInv
<1>2. ASSUME NEW a \in Actors, Return(a) \/ FinalSuspend(a)
      PROVE  pc[a] = "body" /\ \A u \in Tasks : u # a => result'[u] = result[u]
  BY <1>2 DEF Return, FinalSuspend, InScope, At
<1>3. \/ result' = result
      \/ \E a \in Actors : Return(a) \/ FinalSuspend(a)
  <2>1. ASSUME NEW a \in Actors, Step(a), ~Return(a), ~FinalSuspend(a)
        PROVE  result' = result
    BY <2>1 DEF Step, Create, Start, CoAwait, Get, Drop, SetContinuationLoad, SetContinuation,
       AwaitResume, GetReturn, DtorSpin, Yield, Leave, Throw, SetReadyLoad, SetReady,
       GetContinuation, PublishFinal, ThreadExit
  <2>2. ASSUME NEW w \in Workers, NEW u \in Tasks, Take(w, u) PROVE result' = result
    BY <2>2 DEF Take
  <2>3. Terminated => result' = result
    BY DEF Terminated, vars
  <2> QED
    BY <2>1, <2>2, <2>3 DEF Next
<1> QED
  BY <1>1, <1>2, <1>3

\* READY_FLAG is set wherever final_suspend_reached is.
LEMMA PublishedStep == IInv /\ PublishedInv /\ [Next]_vars => PublishedInv'
<1>1. ASSUME IInv, PublishedInv, Next, NEW t \in Tasks, finalReached'[t]
      PROVE  hand'[t].rdy
  <2>1. hand[t].rdy
    BY <1>1, PublishedOnce DEF PublishedInv, IInv, HandInv
  <2> QED
    BY <1>1, <2>1, ReadyFlagStays
<1>2. ASSUME PublishedInv, UNCHANGED vars PROVE PublishedInv'
  BY <1>2 DEF PublishedInv, vars
<1> QED
  BY <1>1, <1>2 DEF PublishedInv

\* The store to final_suspend_reached is the coroutine's last: its owner may destroy the
\* frame and the shared state from then on.
THEOREM PublishIsLast == Spec => NothingAfterPublish
<1>1. Init => PublishedInv
  BY DEF Init, PublishedInv
<1>2. IInv /\ IInv' /\ PublishedInv /\ PublishedInv' /\ [Next]_vars =>
        [\A t \in Tasks : finalReached[t] =>
           /\ pc'[t] \in {"final", "destroyed"}
           /\ result'[t] = result[t]
           /\ hand'[t].rdy
           /\ finalReached'[t]]_vars
  <2>1. ASSUME IInv, IInv', PublishedInv, PublishedInv', Next, NEW t \in Tasks, finalReached[t]
        PROVE  /\ pc'[t] \in {"final", "destroyed"}
               /\ result'[t] = result[t]
               /\ hand'[t].rdy
               /\ finalReached'[t]
    <3>1. finalReached'[t]
      BY <2>1, PublishedOnce
    <3>2. hand'[t].rdy
      BY <2>1, <3>1 DEF PublishedInv
    <3>3. pc'[t] \in {"final", "destroyed"}
      BY <2>1, <3>1 DEF IInv, FinalInv
    <3>4. result'[t] = result[t]
      BY <2>1, ResultStays
    <3> QED
      BY <3>1, <3>2, <3>3, <3>4
  <2> QED
    BY <2>1
<1> QED
  BY <1>1, <1>2, Invariance, PublishedStep, PTL DEF Spec, NothingAfterPublish

-----------------------------------------------------------------------------
(* Refinement of ForkJoin: one lemma for each of its actions, in terms of  *)
(* what becomes of one task's status or of one actor's wait.               *)

\* What a waits for, as the refinement sees it.
WaitsFor(a) == IF pc[a] \in WaitPcs THEN tgt[a] ELSE NoTask

\* a's body, as ForkJoin sees it, can run.
Running(a) == WaitsFor(a) = NoTask /\ (a \in Tasks => StatusOf(a) \in {"started", "resolved"})

OthersKeepStatus(t) == \A u \in Tasks \ {t} : StatusOf(u)' = StatusOf(u)
StatusKept == \A u \in Tasks : StatusOf(u)' = StatusOf(u)
WaitsKept == \A a \in Actors : WaitsFor(a)' = WaitsFor(a)
OthersKeepWaiting(a) == \A b \in Actors \ {a} : WaitsFor(b)' = WaitsFor(b)

\* The status of a task, case by case, before and after a step.
LEMMA StatusFacts ==
  ASSUME NEW t \in Tasks
  PROVE  /\ pc[t] = "none" => StatusOf(t) = "unborn"
         /\ pc[t] = "destroyed" => StatusOf(t) = "destroyed"
         /\ pc[t] = "final" => StatusOf(t) = "finished"
         /\ pc[t] \notin {"none", "destroyed", "final"} =>
              StatusOf(t) = IF ~started[t] THEN "created"
                            ELSE IF Ready(t) THEN "resolved" ELSE "started"
  BY DEF StatusOf, Live

\* The same after a step.
LEMMA StatusFactsAfter ==
  ASSUME NEW t \in Tasks
  PROVE  /\ pc'[t] = "none" => StatusOf(t)' = "unborn"
         /\ pc'[t] = "destroyed" => StatusOf(t)' = "destroyed"
         /\ pc'[t] = "final" => StatusOf(t)' = "finished"
         /\ pc'[t] \notin {"none", "destroyed", "final"} =>
              StatusOf(t)' = IF ~started'[t] THEN "created"
                             ELSE IF Ready(t)' THEN "resolved" ELSE "started"
  BY DEF StatusOf, Live

\* A status changes only with the flags it is made of, or at the ends of the frame's life.
LEMMA SameStatus ==
  ASSUME NEW t \in Tasks, started'[t] = started[t], Ready(t)' <=> Ready(t),
         \/ pc'[t] = pc[t]
         \/ {pc[t], pc'[t]} \intersect {"none", "destroyed", "final"} = {}
  PROVE  StatusOf(t)' = StatusOf(t)
<1>1. CASE pc[t] \in {"none", "destroyed", "final"}
  BY <1>1, StatusFacts, StatusFactsAfter
<1>2. CASE pc[t] \notin {"none", "destroyed", "final"}
  <2>1. pc'[t] \notin {"none", "destroyed", "final"}
    BY <1>2
  <2> QED
    BY <1>2, <2>1, StatusFacts, StatusFactsAfter
<1> QED
  BY <1>1, <1>2

\* The status of one task changes.
LEMMA OneStatus ==
  ASSUME NEW t \in Tasks, NEW s, StatusOf(t)' = s, OthersKeepStatus(t)
  PROVE  [u \in Tasks |-> StatusOf(u)]' = [[u \in Tasks |-> StatusOf(u)] EXCEPT ![t] = s]
  BY DEF OthersKeepStatus

\* No status changes.
LEMMA SameStatuses ==
  ASSUME StatusKept
  PROVE  [u \in Tasks |-> StatusOf(u)]' = [u \in Tasks |-> StatusOf(u)]
  BY DEF StatusKept

\* Nobody begins or ends a wait.
LEMMA SameWaits ==
  ASSUME WaitsKept
  PROVE  [a \in Actors |-> IF pc[a] \in WaitPcs THEN tgt[a] ELSE NoTask]'
         = [a \in Actors |-> IF pc[a] \in WaitPcs THEN tgt[a] ELSE NoTask]
  BY DEF WaitsKept, WaitsFor

\* One actor begins or ends a wait.
LEMMA OneWait ==
  ASSUME NEW b \in Actors, NEW u, WaitsFor(b)' = u, OthersKeepWaiting(b)
  PROVE  [a \in Actors |-> IF pc[a] \in WaitPcs THEN tgt[a] ELSE NoTask]'
         = [[a \in Actors |-> IF pc[a] \in WaitPcs THEN tgt[a] ELSE NoTask] EXCEPT ![b] = u]
  BY DEF OthersKeepWaiting, WaitsFor

\* The body of t's owner calls the coroutine function.
LEMMA JoinCreates ==
  ASSUME NEW t \in Tasks, Owner[t] \in Actors, Running(Owner[t]),
         StatusOf(t) = "unborn", StatusOf(t)' = "created", OthersKeepStatus(t), WaitsKept
  PROVE  Join!Create(t)
  BY OneStatus, SameWaits DEF Join!Create, Join!Active, Join!Become, Running, WaitsFor

\* t's owner starts it.
LEMMA JoinStarts ==
  ASSUME NEW t \in Tasks, Owner[t] \in Actors, Running(Owner[t]),
         StatusOf(t) = "created", StatusOf(t)' = "started", OthersKeepStatus(t), WaitsKept
  PROVE  Join!Start(t)
  BY OneStatus, SameWaits DEF Join!Start, Join!Active, Join!Become, Running, WaitsFor

\* t's owner begins to wait for t, which it starts if need be.
LEMMA JoinWaits ==
  ASSUME NEW t \in Tasks, Owner[t] \in Actors, Running(Owner[t]),
         StatusOf(t) \in {"created", "started", "resolved", "finished"},
         StatusOf(t)' = IF StatusOf(t) = "created" THEN "started" ELSE StatusOf(t),
         OthersKeepStatus(t), WaitsFor(Owner[t])' = t, OthersKeepWaiting(Owner[t])
  PROVE  Join!Wait(t)
<1>1. CASE StatusOf(t) = "created"
  BY <1>1, OneStatus, OneWait DEF Join!Wait, Join!Active, Running, WaitsFor
<1>2. CASE StatusOf(t) # "created"
  <2>1. StatusKept
    BY <1>2 DEF StatusKept, OthersKeepStatus
  <2> QED
    BY <1>2, <2>1, SameStatuses, OneWait DEF Join!Wait, Join!Active, Running, WaitsFor
<1> QED
  BY <1>1, <1>2

\* a's wait ends: the task it waits for has a result.
LEMMA JoinWakes ==
  ASSUME NEW a \in Actors, WaitsFor(a) \in Tasks,
         StatusOf(WaitsFor(a)) \in {"resolved", "finished"}, StatusKept,
         WaitsFor(a)' = NoTask, OthersKeepWaiting(a)
  PROVE  Join!Wake(a)
  BY NamesAssumption, SameStatuses, OneWait DEF Join!Wake, Actors, WaitsFor

\* t's result is stored.
LEMMA JoinResolves ==
  ASSUME NEW t \in Tasks, t \in Actors, Running(t),
         StatusOf(t) = "started", StatusOf(t)' = "resolved", OthersKeepStatus(t), WaitsKept
  PROVE  Join!Resolve(t)
  BY OneStatus, SameWaits DEF Join!Resolve, Join!Active, Join!Become, Running, WaitsFor

\* t has reached its final suspend point.
LEMMA JoinFinishes ==
  ASSUME NEW t \in Tasks, t \in Actors, Running(t),
         \A c \in Tasks : Owner[c] = t => StatusOf(c) \in {"unborn", "destroyed"},
         StatusOf(t) = "resolved", StatusOf(t)' = "finished", OthersKeepStatus(t), WaitsKept
  PROVE  Join!Finish(t)
  BY OneStatus, SameWaits DEF Join!Finish, Join!Active, Join!Become, Running, WaitsFor

\* t's frame is destroyed by its owner.
LEMMA JoinDestroys ==
  ASSUME NEW t \in Tasks, Owner[t] \in Actors, Running(Owner[t]),
         StatusOf(t) \in {"created", "finished"}, StatusOf(t)' = "destroyed",
         OthersKeepStatus(t), WaitsKept
  PROVE  Join!Destroy(t)
  BY OneStatus, SameWaits DEF Join!Destroy, Join!Active, Join!Become, Running, WaitsFor

\* A body that runs is that of a task that was started and has not finished, and waits for
\* nothing.
LEMMA BodyRuns ==
  ASSUME IInv, NEW a \in Actors, pc[a] \in {"body", "dtor"} \union FinalPcs
  PROVE  Running(a)
<1>1. WaitsFor(a) = NoTask
  BY DEF WaitsFor, WaitPcs, FinalPcs
<1>2. ASSUME a \in Tasks PROVE StatusOf(a) \in {"started", "resolved"}
  <2>1. started[a] /\ pc[a] \notin {"none", "destroyed", "final"}
    BY <1>2 DEF IInv, StartedInv, FinalPcs
  <2> QED
    BY <1>2, <2>1, StatusFacts
<1> QED
  BY <1>1, <1>2 DEF Running

-----------------------------------------------------------------------------
(* Refinement of ForkJoin: the actions of CoroTask.                        *)

\* Calling the coroutine function creates the task.
LEMMA CreateRefines ==
  ASSUME IInv, NEW a \in Actors, NEW t \in Tasks, Create(a, t)
  PROVE  Join!Create(t)
<1>1. /\ Owner[t] = a /\ pc[a] = "body" /\ pc[t] = "none" /\ pc' = [pc EXCEPT ![t] = "initial"]
      /\ UNCHANGED <<tgt, started, result>>
  BY DEF Create, InScope, At, Goto
<1>2. Running(Owner[t])
  BY <1>1, BodyRuns
<1>3. StatusOf(t) = "unborn" /\ ~started[t]
  BY <1>1, StatusFacts DEF IInv, StartedInv
<1>4. pc'[t] = "initial" /\ ~started'[t] /\ \A b \in Actors \ {t} : pc'[b] = pc[b]
  BY <1>1, <1>3 DEF IInv, TypeOK, Actors
<1>5. StatusOf(t)' = "created"
  BY <1>4, StatusFactsAfter
<1>6. OthersKeepStatus(t)
  BY <1>1, <1>4, SameStatus DEF OthersKeepStatus, Ready, Actors
<1>7. WaitsKept
  BY <1>1, <1>4 DEF WaitsKept, WaitsFor, WaitPcs
<1> QED
  BY <1>1, <1>2, <1>3, <1>5, <1>6, <1>7, JoinCreates

\* A task that was not started is at its beginning, without a result.
LEMMA Unstarted ==
  ASSUME IInv, NEW t \in Tasks, Live(t)
  PROVE  /\ ~started[t] => pc[t] = "initial" /\ ~Ready(t) /\ StatusOf(t) = "created"
         /\ started[t] => /\ StatusOf(t) \in {"started", "resolved", "finished"}
                          /\ Ready(t) => StatusOf(t) \in {"resolved", "finished"}
<1>1. ~started[t] => pc[t] = "initial" /\ ~Ready(t)
  BY DEF IInv, StartedInv, ResultInv, Live
<1> QED
  BY <1>1, StatusFacts DEF Live

\* start() on a task that was not started.
LEMMA StartRefines ==
  ASSUME IInv, NEW a \in Actors, NEW t \in Tasks, Start(a, t)
  PROVE  Join!Start(t)
<1>1. /\ Owner[t] = a /\ pc[a] = "body" /\ Live(t) /\ ~started[t]
      /\ started' = [started EXCEPT ![t] = TRUE]
      /\ UNCHANGED <<pc, tgt, result>>
  BY DEF Start, InScope, At, Holds, StartTask
<1>2. Running(Owner[t])
  BY <1>1, BodyRuns
<1>3. StatusOf(t) = "created" /\ pc'[t] = "initial" /\ ~Ready(t)'
  BY <1>1, Unstarted DEF Ready
<1>4. started'[t] /\ \A u \in Tasks \ {t} : started'[u] = started[u]
  BY <1>1 DEF IInv, TypeOK
<1>5. StatusOf(t)' = "started"
  BY <1>3, <1>4, StatusFactsAfter
<1>6. OthersKeepStatus(t)
  BY <1>1, <1>4, SameStatus DEF OthersKeepStatus, Ready
<1>7. WaitsKept
  BY <1>1 DEF WaitsKept, WaitsFor
<1> QED
  BY <1>1, <1>2, <1>3, <1>5, <1>6, <1>7, JoinStarts

\* co_await and get() start the task and wait for it.
LEMMA WaitRefines ==
  ASSUME IInv, NEW a \in Actors, NEW t \in Tasks, CoAwait(a, t) \/ Get(a, t)
  PROVE  Join!Wait(t)
<1>1. /\ Owner[t] = a /\ pc[a] = "body" /\ Live(t) /\ tgt' = [tgt EXCEPT ![a] = t]
      /\ UNCHANGED result
      /\ \E p \in {"awresume", "awload", "getwait"} : pc' = [pc EXCEPT ![a] = p]
  BY DEF CoAwait, Get, InScope, At, Holds, Goto
<1>2. started' = [started EXCEPT ![t] = TRUE]
  <2>1. Ready(t) => started[t]
    BY DEF IInv, ResultInv
  <2>2. started' = [started EXCEPT ![t] = TRUE] \/ (Ready(t) /\ started' = started)
    BY DEF CoAwait, Get, StartTask
  <2> QED
    BY <2>1, <2>2 DEF IInv, TypeOK
<1>3. Running(Owner[t])
  BY <1>1, BodyRuns
<1>4. a # t
  BY <1>1, OwnerAssumption
<1>5. PICK p \in {"awresume", "awload", "getwait"} : pc' = [pc EXCEPT ![a] = p]
  BY <1>1
<1>6. /\ pc'[a] = p /\ \A b \in Actors \ {a} : pc'[b] = pc[b] /\ tgt'[b] = tgt[b]
      /\ tgt'[a] = t
      /\ started'[t] /\ \A u \in Tasks \ {t} : started'[u] = started[u]
  BY <1>1, <1>2, <1>5 DEF IInv, TypeOK
<1>7. StatusOf(t)' = IF StatusOf(t) = "created" THEN "started" ELSE StatusOf(t)
  <2>1. pc'[t] = pc[t] /\ (Ready(t)' <=> Ready(t))
    BY <1>1, <1>4, <1>6 DEF Ready, Actors
  <2>2. CASE started[t]
    BY <1>1, <1>6, <2>1, <2>2, SameStatus, Unstarted DEF IInv, TypeOK
  <2>3. CASE ~started[t]
    <3>1. pc[t] = "initial" /\ ~Ready(t) /\ StatusOf(t) = "created"
      BY <1>1, <2>3, Unstarted
    <3> QED
      BY <1>6, <2>1, <3>1, StatusFactsAfter
  <2> QED
    BY <2>2, <2>3
<1>8. ASSUME NEW u \in Tasks \ {t} PROVE StatusOf(u)' = StatusOf(u)
  <2>1. pc'[u] = pc[u] \/ {pc[u], pc'[u]} \intersect {"none", "destroyed", "final"} = {}
    BY <1>1, <1>6 DEF Actors
  <2> QED
    BY <1>1, <1>6, <2>1, SameStatus DEF Ready
<1>9. WaitsFor(Owner[t])' = t /\ OthersKeepWaiting(Owner[t])
  BY <1>1, <1>6 DEF WaitsFor, OthersKeepWaiting, WaitPcs
<1>10. StatusOf(t) \in {"created", "started", "resolved", "finished"}
  BY <1>1, Unstarted
<1> QED
  BY <1>1, <1>3, <1>7, <1>8, <1>9, <1>10, JoinWaits DEF OthersKeepStatus

\* await_resume and the end of the wait in get() find the result.
LEMMA WakeRefines ==
  ASSUME IInv, NEW a \in Actors, AwaitResume(a) \/ GetReturn(a)
  PROVE  Join!Wake(a)
<1>1. /\ pc[a] \in {"awresume", "getwait"} /\ Ready(tgt[a]) /\ pc' = [pc EXCEPT ![a] = "body"]
      /\ UNCHANGED <<tgt, started, result>>
  BY DEF AwaitResume, GetReturn, At, Goto
<1>2. tgt[a] \in Tasks /\ Live(tgt[a]) /\ started[tgt[a]]
  BY <1>1 DEF IInv, OpsInv, OpPcs
<1>3. WaitsFor(a) = tgt[a]
  BY <1>1 DEF WaitsFor, WaitPcs
<1>4. StatusOf(tgt[a]) \in {"resolved", "finished"}
  BY <1>1, <1>2, Unstarted
<1>5. pc'[a] = "body" /\ \A b \in Actors \ {a} : pc'[b] = pc[b]
  BY <1>1 DEF IInv, TypeOK
<1>6. WaitsFor(a)' = NoTask /\ OthersKeepWaiting(a)
  BY <1>1, <1>5 DEF WaitsFor, OthersKeepWaiting, WaitPcs
<1>7. ASSUME NEW u \in Tasks PROVE StatusOf(u)' = StatusOf(u)
  <2>1. pc'[u] = pc[u] \/ {pc[u], pc'[u]} \intersect {"none", "destroyed", "final"} = {}
    BY <1>1, <1>5 DEF Actors
  <2> QED
    BY <1>1, <2>1, SameStatus DEF Ready
<1> QED
  BY <1>2, <1>3, <1>4, <1>6, <1>7, JoinWakes DEF StatusKept

\* A frame whose owner's body runs is destroyed.
LEMMA FrameDestroyed ==
  ASSUME IInv, NEW a \in Actors, NEW t \in Tasks, Owner[t] = a, pc[a] \in {"body", "dtor"},
         StatusOf(t) \in {"created", "finished"},
         pc' = [pc EXCEPT ![t] = "destroyed", ![a] = "body"],
         UNCHANGED <<tgt, started, result>>
  PROVE  Join!Destroy(t)
<1>1. a # t
  BY OwnerAssumption
<1>2. /\ pc'[t] = "destroyed" /\ pc'[a] = "body"
      /\ \A b \in Actors \ {a, t} : pc'[b] = pc[b]
  BY <1>1 DEF IInv, TypeOK, Actors
<1>3. Running(Owner[t])
  BY BodyRuns
<1>4. StatusOf(t)' = "destroyed"
  BY <1>2, StatusFactsAfter
<1>5. ASSUME NEW u \in Tasks \ {t} PROVE StatusOf(u)' = StatusOf(u)
  <2>1. pc'[u] = pc[u] \/ {pc[u], pc'[u]} \intersect {"none", "destroyed", "final"} = {}
    BY <1>2 DEF Actors
  <2> QED
    BY <2>1, SameStatus DEF Ready
<1>6. WaitsFor(t) = NoTask
  <2>1. ASSUME pc[t] \in WaitPcs PROVE FALSE
    <3>1. StatusOf(t) \in {"started", "resolved"}
      BY <2>1, StatusFacts DEF IInv, StartedInv, WaitPcs
    <3> QED
      BY <3>1
  <2> QED
    BY <2>1 DEF WaitsFor
<1>7. WaitsKept
  BY <1>2, <1>6 DEF WaitsKept, WaitsFor, WaitPcs
<1> QED
  BY <1>3, <1>4, <1>5, <1>7, JoinDestroys DEF OthersKeepStatus

\* ~coro_task() destroys the frame at once, or begins to spin.
LEMMA DropRefines ==
  ASSUME IInv, NEW a \in Actors, NEW t \in Tasks, Drop(a, t)
  PROVE  Join!Destroy(t) \/ (StatusKept /\ WaitsKept)
<1>1. /\ Owner[t] = a /\ pc[a] = "body" /\ Live(t) /\ a # t
      /\ UNCHANGED <<started, result>>
  BY OwnerAssumption DEF Drop, At, Holds
<1>2. CASE started[t]
  <2>1. pc' = [pc EXCEPT ![a] = "dtor"] /\ tgt' = [tgt EXCEPT ![a] = t]
    BY <1>2 DEF Drop
  <2>2. pc'[a] = "dtor" /\ \A b \in Actors \ {a} : pc'[b] = pc[b] /\ tgt'[b] = tgt[b]
    BY <2>1 DEF IInv, TypeOK
  <2>3. ASSUME NEW u \in Tasks PROVE StatusOf(u)' = StatusOf(u)
    <3>1. pc'[u] = pc[u] \/ {pc[u], pc'[u]} \intersect {"none", "destroyed", "final"} = {}
      BY <1>1, <2>2 DEF Actors
    <3> QED
      BY <1>1, <3>1, SameStatus DEF Ready
  <2>4. WaitsKept
    BY <1>1, <2>2 DEF WaitsKept, WaitsFor, WaitPcs
  <2> QED
    BY <2>3, <2>4 DEF StatusKept
<1>3. CASE ~started[t]
  <2>1. pc' = [pc EXCEPT ![t] = "destroyed"] /\ UNCHANGED tgt
    BY <1>3 DEF Drop
  <2>2. pc' = [pc EXCEPT ![t] = "destroyed", ![a] = "body"]
    BY <1>1, <2>1 DEF IInv, TypeOK
  <2>3. StatusOf(t) = "created"
    BY <1>1, <1>3, Unstarted
  <2> QED
    BY <1>1, <2>1, <2>2, <2>3, FrameDestroyed
<1> QED
  BY <1>2, <1>3

\* The spin ends on a task that has finished.
LEMMA DtorRefines ==
  ASSUME IInv, NEW a \in Actors, DtorSpin(a)
  PROVE  \E t \in Tasks : Join!Destroy(t)
<1>1. /\ pc[a] = "dtor" /\ finalReached[tgt[a]]
      /\ pc' = [pc EXCEPT ![tgt[a]] = "destroyed", ![a] = "body"]
      /\ UNCHANGED <<tgt, started, result>>
  BY DEF DtorSpin, At
<1>2. tgt[a] \in Tasks /\ Owner[tgt[a]] = a /\ Live(tgt[a])
  BY <1>1 DEF IInv, OpsInv, OpPcs
<1>3. StatusOf(tgt[a]) = "finished"
  BY <1>1, <1>2, StatusFacts DEF IInv, FinalInv, Live
<1>4. Join!Destroy(tgt[a])
  BY <1>1, <1>2, <1>3, FrameDestroyed
<1> QED
  BY <1>2, <1>4

\* A result is stored: by return_value, or by unhandled_exception for a body that threw.
LEMMA ResolveRefines ==
  ASSUME IInv, NEW a \in Actors, Return(a) \/ FinalSuspend(a)
  PROVE  Join!Resolve(a) \/ (StatusKept /\ WaitsKept)
<1>1. /\ a \in Tasks /\ pc[a] = "body" /\ UNCHANGED <<tgt, started>>
      /\ pc' = pc \/ pc' = [pc EXCEPT ![a] = "finload"]
      /\ \/ result' = result
         \/ \E r \in {"value", "exception"} : result' = [result EXCEPT ![a] = r]
  BY DEF Return, FinalSuspend, InScope, At, Goto
<1>2. /\ pc'[a] \in {"body", "finload"} /\ \A b \in Actors \ {a} : pc'[b] = pc[b]
      /\ \A u \in Tasks \ {a} : result'[u] = result[u]
      /\ Ready(a)' <=> Ready(a) \/ result' # result
  BY <1>1 DEF IInv, TypeOK, Ready
<1>3. started[a]
  BY <1>1 DEF IInv, StartedInv
<1>4. OthersKeepStatus(a)
  BY <1>1, <1>2, SameStatus DEF OthersKeepStatus, Ready, Actors
<1>5. WaitsKept
  BY <1>1, <1>2 DEF WaitsKept, WaitsFor, WaitPcs
<1>6. CASE Ready(a)' <=> Ready(a)
  <2>1. StatusOf(a)' = StatusOf(a)
    BY <1>1, <1>2, <1>6, SameStatus
  <2> QED
    BY <1>4, <1>5, <2>1 DEF OthersKeepStatus, StatusKept
<1>7. CASE ~(Ready(a)' <=> Ready(a))
  <2>1. ~Ready(a) /\ Ready(a)'
    BY <1>2, <1>7
  <2>2. StatusOf(a) = "started"
    BY <1>1, <1>3, <2>1, StatusFacts
  <2>3. StatusOf(a)' = "resolved"
    BY <1>1, <1>2, <1>3, <2>1, StatusFactsAfter
  <2> QED
    BY <1>1, <1>4, <1>5, <2>2, <2>3, BodyRuns, JoinResolves
<1> QED
  BY <1>6, <1>7

\* A task that publishes final_suspend_reached has a result and holds no frame; whoever
\* awaited it is resumed, and still waits for the result until await_resume.
LEMMA FinishRefines ==
  ASSUME IInv, NEW a \in Actors, PublishFinal(a)
  PROVE  Join!Finish(a)
<1>1. /\ pc[a] = "finstore" /\ UNCHANGED <<tgt, started, result>>
      /\ pc' = [b \in Actors |-> IF b = a THEN "final"
                                 ELSE IF b = tgt[a] THEN ResumePoint(b) ELSE pc[b]]
  BY DEF PublishFinal, At
<1>2. a \in Tasks
  BY <1>1 DEF IInv, TypeOK, Actors, ThreadPcs
<1>3. Ready(a) /\ started[a]
  BY <1>1, <1>2 DEF IInv, HandInv, FinalPcs, ResultInv
<1>4. pc'[a] = "final"
  BY <1>1
<1>5. ASSUME NEW b \in Actors \ {a}
      PROVE  pc'[b] = pc[b] \/ (pc[b] = "awaiting" /\ pc'[b] = "awresume")
  <2>1. CASE b = tgt[a]
    <3>1. b # NoTask
      BY NamesAssumption
    <3>2. pc[b] = "awaiting"
      BY <1>1, <1>2, <2>1, <3>1 DEF IInv, HandInv, AwaitedBySuspendedOwner
    <3> QED
      BY <1>1, <2>1, <3>2 DEF ResumePoint
  <2> QED
    BY <1>1, <2>1
<1>6. \A c \in Tasks : Owner[c] = a => StatusOf(c) \in {"unborn", "destroyed"}
  <2>1. ASSUME NEW c \in Tasks, Owner[c] = a PROVE ~Live(c)
    BY <1>1, <2>1 DEF IInv, TreeInv, OpPcs
  <2> QED
    BY <2>1, StatusFacts DEF Live
<1>7. StatusOf(a) = "resolved" /\ StatusOf(a)' = "finished"
  BY <1>1, <1>2, <1>3, <1>4, StatusFacts, StatusFactsAfter
<1>8. ASSUME NEW u \in Tasks \ {a} PROVE StatusOf(u)' = StatusOf(u)
  <2>1. pc'[u] = pc[u] \/ {pc[u], pc'[u]} \intersect {"none", "destroyed", "final"} = {}
    BY <1>5 DEF Actors
  <2> QED
    BY <1>1, <2>1, SameStatus DEF Ready
<1>9. WaitsKept
  BY <1>1, <1>4, <1>5 DEF WaitsKept, WaitsFor, WaitPcs
<1>10. Running(a)
  BY <1>1, BodyRuns DEF FinalPcs
<1> QED
  BY <1>2, <1>6, <1>7, <1>8, <1>9, <1>10, JoinFinishes DEF OthersKeepStatus

\* The atomic operations of the handoff, the scheduler and the end of a thread are inside a
\* wait, or between two operations of a body.
LEMMA QuietSteps ==
  ASSUME IInv,
         \/ \E a \in Actors : \/ SetContinuationLoad(a) \/ SetContinuation(a) \/ Yield(a)
                              \/ Throw(a) \/ SetReadyLoad(a) \/ SetReady(a)
                              \/ GetContinuation(a) \/ ThreadExit(a)
         \/ \E w \in Workers, u \in Tasks : Take(w, u)
         \/ UNCHANGED vars
  PROVE  StatusKept /\ WaitsKept
<1> DEFINE MovesWithinLife(a) ==
             /\ {pc[a], pc'[a]} \intersect {"none", "destroyed", "final"} = {}
             /\ pc'[a] \in WaitPcs <=> pc[a] \in WaitPcs
           Ends(a) == a \in Threads /\ pc[a] = "body" /\ pc'[a] = "done"
           Quiet == /\ UNCHANGED <<started, result>>
                    /\ \A a \in Actors : pc[a] \in WaitPcs => tgt'[a] = tgt[a]
                    /\ \A a \in Actors : pc'[a] = pc[a] \/ MovesWithinLife(a) \/ Ends(a)
<1>1. Quiet
  <2> USE DEF IInv, TypeOK, WaitPcs, Actors
  <2>1. ASSUME NEW a \in Actors, SetContinuationLoad(a) PROVE Quiet
    BY <2>1 DEF SetContinuationLoad, At, Goto
  <2>2. ASSUME NEW a \in Actors, SetContinuation(a) PROVE Quiet
    BY <2>2 DEF SetContinuation, At, Goto
  <2>3. ASSUME NEW a \in Actors, Yield(a) PROVE Quiet
    BY <2>3 DEF Yield, InScope, At, Goto
  <2>4. ASSUME NEW a \in Actors, Throw(a) PROVE Quiet
    BY <2>4 DEF Throw
  <2>5. ASSUME NEW a \in Actors, SetReadyLoad(a) PROVE Quiet
    BY <2>5 DEF SetReadyLoad, At, Goto
  <2>6. ASSUME NEW a \in Actors, SetReady(a) PROVE Quiet
    BY <2>6 DEF SetReady, At, Goto
  <2>7. ASSUME NEW a \in Actors, GetContinuation(a) PROVE Quiet
    BY <2>7 DEF GetContinuation, At, Goto
  <2>8. ASSUME NEW a \in Actors, ThreadExit(a) PROVE Quiet
    BY <2>8 DEF ThreadExit, Goto
  <2>9. ASSUME NEW w \in Workers, NEW u \in Tasks, Take(w, u) PROVE Quiet
    <3>1. pc[u] \in {"initial", "yielded"}
      BY <2>9 DEF QueueInv, Take
    <3> QED
      BY <2>9, <3>1 DEF Take, Goto, ResumePoint
  <2>10. ASSUME UNCHANGED vars PROVE Quiet
    BY <2>10 DEF vars
  <2> QED
    BY <2>1, <2>2, <2>3, <2>4, <2>5, <2>6, <2>7, <2>8, <2>9, <2>10
<1>2. ASSUME NEW t \in Tasks PROVE StatusOf(t)' = StatusOf(t)
  <2>1. pc'[t] = pc[t] \/ {pc[t], pc'[t]} \intersect {"none", "destroyed", "final"} = {}
    BY <1>1, NamesAssumption DEF Actors
  <2> QED
    BY <1>1, <2>1, SameStatus DEF Ready
<1>3. WaitsKept
  <2>1. ASSUME NEW a \in Actors PROVE WaitsFor(a)' = WaitsFor(a)
    BY <1>1 DEF WaitsFor, WaitPcs
  <2> QED
    BY <2>1 DEF WaitsKept
<1> QED
  BY <1>2, <1>3 DEF StatusKept

\* Before anything is created, nothing is waited for.
LEMMA JoinInit == Init => Join!Init
<1> SUFFICES ASSUME Init PROVE Join!Init
  OBVIOUS
<1>1. ASSUME NEW t \in Tasks PROVE StatusOf(t) = "unborn"
  BY StatusFacts DEF Init, Actors
<1>2. ASSUME NEW a \in Actors PROVE pc[a] \notin WaitPcs
  BY DEF Init, WaitPcs
<1> QED
  BY <1>1, <1>2 DEF Join!Init, Join!Actors, Actors

\* Every step is a step of ForkJoin or invisible in it: a waiter goes on only after the task
\* it waits for has a result, and a started task is destroyed only after it has finished.
THEOREM ForkJoinRefined == Spec => ImplementsForkJoin
<1> DEFINE statuses == [t \in Tasks |-> StatusOf(t)]
           waiting == [a \in Actors |-> IF pc[a] \in WaitPcs THEN tgt[a] ELSE NoTask]
<1>1. ASSUME IInv, [Next]_vars PROVE [Join!Next]_<<statuses, waiting>>
  <2> SUFFICES Join!Next \/ (StatusKept /\ WaitsKept)
    BY SameStatuses, SameWaits
  <2>1. ASSUME NEW a \in Actors, NEW t \in Tasks,
               Create(a, t) \/ Start(a, t) \/ CoAwait(a, t) \/ Get(a, t) \/ Drop(a, t)
        PROVE  Join!Next \/ (StatusKept /\ WaitsKept)
    BY <1>1, <2>1, CreateRefines, StartRefines, WaitRefines, DropRefines DEF Join!Next
  <2>2. ASSUME NEW a \in Actors,
               \/ AwaitResume(a) \/ GetReturn(a) \/ DtorSpin(a) \/ Return(a)
               \/ FinalSuspend(a) \/ PublishFinal(a)
        PROVE  Join!Next \/ (StatusKept /\ WaitsKept)
    <3>1. Return(a) \/ FinalSuspend(a) \/ PublishFinal(a) => a \in Tasks
      BY <1>1 DEF Return, FinalSuspend, PublishFinal, At, IInv, TypeOK, ThreadPcs, Actors
    <3>2. a \in Join!Actors
      BY DEF Join!Actors, Actors
    <3> QED
      BY <1>1, <2>2, <3>1, <3>2, WakeRefines, DtorRefines, ResolveRefines, FinishRefines
         DEF Join!Next
  <2>3. \/ \E a \in Actors, t \in Tasks : \/ Create(a, t) \/ Start(a, t) \/ CoAwait(a, t)
                                          \/ Get(a, t) \/ Drop(a, t)
        \/ \E a \in Actors : \/ AwaitResume(a) \/ GetReturn(a) \/ DtorSpin(a) \/ Return(a)
                             \/ FinalSuspend(a) \/ PublishFinal(a)
        \/ \E a \in Actors : \/ SetContinuationLoad(a) \/ SetContinuation(a) \/ Yield(a)
                             \/ Throw(a) \/ SetReadyLoad(a) \/ SetReady(a)
                             \/ GetContinuation(a) \/ ThreadExit(a)
        \/ \E w \in Workers, u \in Tasks : Take(w, u)
        \/ UNCHANGED vars
    <3>1. CASE Terminated \/ UNCHANGED vars
      BY <3>1 DEF Terminated
    <3>2. CASE \E a \in Actors : Step(a)
      BY <3>2 DEF Step, Leave
    <3>3. CASE \E w \in Workers, u \in Tasks : Take(w, u)
      BY <3>3
    <3> QED
      BY <1>1, <3>1, <3>2, <3>3 DEF Next
  <2> QED
    BY <1>1, <2>1, <2>2, <2>3, QuietSteps
<1> QED
  BY <1>1, Invariance, JoinInit, PTL DEF Spec, ImplementsForkJoin, Join!Spec, Join!vars
=============================================================================
