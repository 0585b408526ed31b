--------------------------- MODULE Runtime_proofs ---------------------------
(***************************************************************************)
(* What MCRuntime checks of the parts of the runtime, for any coroutines,  *)
(* workers, cancellers, rings' users and bounds: the awaits of the thread  *)
(* pool, the operations of io_uring, and the batches of add_batch_task.    *)
(***************************************************************************)
EXTENDS MCRuntime, SequenceTheorems, WellFoundedInduction, TLAPS

\* The quotient of C's division, which std::size_t rounds down.
LEMMA DivBounds ==
  ASSUME NEW a \in Nat, NEW b \in Nat \ {0}
  PROVE  /\ a \div b \in Nat
         /\ b * (a \div b) <= a
         /\ a < b * (a \div b) + b
<1>1. a \div b \in Nat
  BY SMT
<1>2. a = b * (a \div b) + (a % b) /\ 0 <= a % b /\ a % b < b
  BY SMT
<1> QED
  BY <1>1, <1>2, SMT

\* The size of a batch is a number of items by which add_batch_task can divide.
LEMMA BatchSizeType ==
  ASSUME NEW in \in BatchInput
  PROVE  BatchSize(in) \in Nat \ {0} /\ FullBatches(in) \in Nat
<1>1. Share(in) \in Nat
  <2>1. in.items + in.threads - 1 \in Nat /\ in.threads \in Nat \ {0}
    BY SMT DEF BatchInput
  <2> QED
    BY <2>1, DivBounds DEF Share
<1>2. Share(in) * in.itemSize \in Nat /\ in.line \in Nat \ {0}
  BY <1>1, SMT DEF BatchInput
<1>3. (Share(in) * in.itemSize) \div in.line \in Nat
  BY <1>2, DivBounds
<1>4. BatchSize(in) \in Nat \ {0}
  BY <1>3, SMT DEF BatchSize
<1>5. in.items \in Nat
  BY DEF BatchInput
<1> QED
  BY <1>4, <1>5, DivBounds DEF FullBatches

\* A batch that comes later does not begin, or stop, earlier.
LEMMA Multiples ==
  ASSUME NEW s \in Nat, NEW i \in Int, NEW j \in Int, i <= j
  PROVE  i * s <= j * s
  BY SMT

\* add_batch_task hands every item to one call of add_task, for every number of items and
\* threads, every size of an item and of a cache line.
THEOREM BatchesPartition == \A in \in BatchInput : EachItemOnce(in)
<1> SUFFICES ASSUME NEW in \in BatchInput, NEW x \in 0 .. in.items - 1
             PROVE  \E i \in DOMAIN Batches(in) :
                      /\ Holds(Batches(in)[i], x)
                      /\ \A j \in DOMAIN Batches(in) : Holds(Batches(in)[j], x) => j = i
  BY DEF EachItemOnce
<1> DEFINE s == BatchSize(in)
           n == FullBatches(in)
<1>t. in.items \in Nat /\ s \in Nat \ {0} /\ n \in Nat
  BY BatchSizeType DEF BatchInput
<1>1. CASE Unsplit(in)
  <2>1. Batches(in) = [i \in {1} |-> [first |-> 0, stop |-> in.items]]
    BY <1>1 DEF Batches
  <2> QED
    BY <2>1, <1>t, SMT DEF Holds
<1>2. CASE ~Unsplit(in)
  <2>d. DOMAIN Batches(in) = 1 .. n + 1
    BY <1>2 DEF Batches
  <2>b. \A i \in 1 .. n + 1 :
          /\ Batches(in)[i].first = (i - 1) * s
          /\ Batches(in)[i].stop = IF i <= n THEN i * s ELSE in.items
    BY <1>2 DEF Batches
  <2> DEFINE k == x \div s
  <2> HIDE DEF s, n
  <2>k. k \in Nat /\ s * k <= x /\ x < s * k + s
    BY <1>t, DivBounds, SMT
  <2>n. s * n <= in.items /\ in.items < s * n + s
    BY <1>t, DivBounds DEF s, n, FullBatches
  <2> HIDE DEF k
  <2>1. k <= n
    <3>1. SUFFICES ASSUME n + 1 <= k PROVE FALSE
      BY <1>t, <2>k, SMT
    <3>2. (n + 1) * s <= k * s
      BY <3>1, <1>t, <2>k, Multiples
    <3> QED
      BY <3>2, <1>t, <2>k, <2>n, SMT
  <2>2. Holds(Batches(in)[k + 1], x)
    <3>1. k + 1 \in 1 .. n + 1 /\ Batches(in)[k + 1].first = k * s
      BY <2>1, <2>b, <2>k, <1>t, SMT
    <3>2. x < Batches(in)[k + 1].stop
      <4>1. CASE k + 1 <= n
        <5>1. Batches(in)[k + 1].stop = (k + 1) * s
          BY <4>1, <3>1, <2>b
        <5> QED
          BY <5>1, <2>k, <1>t, SMT
      <4>2. CASE ~(k + 1 <= n)
        <5>1. Batches(in)[k + 1].stop = in.items
          BY <4>2, <3>1, <2>b
        <5> QED
          BY <5>1, <1>t, SMT
      <4> QED
        BY <4>1, <4>2
    <3> QED
      BY <3>1, <3>2, <2>k, <1>t, SMT DEF Holds
  <2>3. ASSUME NEW j \in 1 .. n + 1, Holds(Batches(in)[j], x)
        PROVE  j = k + 1
    <3>1. (j - 1) * s <= x
      BY <2>3, <2>b DEF Holds
    <3>2. j <= k + 1
      <4>1. SUFFICES ASSUME k + 1 <= j - 1 PROVE FALSE
        BY <2>k, <1>t, SMT
      <4>2. (k + 1) * s <= (j - 1) * s
        BY <4>1, <2>k, <1>t, Multiples
      <4>3. (k + 1) * s = s * k + s
        BY <2>k, <1>t, SMT
      <4> QED
        BY <3>1, <4>2, <4>3, <2>k, <1>t, SMT
    <3>3. k + 1 <= j
      <4>1. SUFFICES ASSUME j <= k PROVE FALSE
        BY <2>k, <1>t, SMT
      <4>2. Batches(in)[j].stop = j * s
        BY <4>1, <2>1, <2>b, <2>k, <1>t, SMT
      <4>3. x < j * s
        BY <2>3, <4>2 DEF Holds
      <4>4. j * s <= k * s
        BY <4>1, <2>k, <1>t, Multiples
      <4> QED
        BY <4>3, <4>4, <2>k, <1>t, SMT
    <3> QED
      BY <3>2, <3>3, <2>k, <1>t, SMT
  <2>4. k + 1 \in 1 .. n + 1
    BY <2>1, <2>k, <1>t, SMT
  <2> QED
    BY <2>2, <2>3, <2>4, <2>d
<1> QED
  BY <1>1, <1>2

\* ... and no call gets an iterator outside the range.
THEOREM BatchesStayInRange == \A in \in BatchInput : BatchesInRange(in)
<1> SUFFICES ASSUME NEW in \in BatchInput, NEW i \in DOMAIN Batches(in)
             PROVE  /\ 0 <= Batches(in)[i].first
                    /\ Batches(in)[i].first <= Batches(in)[i].stop
                    /\ Batches(in)[i].stop <= in.items
  BY DEF BatchesInRange
<1> DEFINE s == BatchSize(in)
           n == FullBatches(in)
<1>t. in.items \in Nat /\ s \in Nat \ {0} /\ n \in Nat
  BY BatchSizeType DEF BatchInput
<1>1. CASE Unsplit(in)
  <2>1. Batches(in) = [k \in {1} |-> [first |-> 0, stop |-> in.items]]
    BY <1>1 DEF Batches
  <2> QED
    BY <2>1, <1>t, SMT
<1>2. CASE ~Unsplit(in)
  <2>d. i \in 1 .. n + 1
    BY <1>2 DEF Batches
  <2>b. /\ Batches(in)[i].first = (i - 1) * s
        /\ Batches(in)[i].stop = IF i <= n THEN i * s ELSE in.items
    BY <1>2 DEF Batches
  <2>n. s * n <= in.items
    BY <1>t, DivBounds DEF FullBatches
  <2> HIDE DEF s, n
  <2>1. 0 * s <= (i - 1) * s /\ (i - 1) * s <= n * s
    BY <2>d, <1>t, Multiples, SMT
  <2>z. 0 * s = 0 /\ n * s = s * n
    BY <1>t, SMT
  <2>f. 0 <= Batches(in)[i].first
    BY <2>1, <2>z, <2>b
  <2>2. CASE i <= n
    <3>1. (i - 1) * s <= i * s /\ i * s <= n * s
      BY <2>2, <2>d, <1>t, Multiples, SMT
    <3>2. Batches(in)[i].stop = i * s
      BY <2>2, <2>b
    <3>3. i * s \in Int /\ n * s \in Int
      BY <2>d, <1>t, SMT
    <3>4. i * s <= in.items
      BY <3>1, <3>3, <2>z, <2>n, <1>t, SMT
    <3> QED
      BY <3>1, <3>2, <3>4, <2>f, <2>b
  <2>3. CASE ~(i <= n)
    <3>1. Batches(in)[i].stop = in.items
      BY <2>3, <2>b
    <3>2. (i - 1) * s \in Int /\ n * s \in Int
      BY <2>d, <1>t, SMT
    <3>3. (i - 1) * s <= in.items
      BY <2>1, <3>2, <2>z, <2>n, <1>t, SMT
    <3>4. in.items <= in.items
      BY <1>t, SMT
    <3> QED
      BY <3>1, <3>3, <3>4, <2>f, <2>b
  <2> QED
    BY <2>2, <2>3
<1> QED
  BY <1>1, <1>2
-----------------------------------------------------------------------------
(* The pool: its choice of a worker, and where a job is.                   *)

\* A set of numbers has a least one.
LEMMA LeastNumber ==
  ASSUME NEW S \in SUBSET Nat, S # {}
  PROVE  \E x \in S : \A y \in S : x <= y
<1>1. PICK x \in S : \A y \in S : ~(<<y, x>> \in OpToRel(<, Nat))
  BY NatLessThanWellFounded, WFMin
<1>2. \A y \in S : x <= y
  <2> TAKE y \in S
  <2>1. ~(y < x)
    BY <1>1 DEF OpToRel
  <2> QED
    BY <2>1
<1> QED
  BY <1>2

\* add_task and schedule_task choose one of the workers, whatever the time.
LEMMA ChosenIsWorker ==
  ASSUME PoolTypeOK, NEW t \in Nat
  PROVE  Chosen(t) \in PoolWorkers
<1> DEFINE free == {w \in PoolWorkers : t >= availableAt[w]}
           soonest == {w \in PoolWorkers :
                         \A v \in PoolWorkers : availableAt[w] <= availableAt[v]}
           among == IF free # {} THEN free ELSE soonest
<1>1. soonest # {}
  <2> DEFINE times == {availableAt[w] : w \in PoolWorkers}
  <2>1. \A w \in PoolWorkers : availableAt[w] \in Nat
    BY MaxTimeAssumption DEF PoolTypeOK
  <2>2. times \in SUBSET Nat
    BY <2>1
  <2>3. 1 \in PoolWorkers
    BY PoolSizeAssumption DEF PoolWorkers
  <2>4. times # {}
    BY <2>3
  <2> HIDE DEF times
  <2>5. PICK x \in times : \A y \in times : x <= y
    BY <2>2, <2>4, LeastNumber
  <2> USE DEF times
  <2>6. PICK w \in PoolWorkers : x = availableAt[w]
    BY <2>5
  <2>7. w \in soonest
    BY <2>5, <2>6
  <2> QED
    BY <2>7
<1>2. among # {} /\ among \in SUBSET PoolWorkers
  BY <1>1
<1>3. among \in SUBSET Nat
  BY <1>2, PoolSizeAssumption DEF PoolWorkers
<1>4. Chosen(t) = CHOOSE w \in among : \A v \in among : w <= v
  BY DEF Chosen
<1> HIDE DEF among
<1>5. \E w \in among : \A v \in among : w <= v
  BY <1>2, <1>3, LeastNumber
<1>6. Chosen(t) \in among
  BY <1>4, <1>5
<1> QED
  BY <1>2, <1>6

\* What Append and Tail do to a queue.
LEMMA AppendAt ==
  ASSUME NEW S, NEW s \in Seq(S), NEW x \in S
  PROVE  /\ Append(s, x) \in Seq(S)
         /\ DOMAIN s = 1 .. Len(s) /\ Len(s) \in Nat
         /\ DOMAIN Append(s, x) = 1 .. Len(s) + 1
         /\ \A i \in 1 .. Len(s) : Append(s, x)[i] = s[i]
         /\ Append(s, x)[Len(s) + 1] = x
  BY SMT

\* Tail moves every element one place to the front.
LEMMA TailAt ==
  ASSUME NEW S, NEW s \in Seq(S), s # <<>>
  PROVE  /\ Tail(s) \in Seq(S)
         /\ DOMAIN s = 1 .. Len(s) /\ Len(s) \in Nat \ {0}
         /\ Head(s) = s[1] /\ Head(s) \in S
         /\ DOMAIN Tail(s) = 1 .. Len(s) - 1
         /\ \A i \in 1 .. Len(s) - 1 : Tail(s)[i] = s[i + 1]
  BY SMT

\* A worker that runs no job holds none.
PoolInv ==
  /\ queue \in [PoolWorkers -> Seq(Jobs)]
  /\ startedAt \in [PoolWorkers -> 0 .. now]
  /\ \A w \in PoolWorkers : wpc[w] # "run" => job[w] = NoJob

InQueue(j, w) == \E i \in DOMAIN queue[w] : queue[w][i] = j

\* A job is in one place of one queue, or with one worker.
OnePlace(j) ==
  /\ \A v, w \in PoolWorkers : \A i \in DOMAIN queue[v], k \in DOMAIN queue[w] :
       queue[v][i] = j /\ queue[w][k] = j => v = w /\ i = k
  /\ \A v, w \in PoolWorkers : job[v] = j => ~InQueue(j, w)
  /\ \A v, w \in PoolWorkers : job[v] = j /\ job[w] = j => v = w

\* send() puts a job into the pool.
LEMMA SendAdds ==
  ASSUME PoolInv, NEW j \in Jobs, NEW x \in PoolWorkers, Send(j, x), job' = job
  PROVE  /\ queue' \in [PoolWorkers -> Seq(Jobs)]
         /\ \A i \in Jobs : Submitted(i)' <=> Submitted(i) \/ i = j
         /\ ~Submitted(j) => OnePlace(j)'
         /\ \A i \in Jobs \ {j} : OnePlace(i) => OnePlace(i)'
<1> DEFINE n == Len(queue[x])
<1>1. queue[x] \in Seq(Jobs)
  BY DEF PoolInv
<1>2. queue'[x] = Append(queue[x], j) /\ \A w \in PoolWorkers \ {x} : queue'[w] = queue[w]
  BY DEF Send, PoolInv
<1>3. /\ DOMAIN queue[x] = 1 .. n /\ n \in Nat
      /\ DOMAIN queue'[x] = 1 .. n + 1
      /\ \A i \in 1 .. n : queue'[x][i] = queue[x][i]
      /\ queue'[x][n + 1] = j
  BY <1>1, <1>2, AppendAt
<1>4. queue' \in [PoolWorkers -> Seq(Jobs)]
  BY <1>1, AppendAt DEF Send, PoolInv
<1> HIDE DEF n
<1>5. ASSUME NEW i, NEW w \in PoolWorkers
      PROVE  InQueue(i, w)' <=> InQueue(i, w) \/ (i = j /\ w = x)
  <2>1. CASE w # x
    BY <2>1, <1>2 DEF InQueue
  <2>2. CASE w = x
    BY <2>2, <1>3, SMT DEF InQueue
  <2> QED
    BY <2>1, <2>2
<1>s. \A i : Submitted(i) <=> \E w \in PoolWorkers : job[w] = i \/ InQueue(i, w)
  BY DEF Submitted, InQueue
<1>t. \A i : Submitted(i)' <=> \E w \in PoolWorkers : job[w] = i \/ InQueue(i, w)'
  BY DEF Submitted, InQueue
<1>6. \A i \in Jobs : Submitted(i)' <=> Submitted(i) \/ i = j
  BY <1>5, <1>s, <1>t
<1>o. ASSUME NEW i, NEW v \in PoolWorkers, NEW k \in DOMAIN queue'[v], queue'[v][k] = i
      PROVE  (k \in DOMAIN queue[v] /\ queue[v][k] = i) \/ (i = j /\ v = x /\ k = n + 1)
  <2>1. CASE v # x
    BY <2>1, <1>2, <1>o
  <2>2. CASE v = x
    BY <2>2, <1>3, <1>o, SMT
  <2> QED
    BY <2>1, <2>2
<1>7. ASSUME NEW i, OnePlace(i), i # j PROVE OnePlace(i)'
  <2>1. ASSUME NEW v \in PoolWorkers, NEW w \in PoolWorkers, NEW k \in DOMAIN queue'[v],
               NEW l \in DOMAIN queue'[w], queue'[v][k] = i, queue'[w][l] = i
        PROVE  v = w /\ k = l
    <3>1. k \in DOMAIN queue[v] /\ queue[v][k] = i /\ l \in DOMAIN queue[w] /\ queue[w][l] = i
      BY <2>1, <1>7, <1>o
    <3> QED
      BY <3>1, <1>7 DEF OnePlace
  <2>2. ASSUME NEW v \in PoolWorkers, NEW w \in PoolWorkers, job[v] = i PROVE ~InQueue(i, w)'
    BY <2>2, <1>7, <1>5 DEF OnePlace
  <2>3. \A v, w \in PoolWorkers : job[v] = i /\ job[w] = i => v = w
    BY <1>7 DEF OnePlace
  <2> QED
    BY <2>1, <2>2, <2>3 DEF OnePlace
<1>8. ASSUME ~Submitted(j) PROVE OnePlace(j)'
  <2>0. \A w \in PoolWorkers : job[w] # j /\ ~InQueue(j, w)
    BY <1>8, <1>s
  <2>1. ASSUME NEW v \in PoolWorkers, NEW w \in PoolWorkers, NEW k \in DOMAIN queue'[v],
               NEW l \in DOMAIN queue'[w], queue'[v][k] = j, queue'[w][l] = j
        PROVE  v = w /\ k = l
    <3>1. v = x /\ k = n + 1
      BY <2>0, <2>1, <1>o DEF InQueue
    <3>2. w = x /\ l = n + 1
      BY <2>0, <2>1, <1>o DEF InQueue
    <3> QED
      BY <3>1, <3>2
  <2> QED
    BY <2>0, <2>1 DEF OnePlace
<1> QED
  BY <1>4, <1>6, <1>7, <1>8

\* A worker takes a job: it stays in the pool.
LEMMA ReceiveMoves ==
  ASSUME PoolTypeOK, PoolInv, NEW x \in PoolWorkers, WorkerReceive(x)
  PROVE  /\ queue' \in [PoolWorkers -> Seq(Jobs)] /\ job'[x] \in Jobs
         /\ \A i \in Jobs : Submitted(i)' <=> Submitted(i)
         /\ \A i \in Jobs : OnePlace(i) => OnePlace(i)'
<1> DEFINE n == Len(queue[x])
           j == Head(queue[x])
<1>1. queue[x] \in Seq(Jobs) /\ queue[x] # <<>> /\ job[x] = NoJob
  BY DEF PoolInv, WorkerReceive
<1>2. queue'[x] = Tail(queue[x]) /\ \A w \in PoolWorkers \ {x} : queue'[w] = queue[w]
  BY DEF WorkerReceive, PoolInv
<1>3. job'[x] = j /\ \A w \in PoolWorkers \ {x} : job'[w] = job[w]
  BY DEF WorkerReceive, PoolTypeOK
<1>4. /\ DOMAIN queue[x] = 1 .. n /\ n \in Nat \ {0}
      /\ DOMAIN queue'[x] = 1 .. n - 1
      /\ \A i \in 1 .. n - 1 : queue'[x][i] = queue[x][i + 1]
      /\ j = queue[x][1] /\ j \in Jobs
  BY <1>1, <1>2, TailAt
<1>5. queue' \in [PoolWorkers -> Seq(Jobs)]
  BY <1>1, TailAt DEF WorkerReceive, PoolInv
<1> HIDE DEF n, j
<1>6. ASSUME NEW i \in Jobs
      PROVE  InQueue(i, x) <=> InQueue(i, x)' \/ i = j
  <2>1. ASSUME NEW k \in DOMAIN queue[x], queue[x][k] = i, i # j PROVE InQueue(i, x)'
    <3>1. k - 1 \in DOMAIN queue'[x] /\ queue'[x][k - 1] = queue[x][k]
      BY <2>1, <1>4, SMT
    <3> QED
      BY <3>1, <2>1 DEF InQueue
  <2>2. ASSUME NEW k \in DOMAIN queue'[x], queue'[x][k] = i PROVE InQueue(i, x)
    <3>1. k + 1 \in DOMAIN queue[x] /\ queue'[x][k] = queue[x][k + 1]
      BY <2>2, <1>4, SMT
    <3> QED
      BY <3>1, <2>2 DEF InQueue
  <2>3. InQueue(j, x)
    <3>1. 1 \in DOMAIN queue[x]
      BY <1>4, SMT
    <3> QED
      BY <3>1, <1>4 DEF InQueue
  <2> QED
    BY <2>1, <2>2, <2>3 DEF InQueue
<1>7. \A i, w : w \in PoolWorkers \ {x} => (InQueue(i, w)' <=> InQueue(i, w))
  BY <1>2 DEF InQueue
<1>s. \A i : Submitted(i) <=> \E w \in PoolWorkers : job[w] = i \/ InQueue(i, w)
  BY DEF Submitted, InQueue
<1>t. \A i : Submitted(i)' <=> \E w \in PoolWorkers : job'[w] = i \/ InQueue(i, w)'
  BY DEF Submitted, InQueue
<1>8. \A i \in Jobs : Submitted(i)' <=> Submitted(i)
  BY <1>1, <1>3, <1>6, <1>7, <1>s, <1>t, NoJobAssumption
<1>9. ASSUME NEW i \in Jobs, OnePlace(i) PROVE OnePlace(i)'
  <2>o. ASSUME NEW v \in PoolWorkers, NEW k \in DOMAIN queue'[v], queue'[v][k] = i
        PROVE  IF v = x THEN k + 1 \in DOMAIN queue[v] /\ queue[v][k + 1] = i
               ELSE k \in DOMAIN queue[v] /\ queue[v][k] = i
    <3>1. CASE v # x
      BY <3>1, <2>o, <1>2
    <3>2. CASE v = x
      <4>1. k \in 1 .. n - 1 /\ queue[x][k + 1] = i
        BY <3>2, <2>o, <1>4
      <4> QED
        BY <3>2, <4>1, <1>4, SMT
    <3> QED
      BY <3>1, <3>2
  <2>n. \A v \in PoolWorkers : \A k \in DOMAIN queue'[v] : k \in Nat
    <3>1. \A v \in PoolWorkers : queue'[v] \in Seq(Jobs)
      BY <1>5
    <3> QED
      BY <3>1, LenProperties
  <2>1. ASSUME NEW v \in PoolWorkers, NEW w \in PoolWorkers, NEW k \in DOMAIN queue'[v],
               NEW l \in DOMAIN queue'[w], queue'[v][k] = i, queue'[w][l] = i
        PROVE  v = w /\ k = l
    <3> DEFINE kk == IF v = x THEN k + 1 ELSE k
               ll == IF w = x THEN l + 1 ELSE l
    <3>1. kk \in DOMAIN queue[v] /\ queue[v][kk] = i
      BY <2>1, <2>o
    <3>2. ll \in DOMAIN queue[w] /\ queue[w][ll] = i
      BY <2>1, <2>o
    <3>3. v = w /\ kk = ll
      BY <3>1, <3>2, <1>9 DEF OnePlace
    <3> QED
      BY <3>3, <2>n, SMT
  <2>j. job'[x] = i => \A w \in PoolWorkers : job[w] # i
    <3>1. j = i => InQueue(i, x)
      BY <1>6
    <3> QED
      BY <3>1, <1>3, <1>9 DEF OnePlace
  <2>2. ASSUME NEW v \in PoolWorkers, NEW w \in PoolWorkers, job'[v] = i PROVE ~InQueue(i, w)'
    <3>1. CASE v # x
      BY <3>1, <2>2, <1>3, <1>6, <1>7, <1>9 DEF OnePlace
    <3>2. CASE v = x
      <4>0. i = j /\ 1 \in DOMAIN queue[x] /\ queue[x][1] = i
        BY <3>2, <2>2, <1>3, <1>4, SMT
      <4>1. SUFFICES ASSUME NEW k \in DOMAIN queue'[w], queue'[w][k] = i PROVE FALSE
        BY DEF InQueue
      <4>2. CASE w = x
        <5>1. k + 1 \in DOMAIN queue[x] /\ queue[x][k + 1] = i
          BY <4>1, <4>2, <2>o
        <5>2. k + 1 = 1
          BY <5>1, <4>0, <1>9 DEF OnePlace
        <5>3. k \in 1 .. n - 1
          BY <4>1, <4>2, <1>4
        <5> QED
          BY <5>2, <5>3, SMT
      <4>3. CASE w # x
        <5>1. k \in DOMAIN queue[w] /\ queue[w][k] = i
          BY <4>1, <4>3, <2>o
        <5> QED
          BY <5>1, <4>0, <4>3, <1>9 DEF OnePlace
      <4> QED
        BY <4>2, <4>3
    <3> QED
      BY <3>1, <3>2
  <2>3. ASSUME NEW v \in PoolWorkers, NEW w \in PoolWorkers, job'[v] = i, job'[w] = i
        PROVE  v = w
    BY <2>3, <2>j, <1>3, <1>9 DEF OnePlace
  <2> QED
    BY <2>1, <2>2, <2>3 DEF OnePlace
<1> QED
  BY <1>3, <1>4, <1>5, <1>8, <1>9

\* A job that has ended has left the pool; the others stay.
LEMMA EndRemoves ==
  ASSUME PoolTypeOK, NEW x \in PoolWorkers, NEW timed \in BOOLEAN, JobEnds(x, timed)
  PROVE  /\ \A i \in Jobs : OnePlace(i) => OnePlace(i)'
         /\ \A i \in Jobs \ {job[x]} : Submitted(i)' <=> Submitted(i)
         /\ \A i \in Jobs : Submitted(i)' => Submitted(i)
         /\ \A i \in Jobs : job[x] = i /\ OnePlace(i) => ~Submitted(i)'
<1>1. queue' = queue
  BY DEF JobEnds
<1>2. job'[x] = NoJob /\ \A w \in PoolWorkers \ {x} : job'[w] = job[w]
  BY DEF JobEnds, PoolTypeOK
<1>3. \A i, w : InQueue(i, w)' <=> InQueue(i, w)
  BY <1>1 DEF InQueue
<1>4. \A i \in Jobs, w \in PoolWorkers : job'[w] = i => job[w] = i /\ w # x
  BY <1>2, NoJobAssumption
<1>5. ASSUME NEW i \in Jobs, OnePlace(i) PROVE OnePlace(i)'
  <2>1. \A v, w \in PoolWorkers : \A k \in DOMAIN queue'[v], l \in DOMAIN queue'[w] :
          queue'[v][k] = i /\ queue'[w][l] = i => v = w /\ k = l
    BY <1>1, <1>5 DEF OnePlace
  <2>2. \A v, w \in PoolWorkers : job'[v] = i => ~InQueue(i, w)'
    BY <1>3, <1>4, <1>5 DEF OnePlace
  <2>3. \A v, w \in PoolWorkers : job'[v] = i /\ job'[w] = i => v = w
    BY <1>4, <1>5 DEF OnePlace
  <2> QED
    BY <2>1, <2>2, <2>3 DEF OnePlace
<1>s. \A i : Submitted(i) <=> \E w \in PoolWorkers : job[w] = i \/ InQueue(i, w)
  BY DEF Submitted, InQueue
<1>t. \A i : Submitted(i)' <=> \E w \in PoolWorkers : job'[w] = i \/ InQueue(i, w)'
  BY DEF Submitted, InQueue
<1>6. \A i \in Jobs : Submitted(i)' => Submitted(i)
  BY <1>3, <1>4, <1>s, <1>t
<1>7. \A i \in Jobs \ {job[x]} : Submitted(i) => Submitted(i)'
  BY <1>2, <1>3, <1>s, <1>t
<1>8. ASSUME NEW i \in Jobs, job[x] = i, OnePlace(i) PROVE ~Submitted(i)'
  <2>1. \A w \in PoolWorkers : ~InQueue(i, w)
    BY <1>8 DEF OnePlace
  <2>2. \A w \in PoolWorkers : job'[w] # i
    BY <1>4, <1>8 DEF OnePlace
  <2> QED
    BY <2>1, <2>2, <1>3, <1>t
<1> QED
  BY <1>5, <1>6, <1>7, <1>8

\* What the pool does in a step.
PoolStep ==
  \/ UNCHANGED poolVars
  \/ \E j \in Jobs : ScheduleTask(j) \/ \E t \in 0 .. now : AddTask(j, t)
  \/ \E w \in PoolWorkers :
       \/ WorkerTest(w) \/ WorkerReceive(w) \/ WorkerGetsNone(w) \/ Record(w)
       \/ \E timed \in BOOLEAN : JobEnds(w, timed)
       \/ CloseQueue(w)
  \/ SetShuttingDown \/ Tick

\* A queue of jobs is one that holds jobs.
LEMMA QueueHoldsJobs ==
  ASSUME NEW q1 \in [PoolWorkers -> Seq(Jobs)]
  PROVE  \A w \in PoolWorkers : \A i \in DOMAIN q1[w] : q1[w][i] \in Jobs
<1> SUFFICES ASSUME NEW w \in PoolWorkers, NEW i \in DOMAIN q1[w] PROVE q1[w][i] \in Jobs
  OBVIOUS
<1>1. q1[w] \in Seq(Jobs)
  OBVIOUS
<1> QED
  BY <1>1, LenProperties

\* The pool keeps its types.
LEMMA PoolTypeStep ==
  ASSUME PoolTypeOK, PoolInv, PoolStep
  PROVE  PoolTypeOK' /\ PoolInv'
<1>n. now \in Nat /\ MaxTime \in Nat /\ now <= MaxTime
  BY MaxTimeAssumption DEF PoolTypeOK
<1>q. ASSUME queue' \in [PoolWorkers -> Seq(Jobs)],
             now' \in now .. MaxTime, startedAt' \in [PoolWorkers -> 0 .. now'],
             shuttingDown' \in BOOLEAN, closed' \in [PoolWorkers -> BOOLEAN],
             availableAt' \in [PoolWorkers -> 0 .. 2 * MaxTime], duration' \in 0 .. MaxTime,
             wpc' \in [PoolWorkers -> {"test", "receive", "run", "record", "exit"}],
             job' \in [PoolWorkers -> Jobs \union {NoJob}],
             \A w \in PoolWorkers : wpc'[w] # "run" => job'[w] = NoJob
      PROVE  PoolTypeOK' /\ PoolInv'
  <2>1. \A w \in PoolWorkers : \A i \in DOMAIN queue'[w] : queue'[w][i] \in Jobs
    BY <1>q, QueueHoldsJobs
  <2>2. now' \in 0 .. MaxTime
    BY <1>q, <1>n, SMT
  <2> QED
    BY <1>q, <2>1, <2>2 DEF PoolTypeOK, PoolInv
<1>p. /\ queue \in [PoolWorkers -> Seq(Jobs)]
      /\ now \in now .. MaxTime /\ startedAt \in [PoolWorkers -> 0 .. now]
      /\ shuttingDown \in BOOLEAN /\ closed \in [PoolWorkers -> BOOLEAN]
      /\ availableAt \in [PoolWorkers -> 0 .. 2 * MaxTime] /\ duration \in 0 .. MaxTime
      /\ wpc \in [PoolWorkers -> {"test", "receive", "run", "record", "exit"}]
      /\ job \in [PoolWorkers -> Jobs \union {NoJob}]
      /\ \A w \in PoolWorkers : wpc[w] # "run" => job[w] = NoJob
  BY <1>n, SMT DEF PoolTypeOK, PoolInv
<1>1. CASE UNCHANGED poolVars
  <2>1. /\ queue' = queue /\ now' = now /\ startedAt' = startedAt /\ closed' = closed
        /\ shuttingDown' = shuttingDown /\ availableAt' = availableAt /\ duration' = duration
        /\ wpc' = wpc /\ job' = job
    BY <1>1 DEF poolVars, clockVars, workerVars
  <2> QED
    BY <1>p, <1>q, <2>1
<1>2. ASSUME NEW j \in Jobs, ScheduleTask(j) PROVE PoolTypeOK' /\ PoolInv'
  <2>1. /\ now' = now /\ startedAt' = startedAt /\ closed' = closed
        /\ shuttingDown' = shuttingDown /\ availableAt' = availableAt /\ duration' = duration
        /\ wpc' = wpc /\ job' = job
    BY <1>2 DEF ScheduleTask, clockVars, workerVars
  <2>2. queue' \in [PoolWorkers -> Seq(Jobs)]
    BY <1>2, <1>n, <2>1, ChosenIsWorker, SendAdds DEF ScheduleTask
  <2> QED
    BY <1>p, <1>q, <2>1, <2>2
<1>3. ASSUME NEW j \in Jobs, NEW t \in 0 .. now, AddTask(j, t) PROVE PoolTypeOK' /\ PoolInv'
  <2>1. /\ now' = now /\ startedAt' = startedAt /\ closed' = closed
        /\ shuttingDown' = shuttingDown /\ duration' = duration
        /\ wpc' = wpc /\ job' = job
    BY <1>3 DEF AddTask, clockVars, workerVars
  <2>0. t \in Nat
    BY <1>n, SMT
  <2>2. queue' \in [PoolWorkers -> Seq(Jobs)]
    BY <1>3, <2>0, <2>1, ChosenIsWorker, SendAdds DEF AddTask
  <2>3. t + duration \in 0 .. 2 * MaxTime
    BY <1>n, <1>p, SMT
  <2>4. availableAt' \in [PoolWorkers -> 0 .. 2 * MaxTime]
    BY <1>3, <1>p, <2>3 DEF AddTask
  <2> QED
    BY <1>p, <1>q, <2>1, <2>2, <2>4
<1>4. ASSUME NEW w \in PoolWorkers, WorkerTest(w) \/ WorkerGetsNone(w)
      PROVE  PoolTypeOK' /\ PoolInv'
  <2>1. /\ queue' = queue /\ now' = now /\ startedAt' = startedAt /\ closed' = closed
        /\ shuttingDown' = shuttingDown /\ availableAt' = availableAt /\ duration' = duration
        /\ job' = job
    BY <1>4 DEF WorkerTest, WorkerGetsNone, clockVars
  <2>2. PICK x \in {"test", "receive", "exit"} : wpc' = [wpc EXCEPT ![w] = x]
    BY <1>4 DEF WorkerTest, WorkerGetsNone, WorkerGoto
  <2>3. wpc[w] # "run"
    BY <1>4 DEF WorkerTest, WorkerGetsNone
  <2>4. \A v \in PoolWorkers : wpc'[v] # "run" => wpc[v] # "run"
    BY <1>p, <2>2, <2>3
  <2>5. wpc' \in [PoolWorkers -> {"test", "receive", "run", "record", "exit"}]
    BY <1>p, <2>2
  <2> QED
    BY <1>p, <1>q, <2>1, <2>4, <2>5
<1>5. ASSUME NEW w \in PoolWorkers, Record(w) PROVE PoolTypeOK' /\ PoolInv'
  <2>1. /\ queue' = queue /\ now' = now /\ startedAt' = startedAt /\ closed' = closed
        /\ shuttingDown' = shuttingDown /\ availableAt' = availableAt /\ job' = job
        /\ duration' = now - startedAt[w] /\ wpc' = [wpc EXCEPT ![w] = "test"]
        /\ wpc[w] = "record"
    BY <1>5 DEF Record, WorkerGoto, clockVars
  <2>2. duration' \in 0 .. MaxTime
    <3>1. startedAt[w] \in 0 .. now
      BY <1>p
    <3> QED
      BY <2>1, <3>1, <1>n, SMT
  <2>4. \A v \in PoolWorkers : wpc'[v] # "run" => wpc[v] # "run"
    BY <1>p, <2>1
  <2>5. wpc' \in [PoolWorkers -> {"test", "receive", "run", "record", "exit"}]
    BY <1>p, <2>1
  <2> QED
    BY <1>p, <1>q, <2>1, <2>2, <2>4, <2>5
<1>6. ASSUME NEW w \in PoolWorkers, WorkerReceive(w) PROVE PoolTypeOK' /\ PoolInv'
  <2>1. /\ now' = now /\ closed' = closed
        /\ shuttingDown' = shuttingDown /\ availableAt' = availableAt /\ duration' = duration
        /\ startedAt' = [startedAt EXCEPT ![w] = now] /\ wpc' = [wpc EXCEPT ![w] = "run"]
        /\ job' = [job EXCEPT ![w] = Head(queue[w])]
    BY <1>6 DEF WorkerReceive, WorkerGoto, clockVars
  <2>2. queue' \in [PoolWorkers -> Seq(Jobs)] /\ job'[w] \in Jobs
    BY <1>6, ReceiveMoves
  <2>3. startedAt' \in [PoolWorkers -> 0 .. now]
    <3>1. now \in 0 .. now
      BY <1>n, SMT
    <3> QED
      BY <3>1, <2>1, <1>p
  <2>4. job' \in [PoolWorkers -> Jobs \union {NoJob}]
    BY <2>1, <2>2, <1>p
  <2>5. \A v \in PoolWorkers : wpc'[v] # "run" => job'[v] = NoJob
    BY <2>1, <1>p
  <2>6. wpc' \in [PoolWorkers -> {"test", "receive", "run", "record", "exit"}]
    BY <2>1, <1>p
  <2> QED
    BY <1>p, <1>q, <2>1, <2>2, <2>3, <2>4, <2>5, <2>6
<1>7. ASSUME NEW w \in PoolWorkers, NEW timed \in BOOLEAN, JobEnds(w, timed)
      PROVE  PoolTypeOK' /\ PoolInv'
  <2>1. /\ queue' = queue /\ now' = now /\ startedAt' = startedAt /\ closed' = closed
        /\ shuttingDown' = shuttingDown /\ availableAt' = availableAt /\ duration' = duration
        /\ job' = [job EXCEPT ![w] = NoJob]
    BY <1>7 DEF JobEnds, clockVars
  <2>2. PICK x \in {"test", "record"} : wpc' = [wpc EXCEPT ![w] = x]
    BY <1>7 DEF JobEnds, WorkerGoto
  <2>3. job' \in [PoolWorkers -> Jobs \union {NoJob}]
    BY <2>1, <1>p
  <2>4. \A v \in PoolWorkers : wpc'[v] # "run" => job'[v] = NoJob
    BY <1>p, <2>1, <2>2
  <2>5. wpc' \in [PoolWorkers -> {"test", "receive", "run", "record", "exit"}]
    BY <1>p, <2>2
  <2> QED
    BY <1>p, <1>q, <2>1, <2>3, <2>4, <2>5
<1>8. ASSUME NEW w \in PoolWorkers, CloseQueue(w) PROVE PoolTypeOK' /\ PoolInv'
  <2>1. /\ queue' = queue /\ now' = now /\ startedAt' = startedAt
        /\ shuttingDown' = shuttingDown /\ availableAt' = availableAt /\ duration' = duration
        /\ wpc' = wpc /\ job' = job
    BY <1>8 DEF CloseQueue, clockVars, workerVars
  <2>2. closed' \in [PoolWorkers -> BOOLEAN]
    BY <1>8, <1>p DEF CloseQueue
  <2> QED
    BY <1>p, <1>q, <2>1, <2>2
<1>9. CASE SetShuttingDown
  <2>1. /\ queue' = queue /\ now' = now /\ startedAt' = startedAt /\ closed' = closed
        /\ shuttingDown' = TRUE /\ availableAt' = availableAt /\ duration' = duration
        /\ wpc' = wpc /\ job' = job
    BY <1>9 DEF SetShuttingDown, workerVars
  <2> QED
    BY <1>p, <1>q, <2>1
<1>10. CASE Tick
  <2>1. /\ queue' = queue /\ startedAt' = startedAt /\ closed' = closed
        /\ shuttingDown' = shuttingDown /\ availableAt' = availableAt /\ duration' = duration
        /\ wpc' = wpc /\ job' = job /\ now' = now + 1 /\ now < MaxTime
    BY <1>10 DEF Tick, workerVars
  <2>2. now' \in now .. MaxTime /\ \A i \in 0 .. now : i \in 0 .. now'
    BY <1>n, <2>1, SMT
  <2>3. startedAt' \in [PoolWorkers -> 0 .. now']
    <3>1. \A w \in PoolWorkers : startedAt[w] \in 0 .. now'
      BY <1>p, <2>2
    <3> QED
      BY <1>p, <2>1, <3>1
  <2> QED
    BY <1>p, <1>q, <2>1, <2>2, <2>3
<1> QED
  BY <1>1, <1>2, <1>3, <1>4, <1>5, <1>6, <1>7, <1>8, <1>9, <1>10 DEF PoolStep

-----------------------------------------------------------------------------
(* The invariant of the coroutines that wait for the pool.                 *)

Threads == {None, CoroWorker} \union PoolWorkers \union Cancellers

DataType == [resumed : BOOLEAN, status : {"completed", "cancelled"}, result : BOOLEAN]

CoroType ==
  /\ role \in [Coros -> {"plain", "cancellable", "passive"}]
  /\ st \in [Coros -> {"idle", "ready", "body", "suspended", "runnable", "done"}]
  /\ on \in [Coros -> Threads]
  /\ sus \in [Coros -> [at : {None, "register", "post"}, by : Threads]]
  /\ round \in [Coros -> 0 .. MaxAwaits]
  /\ data \in [Awaits -> DataType]
  /\ outcome \in [Awaits -> {None, "completed", "cancelled", "thrown", "empty"}]
  /\ wakes \in [Awaits -> Nat]

\* The callback of a is registered, or cancel() has still to call it.
Hooked(a) == a \in callbacks \/ \E k \in Cancellers : a \in cbs[k]

\* Once cancelled_ is set, the cancel() that set it has the callbacks, or is about to.
CancelInv ==
  /\ \A k \in Cancellers : cpc[k] # "idle" => cancelled
  /\ \A k \in Cancellers : cbs[k] # {} => cpc[k] = "call"
  /\ cancelled /\ callbacks # {} => \E k \in Cancellers : cpc[k] = "swap"

\* Where coroutine c is, against its part of await_suspend and its child.
Place(c) ==
  /\ role[c] = "passive" <=> c \in Passive
  /\ st[c] = "idle" => round[c] = 0
  /\ c \in Passive /\ st[c] \in {"idle", "ready"} => st[Child[c]] = "idle"
  /\ st[c] \in {"suspended", "runnable"} => round[c] # 0
  /\ sus[c].at = None => sus[c] = NotIn
  /\ sus[c].at # None =>
       /\ role[c] = "cancellable" /\ round[c] # 0
       /\ st[c] \in {"suspended", "runnable", "done"}
  /\ sus[c].at = "register" => st[c] = "suspended"

Untouched(a) ==
  /\ data[a] = Fresh /\ wakes[a] = 0 /\ outcome[a] = None
  /\ ~Submitted(a) /\ ~Hooked(a)

\* Whoever wakes the coroutine of a cancellable await has set data->resumed; the job of
\* any other is gone once it has.  An await that nobody has woken is its coroutine's last.
Woken(a) ==
  LET c == a[1] IN
  /\ role[c] = "cancellable" => wakes[a] = IF data[a].resumed THEN 1 ELSE 0
  /\ role[c] # "cancellable" =>
       /\ ~Hooked(a)
       /\ data[a].status = "completed" /\ OnePlace(a)
       /\ wakes[a] <= 1 /\ (wakes[a] = 1 => ~Submitted(a))
  /\ wakes[a] = 0 /\ a[2] <= round[c] => a[2] = round[c] /\ st[c] \in {"suspended", "done"}

\* What the awaiter finds.
Stored(a) ==
  /\ wakes[a] # 0 /\ data[a].status = "completed" => data[a].result
  /\ data[a].status = "cancelled" => cancelled
  /\ outcome[a] # "empty" /\ (outcome[a] = "cancelled" => cancelled)

\* An await whose submission threw has ended its coroutine, and only a cancellation wakes it.
Thrown(a) ==
  LET c == a[1] IN
  outcome[a] = "thrown" =>
    /\ st[c] = "done" /\ sus[c].at = None /\ ~Submitted(a)
    /\ wakes[a] # 0 => data[a].status = "cancelled"

\* A suspended coroutine's last await has a job and, with a token, a callback, but for the
\* part of await_suspend that is still to come.
Last(a) ==
  LET c == a[1] IN
  a[2] = round[c] =>
    /\ st[c] \in {"suspended", "runnable"} => outcome[a] = None
    /\ st[c] = "runnable" => wakes[a] # 0
    /\ st[c] = "suspended" => wakes[a] = 0
    /\ sus[c].at # None => ~Submitted(a)
    /\ sus[c].at # None /\ wakes[a] # 0 => data[a].status = "cancelled"
    /\ sus[c].at = "register" => ~Hooked(a)
    /\ st[c] = "suspended" /\ role[c] = "cancellable" /\ sus[c].at # "register" => Hooked(a)
    /\ st[c] = "suspended" /\ sus[c].at = None => Submitted(a)

AwaitInv(a) ==
  /\ a[2] > round[a[1]] => Untouched(a)
  /\ Woken(a) /\ Stored(a) /\ Thrown(a) /\ Last(a)

WaitInv == (\A c \in Coros : Place(c)) /\ (\A a \in Awaits : AwaitInv(a))

BlockingInv ==
  /\ PoolTypeOK /\ PoolInv
  /\ CancellationTypeOK /\ CancelInv
  /\ CoroType /\ dpc \in {"up", "coro", "close", "join", "down"}
  /\ WaitInv

\* An await is a coroutine and a number.
LEMMA AwaitParts ==
  ASSUME NEW a \in Awaits
  PROVE  /\ a[1] \in Coros /\ a[2] \in 1 .. MaxAwaits /\ a = <<a[1], a[2]>>
         /\ a \in Jobs /\ a \notin Futures /\ a \in Clients
  BY BlockingAssumption DEF Awaits

\* The invariant is about what a step leaves alone.
LEMMA PlaceKept ==
  ASSUME NEW c \in Coros, Place(c), role' = role, st'[c] = st[c], round'[c] = round[c],
         sus'[c] = sus[c], c \in Passive => st'[Child[c]] = st[Child[c]] \/ st[Child[c]] # "idle"
  PROVE  Place(c)'
  BY DEF Place, NotIn

\* The same of an await.
LEMMA AwaitKept ==
  ASSUME NEW a \in Awaits, AwaitInv(a), role' = role, round'[a[1]] = round[a[1]],
         st'[a[1]] = st[a[1]], sus'[a[1]] = sus[a[1]],
         data'[a] = data[a], wakes'[a] = wakes[a], outcome'[a] = outcome[a],
         Submitted(a)' <=> Submitted(a), Hooked(a)' <=> Hooked(a),
         OnePlace(a) => OnePlace(a)', cancelled => cancelled'
  PROVE  AwaitInv(a)'
<1>1. Untouched(a) => Untouched(a)'
  BY DEF Untouched, Fresh
<1>2. Woken(a) => Woken(a)'
  BY DEF Woken
<1>3. Stored(a) => Stored(a)'
  BY DEF Stored
<1>4. Last(a) => Last(a)'
  BY DEF Last
<1>5. Thrown(a) => Thrown(a)'
  BY DEF Thrown
<1> QED
  BY <1>1, <1>2, <1>3, <1>4, <1>5 DEF AwaitInv

\* A step of coroutine c, or one that concerns it: the others stay as they are.
LEMMA OthersKept ==
  ASSUME WaitInv, NEW c \in Coros, role' = role, cancelled => cancelled',
         \A d \in Coros \ {c} :
           st'[d] = st[d] /\ round'[d] = round[d] /\ sus'[d] = sus[d],
         st'[c] = st[c] \/ st[c] # "idle" \/ \A d \in Passive : Child[d] # c,
         \A a \in Awaits : a[1] # c =>
           /\ data'[a] = data[a] /\ wakes'[a] = wakes[a] /\ outcome'[a] = outcome[a]
           /\ (Submitted(a)' <=> Submitted(a)) /\ (Hooked(a)' <=> Hooked(a))
           /\ (OnePlace(a) => OnePlace(a)'),
         Place(c)', \A a \in Awaits : a[1] = c => AwaitInv(a)'
  PROVE  WaitInv'
<1>1. ASSUME NEW d \in Coros PROVE Place(d)'
  <2>1. CASE d = c
    BY <2>1
  <2>2. CASE d # c
    <3>1. d \in Passive => st'[Child[d]] = st[Child[d]] \/ st[Child[d]] # "idle"
      BY BlockingAssumption
    <3> QED
      BY <2>2, <3>1, PlaceKept DEF WaitInv
  <2> QED
    BY <2>1, <2>2
<1>2. ASSUME NEW a \in Awaits PROVE AwaitInv(a)'
  <2>1. CASE a[1] = c
    BY <2>1
  <2>2. CASE a[1] # c
    BY <2>2, AwaitKept, AwaitParts DEF WaitInv
  <2> QED
    BY <2>1, <2>2
<1> QED
  BY <1>1, <1>2 DEF WaitInv

\* A step that leaves the coroutines alone, and the places of their jobs and callbacks.
LEMMA NoneChanged ==
  ASSUME WaitInv, UNCHANGED coroVars, cancelled => cancelled',
         \A a \in Awaits :
           /\ (Submitted(a)' <=> Submitted(a)) /\ (Hooked(a)' <=> Hooked(a))
           /\ (OnePlace(a) => OnePlace(a)')
  PROVE  WaitInv'
<1>1. /\ role' = role /\ st' = st /\ sus' = sus /\ round' = round
      /\ data' = data /\ outcome' = outcome /\ wakes' = wakes
  BY DEF coroVars
<1>2. ASSUME NEW c \in Coros PROVE Place(c)'
  BY <1>1, PlaceKept DEF WaitInv
<1>3. ASSUME NEW a \in Awaits PROVE AwaitInv(a)'
  BY <1>1, AwaitKept DEF WaitInv
<1> QED
  BY <1>2, <1>3 DEF WaitInv

\* Jobs stay where they are unless the queues or the workers change.
LEMMA JobsStay ==
  ASSUME queue' = queue, job' = job
  PROVE  \A j : (Submitted(j)' <=> Submitted(j)) /\ (OnePlace(j) => OnePlace(j)')
<1>1. \A j, w : InQueue(j, w)' <=> InQueue(j, w)
  BY DEF InQueue
<1>2. \A j : Submitted(j)' <=> Submitted(j)
  BY DEF Submitted
<1>3. \A j : OnePlace(j) => OnePlace(j)'
  BY <1>1 DEF OnePlace
<1> QED
  BY <1>2, <1>3

\* Callbacks stay where they are unless cancel() or a registration moves them.
LEMMA HooksStay ==
  ASSUME callbacks' = callbacks, cbs' = cbs
  PROVE  \A a : Hooked(a)' <=> Hooked(a)
  BY DEF Hooked

\* What the callable leaves in the shared data.
LEMMA ResultData ==
  ASSUME data \in [Awaits -> DataType], NEW a \in Awaits,
         data' = [data EXCEPT ![a].result = TRUE]
  PROVE  /\ data' \in [Awaits -> DataType]
         /\ data'[a].result /\ data'[a].status = data[a].status
         /\ data'[a].resumed = data[a].resumed
         /\ \A b \in Awaits \ {a} : data'[b] = data[b]
<1> DEFINE d == data[a]
           e == [d EXCEPT !.result = TRUE]
<1>1. d \in DataType
  OBVIOUS
<1>2. data' = [data EXCEPT ![a] = e]
  OBVIOUS
<1> HIDE DEF d
<1>3. /\ e \in DataType
      /\ e.result /\ e.status = d.status /\ e.resumed = d.resumed
  BY <1>1 DEF DataType
<1> HIDE DEF e
<1>4. data' \in [Awaits -> DataType] /\ data'[a] = e
  BY <1>2, <1>3
<1> QED
  BY <1>2, <1>3, <1>4 DEF d

\* What the winner leaves there.
LEMMA WinData ==
  ASSUME data \in [Awaits -> DataType], NEW a \in Awaits,
         NEW status \in {"completed", "cancelled"},
         data' = [data EXCEPT ![a].resumed = TRUE, ![a].status = status]
  PROVE  /\ data' \in [Awaits -> DataType]
         /\ data'[a].status = status /\ data'[a].resumed
         /\ data'[a].result = data[a].result
         /\ \A b \in Awaits \ {a} : data'[b] = data[b]
<1> DEFINE d == data[a]
           d1 == [d EXCEPT !.resumed = TRUE]
           e == [d1 EXCEPT !.status = status]
<1>1. d \in DataType
  OBVIOUS
<1>2. data' = [data EXCEPT ![a] = e]
  OBVIOUS
<1> HIDE DEF d
<1>3. d1 \in DataType /\ d1.resumed /\ d1.result = d.result
  BY <1>1 DEF DataType
<1> HIDE DEF d1
<1>4. /\ e \in DataType
      /\ e.result = d.result /\ e.status = status /\ e.resumed
  BY <1>3 DEF DataType
<1> HIDE DEF e
<1>5. data' \in [Awaits -> DataType] /\ data'[a] = e
  BY <1>2, <1>4
<1> QED
  BY <1>2, <1>4, <1>5 DEF d

\* A coroutine is scheduled: of any await of which it was not, it is the last.
LEMMA WakeKeeps ==
  ASSUME CoroType, WaitInv, NEW a \in Awaits, NEW t, WakeUp(a, t),
         wakes[a] = 0, a[2] <= round[a[1]],
         role' = role, round' = round, outcome' = outcome, cancelled => cancelled',
         \A d \in Coros \ {a[1]} : sus'[d] = sus[d],
         \/ sus'[a[1]] = sus[a[1]]
         \/ sus[a[1]].at = "register" /\ sus'[a[1]].at = "post",
         sus'[a[1]].at # "register",
         \A b \in Awaits \ {a} :
           /\ data'[b] = data[b]
           /\ (Submitted(b)' <=> Submitted(b)) /\ (Hooked(b)' <=> Hooked(b))
           /\ (OnePlace(b) => OnePlace(b)'),
         OnePlace(a) => OnePlace(a)', Submitted(a)' => Submitted(a), Hooked(a)' => Hooked(a),
         role[a[1]] = "cancellable" => data'[a].resumed,
         role[a[1]] # "cancellable" => data'[a].status = "completed" /\ ~Submitted(a)',
         data'[a].status = "completed" => data'[a].result /\ Submitted(a),
         data'[a].status = "cancelled" => cancelled', data' \in [Awaits -> DataType]
  PROVE  WaitInv'
<1> DEFINE c == a[1]
<1>c. c \in Coros /\ a[2] \in Nat /\ round[c] \in Nat
  BY AwaitParts, BlockingAssumption DEF CoroType
<1>i. Place(c) /\ AwaitInv(a)
  BY <1>c DEF WaitInv
<1>1. a[2] = round[c] /\ st[c] \in {"suspended", "done"}
  BY <1>i DEF AwaitInv, Woken
<1>2. st'[c] = IF st[c] = "done" THEN "done" ELSE "runnable"
  BY <1>c DEF WakeUp, CoroType
<1>3. wakes'[a] = 1 /\ \A b \in Awaits \ {a} : wakes'[b] = wakes[b]
  BY DEF WakeUp, CoroType
<1>4. \A d \in Coros \ {c} : st'[d] = st[d]
  BY DEF WakeUp, CoroType
<1>5. Place(c)'
  BY <1>i, <1>1, <1>2, <1>c, NoneAssumption DEF Place, NotIn
<1>s. sus[c].at # "register" => sus'[c] = sus[c]
  OBVIOUS
<1>t. sus[c].at = None => sus'[c].at = None
  BY <1>s, NoneAssumption
<1>d. data'[a].status \in {"completed", "cancelled"}
  BY DEF DataType
<1>6. ASSUME NEW b \in Awaits, b[1] = c, b # a PROVE AwaitInv(b)'
  <2>1. b[2] # round[c] /\ b[2] \in Nat
    BY <1>1, <1>6, AwaitParts
  <2>2. AwaitInv(b)
    BY DEF WaitInv
  <2>3. /\ data'[b] = data[b] /\ wakes'[b] = wakes[b] /\ outcome'[b] = outcome[b]
        /\ (Submitted(b)' <=> Submitted(b)) /\ (Hooked(b)' <=> Hooked(b))
        /\ (OnePlace(b) => OnePlace(b)')
    BY <1>3, <1>6
  <2>4. Untouched(b) => Untouched(b)'
    BY <2>3 DEF Untouched, Fresh
  <2>5. Woken(b) => Woken(b)'
    BY <2>1, <2>3, <1>6 DEF Woken
  <2>6. Stored(b) => Stored(b)'
    BY <2>3 DEF Stored
  <2>7. Last(b)'
    BY <2>1, <1>6 DEF Last
  <2>8. Thrown(b) => Thrown(b)'
    BY <2>3, <1>2, <1>6, <1>t DEF Thrown
  <2> QED
    BY <2>2, <2>4, <2>5, <2>6, <2>7, <2>8, <1>6 DEF AwaitInv
<1>7. AwaitInv(a)'
  <2>1. Woken(a)'
    BY <1>i, <1>1, <1>2, <1>3 DEF AwaitInv, Woken
  <2>2. Stored(a)'
    BY <1>i DEF AwaitInv, Stored
  <2>3. Last(a)'
    BY <1>i, <1>1, <1>2, <1>3, <1>d, <1>t, NoneAssumption DEF AwaitInv, Last
  <2>4. ~(a[2] > round'[a[1]])
    BY <1>1, <1>c
  <2>5. Thrown(a)'
    BY <1>i, <1>2, <1>d, <1>t DEF AwaitInv, Thrown
  <2> QED
    BY <2>1, <2>2, <2>3, <2>4, <2>5 DEF AwaitInv
<1>8. \A b \in Awaits : b[1] # c => b # a
  OBVIOUS
<1>9. st[c] # "idle"
  BY <1>1
<1> HIDE DEF c
<1>10. \A b \in Awaits : b[1] = c => AwaitInv(b)'
  BY <1>6, <1>7
<1>11. \A b \in Awaits : b[1] # c =>
         /\ data'[b] = data[b] /\ wakes'[b] = wakes[b] /\ outcome'[b] = outcome[b]
         /\ (Submitted(b)' <=> Submitted(b)) /\ (Hooked(b)' <=> Hooked(b))
         /\ (OnePlace(b) => OnePlace(b)')
  BY <1>3, <1>8
<1>12. \A d \in Coros \ {c} :
         st'[d] = st[d] /\ round'[d] = round[d] /\ sus'[d] = sus[d]
  BY <1>4 DEF c
<1> QED
  BY <1>c, <1>5, <1>9, <1>10, <1>11, <1>12, OthersKept

\* ... and keeps its types.
LEMMA WakeType ==
  ASSUME CoroType, NEW a \in Awaits, NEW t \in Threads, WakeUp(a, t)
  PROVE  /\ st' \in [Coros -> {"idle", "ready", "body", "suspended", "runnable", "done"}]
         /\ on' \in [Coros -> Threads]
         /\ wakes' \in [Awaits -> Nat]
<1>1. ScheduledOn(t) \in Threads
  BY DEF ScheduledOn, Threads
<1>2. wakes' \in [Awaits -> Nat]
  BY DEF WakeUp, CoroType
<1> QED
  BY <1>1, <1>2 DEF WakeUp, CoroType

\* schedule_task for an await.
LEMMA ScheduleAdds ==
  ASSUME PoolTypeOK, PoolInv, NEW a \in Awaits, ScheduleTask(a)
  PROVE  /\ Submitted(a)' /\ (~Submitted(a) => OnePlace(a)')
         /\ \A b \in Awaits \ {a} :
              (Submitted(b)' <=> Submitted(b)) /\ (OnePlace(b) => OnePlace(b)')
<1>1. Chosen(now) \in PoolWorkers
  BY ChosenIsWorker, MaxTimeAssumption DEF PoolTypeOK
<1>2. Send(a, Chosen(now)) /\ job' = job
  BY DEF ScheduleTask, workerVars
<1>3. \A b \in Awaits : b \in Jobs
  BY AwaitParts
<1>4. /\ \A i \in Jobs : Submitted(i)' <=> Submitted(i) \/ i = a
      /\ ~Submitted(a) => OnePlace(a)'
      /\ \A i \in Jobs \ {a} : OnePlace(i) => OnePlace(i)'
  BY <1>1, <1>2, <1>3, SendAdds
<1> QED
  BY <1>3, <1>4

\* A job of the pool that is an await's ends.
LEMMA AwaitEnds ==
  ASSUME PoolTypeOK, NEW x \in PoolWorkers, JobEnds(x, FALSE), NEW a \in Awaits, job[x] = a
  PROVE  /\ \A b \in Awaits : OnePlace(b) => OnePlace(b)'
         /\ \A b \in Awaits \ {a} : Submitted(b)' <=> Submitted(b)
         /\ Submitted(a) /\ (Submitted(a)' => Submitted(a))
         /\ OnePlace(a) => ~Submitted(a)'
<1>1. \A b \in Awaits : b \in Jobs
  BY AwaitParts
<1>2. /\ \A i \in Jobs : OnePlace(i) => OnePlace(i)'
      /\ \A i \in Jobs \ {job[x]} : Submitted(i)' <=> Submitted(i)
      /\ \A i \in Jobs : Submitted(i)' => Submitted(i)
      /\ \A i \in Jobs : job[x] = i /\ OnePlace(i) => ~Submitted(i)'
  BY EndRemoves
<1>3. Submitted(a)
  BY DEF Submitted
<1> QED
  BY <1>1, <1>2, <1>3

\* The job of a coroutine of the pool is what it waits for.
LEMMA JobIsAwaited ==
  ASSUME CoroType, WaitInv, NEW a \in Awaits, Submitted(a) \/ Hooked(a)
  PROVE  a[2] <= round[a[1]]
<1>1. a[2] \in Nat /\ round[a[1]] \in Nat
  BY AwaitParts, BlockingAssumption DEF CoroType
<1>2. ~(a[2] > round[a[1]])
  BY DEF WaitInv, AwaitInv, Untouched
<1> QED
  BY <1>1, <1>2

-----------------------------------------------------------------------------
(* The steps that wake a coroutine.                                        *)

\* A job of callable_awaiter.
LEMMA CallableJobKeeps ==
  ASSUME BlockingInv, NEW x \in PoolWorkers, CallableJob(x)
  PROVE  CoroType' /\ WaitInv'
<1>1. PICK a \in Awaits :
      /\ a = job[x] /\ role[a[1]] # "cancellable"
      /\ data' = [data EXCEPT ![a].result = TRUE]
      /\ WakeUp(a, x) /\ JobEnds(x, FALSE)
      /\ role' = role /\ sus' = sus /\ round' = round /\ outcome' = outcome
      /\ callbacks' = callbacks /\ cbs' = cbs /\ cancelled' = cancelled
  BY DEF CallableJob, Wake, cancelVars
<1>p. x \in Threads
  BY DEF Threads
<1>0. PoolTypeOK /\ CoroType /\ WaitInv
  BY DEF BlockingInv
<1>2. /\ \A b \in Awaits : OnePlace(b) => OnePlace(b)'
      /\ \A b \in Awaits \ {a} : Submitted(b)' <=> Submitted(b)
      /\ Submitted(a) /\ (OnePlace(a) => ~Submitted(a)')
  BY <1>0, <1>1, AwaitEnds
<1>3. a[2] <= round[a[1]] /\ a[1] \in Coros
  BY <1>0, <1>1, <1>2, JobIsAwaited, AwaitParts
<1>4. OnePlace(a) /\ wakes[a] = 0 /\ data[a].status = "completed"
  <2>1. Woken(a) /\ wakes[a] \in Nat
    BY <1>0 DEF WaitInv, AwaitInv, CoroType
  <2>2. OnePlace(a) /\ wakes[a] <= 1 /\ wakes[a] # 1 /\ data[a].status = "completed"
    BY <1>1, <1>2, <2>1 DEF Woken
  <2> QED
    BY <2>1, <2>2
<1>5. sus[a[1]].at # "register"
  BY <1>0, <1>1, <1>3, NoneAssumption DEF WaitInv, Place
<1>6. /\ data'[a].status = "completed" /\ data'[a].result
      /\ \A b \in Awaits \ {a} : data'[b] = data[b]
      /\ data' \in [Awaits -> DataType]
  BY <1>0, <1>1, <1>4, ResultData DEF CoroType
<1>7. \A b : Hooked(b)' <=> Hooked(b)
  BY <1>1, HooksStay
<1>8. WaitInv'
  BY <1>0, <1>1, <1>2, <1>3, <1>4, <1>5, <1>6, <1>7, WakeKeeps
<1>9. CoroType'
  BY <1>0, <1>1, <1>6, <1>p, WakeType DEF CoroType
<1> QED
  BY <1>8, <1>9

\* The compare-exchange on data->resumed, by a job or by cancel().
LEMMA WinKeeps ==
  ASSUME BlockingInv, NEW a \in Awaits, NEW t \in Threads,
         NEW status \in {"completed", "cancelled"}, Win(a, t, status),
         role[a[1]] = "cancellable", Submitted(a) \/ Hooked(a),
         status = "completed" => data[a].result /\ Submitted(a),
         status = "cancelled" => cancelled',
         cancelled => cancelled',
         \A b \in Awaits \ {a} :
           /\ (Submitted(b)' <=> Submitted(b)) /\ (Hooked(b)' <=> Hooked(b))
           /\ (OnePlace(b) => OnePlace(b)'),
         OnePlace(a) => OnePlace(a)', Submitted(a)' => Submitted(a), Hooked(a)' => Hooked(a)
  PROVE  CoroType' /\ WaitInv'
<1>0. CoroType /\ WaitInv
  BY DEF BlockingInv
<1>1. a[2] <= round[a[1]] /\ a[1] \in Coros
  BY <1>0, JobIsAwaited, AwaitParts
<1>i. AwaitInv(a) /\ Place(a[1])
  BY <1>0, <1>1 DEF WaitInv
<1>2. CASE ~data[a].resumed
  <2>1. /\ data' = [data EXCEPT ![a].resumed = TRUE, ![a].status = status]
        /\ WakeUp(a, t)
        /\ role' = role /\ sus' = sus /\ round' = round /\ outcome' = outcome
    BY <1>2 DEF Win, Wake
  <2>2. /\ data'[a].status = status /\ data'[a].resumed /\ data'[a].result = data[a].result
        /\ \A b \in Awaits \ {a} : data'[b] = data[b]
        /\ data' \in [Awaits -> DataType]
    BY <1>0, <2>1, WinData DEF CoroType
  <2>3. wakes[a] = 0 /\ a[2] = round[a[1]]
    BY <1>i, <1>1, <1>2 DEF AwaitInv, Woken
  <2>4. sus[a[1]].at # "register"
    BY <1>i, <2>3, NoneAssumption DEF AwaitInv, Last
  <2>5. WaitInv'
    <3>1. data'[a].status = "completed" => data'[a].result /\ Submitted(a)
      BY <2>2
    <3>2. data'[a].status = "cancelled" => cancelled'
      BY <2>2
    <3> QED
      BY <1>0, <1>1, <2>1, <2>2, <2>3, <2>4, <3>1, <3>2, WakeKeeps
  <2>6. CoroType'
    BY <1>0, <2>1, <2>2, WakeType DEF CoroType
  <2> QED
    BY <2>5, <2>6
<1>3. CASE data[a].resumed
  <2>1. /\ role' = role /\ st' = st /\ on' = on /\ sus' = sus /\ round' = round
        /\ data' = data /\ outcome' = outcome /\ wakes' = wakes
    BY <1>3 DEF Win, coroVars
  <2>2. CoroType'
    BY <1>0, <2>1 DEF CoroType
  <2>3. wakes[a] = 1
    BY <1>i, <1>3 DEF AwaitInv, Woken
  <2>4. AwaitInv(a)'
    <3>1. ~(a[2] > round[a[1]]) /\ round[a[1]] \in Nat /\ a[2] \in Nat
      BY <1>0, <1>1, AwaitParts, BlockingAssumption DEF CoroType
    <3>2. Woken(a)'
      BY <1>i, <2>1 DEF AwaitInv, Woken
    <3>3. Stored(a)'
      BY <1>i, <2>1 DEF AwaitInv, Stored
    <3>4. Last(a)'
      BY <1>i, <2>1, <2>3 DEF AwaitInv, Last
    <3>5. Thrown(a)'
      BY <1>i, <2>1 DEF AwaitInv, Thrown
    <3> QED
      BY <3>1, <3>2, <3>3, <3>4, <3>5, <2>1 DEF AwaitInv
  <2>5. \A b \in Awaits \ {a} : AwaitInv(b)'
    BY <1>0, <2>1, AwaitKept DEF WaitInv
  <2>6. \A d \in Coros : Place(d)'
    BY <1>0, <2>1, PlaceKept DEF WaitInv
  <2> QED
    BY <2>2, <2>4, <2>5, <2>6 DEF WaitInv
<1> QED
  BY <1>2, <1>3

\* The job of cancellable_blocking_awaiter.
LEMMA CancellableJobKeeps ==
  ASSUME BlockingInv, NEW x \in PoolWorkers, CancellableJobEnds(x)
  PROVE  CoroType' /\ WaitInv'
<1>1. PICK a \in Awaits :
      /\ a = job[x] /\ role[a[1]] = "cancellable" /\ data[a].result
      /\ Win(a, x, "completed") /\ JobEnds(x, FALSE)
      /\ callbacks' = callbacks /\ cbs' = cbs /\ cancelled' = cancelled
  BY DEF CancellableJobEnds, cancelVars
<1>p. x \in Threads
  BY DEF Threads
<1>0. PoolTypeOK /\ CoroType /\ WaitInv
  BY DEF BlockingInv
<1>2. /\ \A b \in Awaits : OnePlace(b) => OnePlace(b)'
      /\ \A b \in Awaits \ {a} : Submitted(b)' <=> Submitted(b)
      /\ Submitted(a) /\ (Submitted(a)' => Submitted(a))
  BY <1>0, <1>1, AwaitEnds
<1>3. \A b : Hooked(b)' <=> Hooked(b)
  BY <1>1, HooksStay
<1> QED
  BY <1>0, <1>1, <1>2, <1>3, <1>p, WinKeeps

\* cancel() calls the callback of an await.
LEMMA CallbackKeeps ==
  ASSUME BlockingInv, NEW k \in Cancellers, NEW a \in Awaits, CallCallback(k, a)
  PROVE  CoroType' /\ WaitInv'
<1>1. /\ a \in cbs[k] /\ cbs' = [cbs EXCEPT ![k] = @ \ {a}]
      /\ cancelled' = cancelled /\ callbacks' = callbacks
      /\ Win(a, k, "cancelled") /\ queue' = queue /\ job' = job
  BY DEF CallCallback, TakeCallback, poolVars, workerVars
<1>0. CoroType /\ WaitInv /\ cbs \in [Cancellers -> SUBSET Clients] /\ CancelInv
  BY DEF BlockingInv, CancellationTypeOK
<1>p. k \in Threads
  BY DEF Threads
<1>2. Hooked(a) /\ cancelled
  BY <1>0, <1>1 DEF Hooked, CancelInv
<1>3. role[a[1]] = "cancellable"
  BY <1>0, <1>2 DEF WaitInv, AwaitInv, Woken
<1>4. \A b \in Awaits \ {a}, l \in Cancellers : b \in cbs'[l] <=> b \in cbs[l]
  BY <1>0, <1>1
<1>5. \A b \in Awaits \ {a} : Hooked(b)' <=> Hooked(b)
  BY <1>1, <1>4 DEF Hooked
<1>6. \A b : (Submitted(b)' <=> Submitted(b)) /\ (OnePlace(b) => OnePlace(b)')
  BY <1>1, JobsStay
<1> QED
  BY <1>1, <1>2, <1>3, <1>5, <1>6, <1>p, WinKeeps

\* The job of a cancellable await stores its result.
LEMMA StoreResultKeeps ==
  ASSUME BlockingInv, NEW x \in PoolWorkers, StoreResult(x)
  PROVE  CoroType' /\ WaitInv'
<1>1. PICK a \in Awaits :
        /\ a = job[x] /\ role[a[1]] = "cancellable"
        /\ data' = [data EXCEPT ![a].result = TRUE]
        /\ queue' = queue /\ job' = job /\ callbacks' = callbacks /\ cbs' = cbs
        /\ cancelled' = cancelled
        /\ role' = role /\ st' = st /\ on' = on /\ sus' = sus /\ round' = round
        /\ outcome' = outcome /\ wakes' = wakes
  BY DEF StoreResult, poolVars, workerVars, cancelVars
<1>0. CoroType /\ WaitInv
  BY DEF BlockingInv
<1>2. /\ data' \in [Awaits -> DataType]
      /\ data'[a].result /\ data'[a].status = data[a].status
      /\ data'[a].resumed = data[a].resumed
      /\ \A b \in Awaits \ {a} : data'[b] = data[b]
  BY <1>0, <1>1, ResultData DEF CoroType
<1>3. \A b : /\ (Submitted(b)' <=> Submitted(b)) /\ (OnePlace(b) => OnePlace(b)')
             /\ (Hooked(b)' <=> Hooked(b))
  BY <1>1, JobsStay, HooksStay
<1>4. CoroType'
  BY <1>0, <1>1, <1>2 DEF CoroType
<1>5. Submitted(a)
  BY <1>1 DEF Submitted
<1>6. a[2] <= round[a[1]] /\ a[2] \in Nat /\ round[a[1]] \in Nat
  BY <1>0, <1>5, JobIsAwaited, AwaitParts, BlockingAssumption DEF CoroType
<1>7. AwaitInv(a)'
  <2>1. Woken(a)'
    BY <1>0, <1>1, <1>2, <1>3 DEF WaitInv, AwaitInv, Woken
  <2>2. Stored(a)'
    BY <1>0, <1>1, <1>2 DEF WaitInv, AwaitInv, Stored
  <2>3. Last(a)'
    BY <1>0, <1>1, <1>2, <1>3 DEF WaitInv, AwaitInv, Last
  <2>4. ~(a[2] > round'[a[1]])
    BY <1>1, <1>6
  <2>5. Thrown(a)'
    BY <1>0, <1>1, <1>2, <1>3 DEF WaitInv, AwaitInv, Thrown
  <2> QED
    BY <2>1, <2>2, <2>3, <2>4, <2>5 DEF AwaitInv
<1>8. \A b \in Awaits \ {a} : AwaitInv(b)'
  BY <1>0, <1>1, <1>2, <1>3, AwaitKept DEF WaitInv
<1>9. \A c \in Coros : Place(c)'
  BY <1>0, <1>1, PlaceKept DEF WaitInv
<1> QED
  BY <1>4, <1>7, <1>8, <1>9 DEF WaitInv

-----------------------------------------------------------------------------
(* The steps of a coroutine.                                               *)

\* What is nowhere is nowhere twice.
LEMMA NowhereOnce == \A j : ~Submitted(j) => OnePlace(j)
  BY DEF Submitted, OnePlace, InQueue

\* start()
LEMMA StartKeeps ==
  ASSUME BlockingInv, NEW c \in Coros, Start(c)
  PROVE  CoroType' /\ WaitInv'
<1>1. /\ st[c] = "idle" /\ \A d \in Passive : Child[d] # c
      /\ st' = [st EXCEPT ![c] = "ready"]
      /\ queue' = queue /\ job' = job /\ callbacks' = callbacks /\ cbs' = cbs
      /\ cancelled' = cancelled /\ role' = role /\ on' = on /\ sus' = sus /\ round' = round
      /\ data' = data /\ outcome' = outcome /\ wakes' = wakes
  BY DEF Start, poolVars, workerVars, cancelVars
<1>0. CoroType /\ WaitInv
  BY DEF BlockingInv
<1>2. st'[c] = "ready" /\ \A d \in Coros \ {c} : st'[d] = st[d]
  BY <1>0, <1>1 DEF CoroType
<1>3. \A b : /\ (Submitted(b)' <=> Submitted(b)) /\ (OnePlace(b) => OnePlace(b)')
             /\ (Hooked(b)' <=> Hooked(b))
  BY <1>1, JobsStay, HooksStay
<1>4. CoroType'
  BY <1>0, <1>1 DEF CoroType
<1>p. Place(c) /\ round[c] = 0
  BY <1>0, <1>1 DEF WaitInv, Place
<1>5. Place(c)'
  <2>1. c \in Passive => Child[c] \in Coros \ {c} /\ st[Child[c]] = "idle"
    BY <1>p, <1>1, BlockingAssumption DEF Place
  <2> QED
    BY <1>p, <1>1, <1>2, <2>1 DEF Place, NotIn
<1>6. ASSUME NEW a \in Awaits, a[1] = c PROVE AwaitInv(a)'
  <2>1. AwaitInv(a) /\ a[2] # 0 /\ a[2] > round[c] /\ ~(a[2] <= round[c])
    BY <1>0, <1>p, <1>6, AwaitParts DEF WaitInv
  <2>2. Untouched(a)'
    BY <1>1, <1>3, <1>6, <2>1 DEF AwaitInv, Untouched, Fresh
  <2>3. Woken(a)'
    BY <1>1, <1>3, <1>6, <2>1 DEF AwaitInv, Woken
  <2>4. Stored(a)'
    BY <1>1, <2>1 DEF AwaitInv, Stored
  <2>5. Last(a)'
    BY <1>p, <1>1, <1>6, <2>1 DEF Last
  <2>6. Thrown(a)'
    BY <1>1, <1>6, <2>1, NoneAssumption DEF AwaitInv, Untouched, Thrown
  <2> QED
    BY <2>2, <2>3, <2>4, <2>5, <2>6 DEF AwaitInv
<1> QED
  BY <1>0, <1>1, <1>2, <1>3, <1>4, <1>5, <1>6, OthersKept

\* when_all_passive starts its task.
LEMMA BeginPassiveKeeps ==
  ASSUME BlockingInv, NEW c \in Coros, BeginPassive(c)
  PROVE  CoroType' /\ WaitInv'
<1>0. CoroType /\ WaitInv
  BY DEF BlockingInv
<1>c. c \in Passive /\ Child[c] \in Coros \ Passive /\ Child[c] # c
  BY <1>0, BlockingAssumption DEF BeginPassive, WaitInv, Place
<1>1. PICK d \in Coros : d = Child[c]
  BY <1>c
<1>2. /\ st[c] = "ready" /\ role[c] = "passive"
      /\ st' = [st EXCEPT ![c] = "body", ![d] = "ready"]
      /\ on' = [on EXCEPT ![c] = RunsOn(c), ![d] = ScheduledOn(RunsOn(c))]
      /\ queue' = queue /\ job' = job /\ callbacks' = callbacks /\ cbs' = cbs
      /\ cancelled' = cancelled /\ role' = role /\ sus' = sus /\ round' = round
      /\ data' = data /\ outcome' = outcome /\ wakes' = wakes
  BY <1>1 DEF BeginPassive, poolVars, workerVars, cancelVars
<1>3. st'[c] = "body" /\ st'[d] = "ready" /\ \A e \in Coros \ {c, d} : st'[e] = st[e]
  BY <1>0, <1>1, <1>2, <1>c DEF CoroType
<1>4. \A b : /\ (Submitted(b)' <=> Submitted(b)) /\ (OnePlace(b) => OnePlace(b)')
             /\ (Hooked(b)' <=> Hooked(b))
  BY <1>2, JobsStay, HooksStay
<1>5. CoroType'
  <2>1. RunsOn(c) \in Threads /\ ScheduledOn(RunsOn(c)) \in Threads
    BY <1>0 DEF CoroType, RunsOn, ScheduledOn, Threads
  <2>2. on' \in [Coros -> Threads]
    BY <1>0, <1>2, <2>1 DEF CoroType
  <2>3. st' \in [Coros -> {"idle", "ready", "body", "suspended", "runnable", "done"}]
    BY <1>0, <1>2 DEF CoroType
  <2> QED
    BY <1>0, <1>2, <2>2, <2>3 DEF CoroType
<1>p. Place(c) /\ Place(d) /\ st[d] = "idle" /\ round[d] = 0
  BY <1>0, <1>1, <1>2, <1>c DEF WaitInv, Place
<1>6. Place(c)' /\ Place(d)'
  <2>1. Place(c)'
    BY <1>p, <1>2, <1>3 DEF Place, NotIn
  <2>2. Place(d)'
    BY <1>p, <1>1, <1>2, <1>3, <1>c DEF Place, NotIn
  <2> QED
    BY <2>1, <2>2
<1>7. ASSUME NEW e \in Coros \ {c, d} PROVE Place(e)'
  <2>1. e \in Passive => st'[Child[e]] = st[Child[e]] \/ st[Child[e]] # "idle"
    <3>1. SUFFICES ASSUME e \in Passive
                   PROVE  st'[Child[e]] = st[Child[e]] \/ st[Child[e]] # "idle"
      OBVIOUS
    <3>2. Child[e] \in Coros /\ Child[e] # d /\ Child[e] # c
      BY <3>1, <1>1, <1>c, BlockingAssumption
    <3> QED
      BY <3>2, <1>3
  <2>2. Place(e)
    BY <1>0 DEF WaitInv
  <2> QED
    BY <2>1, <2>2, <1>2, <1>3, PlaceKept
<1>8. ASSUME NEW a \in Awaits PROVE AwaitInv(a)'
  <2>0. AwaitInv(a) /\ a[1] \in Coros /\ a[2] \in 1 .. MaxAwaits
    BY <1>0, AwaitParts DEF WaitInv
  <2>1. CASE a[1] \notin {c, d}
    BY <2>0, <2>1, <1>2, <1>3, <1>4, AwaitKept
  <2>2. CASE a[1] \in {c, d}
    <3>1. st[a[1]] \in {"ready", "idle"} /\ st'[a[1]] \in {"body", "ready"}
      BY <2>2, <1>2, <1>3, <1>p
    <3>2. Untouched(a) => Untouched(a)'
      BY <1>2, <1>4 DEF Untouched, Fresh
    <3>3. Woken(a)'
      BY <2>0, <1>2, <1>4, <3>1 DEF AwaitInv, Woken
    <3>4. Stored(a)'
      BY <2>0, <1>2 DEF AwaitInv, Stored
    <3>5. Last(a)'
      BY <2>0, <1>2, <1>4, <3>1 DEF AwaitInv, Last
    <3>6. Thrown(a)'
      BY <2>0, <1>2, <3>1 DEF AwaitInv, Thrown
    <3> QED
      BY <2>0, <3>2, <3>3, <3>4, <3>5, <3>6, <1>2 DEF AwaitInv
  <2> QED
    BY <2>1, <2>2
<1> QED
  BY <1>5, <1>6, <1>7, <1>8 DEF WaitInv

\* c reaches its next co_await, of which nothing exists yet, while all before have ended.
LEMMA NextAwait ==
  ASSUME CoroType, WaitInv, NEW c \in Coros, NEW r, Reaches(c, r)
  PROVE  /\ <<c, round[c] + 1>> \in Awaits /\ Untouched(<<c, round[c] + 1>>)
         /\ sus[c].at = None /\ st[c] \in {"ready", "body"} /\ role[c] = r
         /\ round' \in [Coros -> 0 .. MaxAwaits] /\ round'[c] = round[c] + 1
         /\ \A d \in Coros \ {c} : round'[d] = round[d]
         /\ role' = role /\ data' = data /\ wakes' = wakes
         /\ \A b \in Awaits : b[1] = c /\ b # <<c, round[c] + 1>> =>
              \/ b[2] > round'[c] /\ Untouched(b) /\ b[2] # round'[c] /\ ~(b[2] <= round'[c])
              \/ ~(b[2] > round'[c]) /\ b[2] # round'[c] /\ wakes[b] # 0
<1>1. /\ round[c] \in Nat /\ MaxAwaits \in Nat /\ round[c] < MaxAwaits
      /\ round' = [round EXCEPT ![c] = round[c] + 1]
      /\ role[c] = r /\ role' = role /\ data' = data /\ wakes' = wakes
      /\ st[c] \in {"ready", "body"}
  BY BlockingAssumption DEF CoroType, Reaches
<1>2. round[c] + 1 \in 1 .. MaxAwaits
  BY <1>1
<1>3. <<c, round[c] + 1>> \in Awaits
  BY <1>2 DEF Awaits
<1>4. /\ round' \in [Coros -> 0 .. MaxAwaits] /\ round'[c] = round[c] + 1
      /\ \A d \in Coros \ {c} : round'[d] = round[d]
  <2>1. round[c] + 1 \in 0 .. MaxAwaits
    BY <1>2
  <2> QED
    BY <1>1, <2>1 DEF CoroType
<1>5. sus[c].at = None
  BY <1>1 DEF WaitInv, Place
<1>6. ASSUME NEW a \in Awaits, a[1] = c, a[2] > round[c] PROVE Untouched(a)
  BY <1>6 DEF WaitInv, AwaitInv
<1>7. ASSUME NEW a \in Awaits, a[1] = c, a[2] <= round[c] PROVE wakes[a] # 0
  BY <1>1, <1>7 DEF WaitInv, AwaitInv, Woken
<1>8. Untouched(<<c, round[c] + 1>>)
  <2>1. PICK a \in Awaits : a = <<c, round[c] + 1>>
    BY <1>3
  <2>2. a[1] = c /\ a[2] > round[c]
    BY <2>1, <1>1
  <2> QED
    BY <2>1, <2>2, <1>6
<1>9. ASSUME NEW b \in Awaits, b[1] = c, b # <<c, round[c] + 1>>
      PROVE  \/ b[2] > round'[c] /\ Untouched(b) /\ b[2] # round'[c] /\ ~(b[2] <= round'[c])
             \/ ~(b[2] > round'[c]) /\ b[2] # round'[c] /\ wakes[b] # 0
  <2>1. b[2] \in Nat /\ b[2] # round[c] + 1
    BY <1>9, AwaitParts
  <2>2. CASE b[2] > round[c] + 1
    BY <2>1, <2>2, <1>1, <1>4, <1>6, <1>9
  <2>3. CASE ~(b[2] > round[c] + 1)
    <3>1. b[2] <= round[c]
      BY <2>1, <2>3, <1>1
    <3>2. wakes[b] # 0
      BY <3>1, <1>7, <1>9
    <3> QED
      BY <3>2, <2>1, <2>3, <1>4
  <2> QED
    BY <2>2, <2>3
<1> QED
  BY <1>1, <1>3, <1>4, <1>5, <1>8, <1>9

\* ... so that what was true of the others still is.
LEMMA EarlierKept ==
  ASSUME CoroType, WaitInv, NEW c \in Coros, NEW r, Reaches(c, r),
         NEW b \in Awaits, b[1] = c, b # <<c, round[c] + 1>>, outcome'[b] = outcome[b],
         Submitted(b)' <=> Submitted(b), Hooked(b)' <=> Hooked(b),
         OnePlace(b) => OnePlace(b)', cancelled' = cancelled
  PROVE  AwaitInv(b)'
<1>1. /\ \/ b[2] > round'[c] /\ Untouched(b) /\ b[2] # round'[c] /\ ~(b[2] <= round'[c])
         \/ ~(b[2] > round'[c]) /\ b[2] # round'[c] /\ wakes[b] # 0
      /\ role' = role /\ data' = data /\ wakes' = wakes
  <2>1. /\ role' = role /\ data' = data /\ wakes' = wakes
        /\ \A e \in Awaits : e[1] = c /\ e # <<c, round[c] + 1>> =>
             \/ e[2] > round'[c] /\ Untouched(e) /\ e[2] # round'[c] /\ ~(e[2] <= round'[c])
             \/ ~(e[2] > round'[c]) /\ e[2] # round'[c] /\ wakes[e] # 0
    BY NextAwait
  <2> QED
    BY <2>1
<1>2. AwaitInv(b)
  BY DEF WaitInv
<1>3. Untouched(b) => Untouched(b)'
  BY <1>1 DEF Untouched, Fresh
<1>4. Woken(b)'
  BY <1>1, <1>2 DEF AwaitInv, Woken
<1>5. Stored(b)'
  BY <1>1, <1>2 DEF AwaitInv, Stored
<1>6. Last(b)'
  BY <1>1 DEF Last
<1>7. Thrown(b)'
  <2>1. st[c] \in {"ready", "body"}
    BY NextAwait
  <2>2. outcome[b] # "thrown"
    BY <1>2, <2>1 DEF AwaitInv, Thrown
  <2> QED
    BY <2>2 DEF Thrown
<1> QED
  BY <1>1, <1>3, <1>4, <1>5, <1>6, <1>7 DEF AwaitInv

\* await_suspend of callable_awaiter.
LEMMA AwaitCallableKeeps ==
  ASSUME BlockingInv, NEW c \in Coros, AwaitCallable(c)
  PROVE  CoroType' /\ WaitInv'
<1>0. PoolTypeOK /\ PoolInv /\ CoroType /\ WaitInv
  BY DEF BlockingInv
<1>1. PICK r \in {"plain", "passive"} : Reaches(c, r)
  BY DEF AwaitCallable
<1>2. /\ <<c, round[c] + 1>> \in Awaits /\ Untouched(<<c, round[c] + 1>>)
      /\ sus[c].at = None /\ st[c] \in {"ready", "body"} /\ role[c] = r
      /\ round' \in [Coros -> 0 .. MaxAwaits] /\ round'[c] = round[c] + 1
      /\ \A d \in Coros \ {c} : round'[d] = round[d]
      /\ role' = role /\ data' = data /\ wakes' = wakes
  BY <1>0, <1>1, NextAwait
<1>3. PICK a \in Awaits : a = <<c, round[c] + 1>>
  BY <1>2
<1>4. /\ st' = [st EXCEPT ![c] = "suspended"] /\ on' = [on EXCEPT ![c] = None]
      /\ ScheduleTask(a) /\ callbacks' = callbacks /\ cbs' = cbs /\ cancelled' = cancelled
      /\ sus' = sus /\ outcome' = outcome
  BY <1>3 DEF AwaitCallable, cancelVars
<1>5. /\ Submitted(a)' /\ OnePlace(a)'
      /\ \A b \in Awaits \ {a} :
           (Submitted(b)' <=> Submitted(b)) /\ (OnePlace(b) => OnePlace(b)')
  BY <1>0, <1>2, <1>3, <1>4, ScheduleAdds DEF Untouched
<1>6. \A b : Hooked(b)' <=> Hooked(b)
  BY <1>4, HooksStay
<1>7. st'[c] = "suspended" /\ \A d \in Coros \ {c} : st'[d] = st[d]
  BY <1>0, <1>4 DEF CoroType
<1>8. CoroType'
  <2>1. None \in Threads
    BY DEF Threads
  <2> QED
    BY <1>0, <1>2, <1>4, <2>1 DEF CoroType
<1>n. round[c] \in Nat /\ a[1] = c /\ a[2] = round[c] + 1 /\ round'[c] # 0
  BY <1>0, <1>2, <1>3, BlockingAssumption DEF CoroType
<1>9. Place(c)'
  <2>1. Place(c)
    BY <1>0 DEF WaitInv
  <2> QED
    BY <2>1, <1>2, <1>4, <1>7, <1>n DEF Place, NotIn
<1>10. AwaitInv(a)'
  <2>1. Untouched(a) /\ role[c] # "cancellable"
    BY <1>1, <1>2, <1>3
  <2>2. Woken(a)'
    BY <2>1, <1>2, <1>5, <1>6, <1>7, <1>n DEF Woken, Untouched, Fresh
  <2>3. Stored(a)'
    BY <2>1, <1>2, <1>4, NoneAssumption DEF Stored, Untouched, Fresh
  <2>4. Last(a)'
    BY <2>1, <1>2, <1>4, <1>5, <1>7, <1>n, NoneAssumption DEF Last, Untouched
  <2>5. ~(a[2] > round'[a[1]])
    BY <1>2, <1>n
  <2>6. Thrown(a)'
    BY <2>1, <1>4, NoneAssumption DEF Untouched, Thrown
  <2> QED
    BY <2>2, <2>3, <2>4, <2>5, <2>6 DEF AwaitInv
<1>11. ASSUME NEW b \in Awaits, b[1] = c PROVE AwaitInv(b)'
  <2>1. CASE b = a
    BY <2>1, <1>10
  <2>2. CASE b # a
    BY <2>2, <1>0, <1>1, <1>3, <1>4, <1>5, <1>6, <1>11, EarlierKept
  <2> QED
    BY <2>1, <2>2
<1>12. \A b \in Awaits : b[1] # c => b # a
  BY <1>n
<1> QED
  BY <1>0, <1>2, <1>4, <1>5, <1>6, <1>7, <1>8, <1>9, <1>11, <1>12, OthersKept

\* schedule_task throws into the coroutine.
LEMMA AwaitThrowsKeeps ==
  ASSUME BlockingInv, NEW c \in Coros, AwaitThrows(c)
  PROVE  CoroType' /\ WaitInv'
<1>0. CoroType /\ WaitInv
  BY DEF BlockingInv
<1>1. PICK r \in {"plain", "passive"} : Reaches(c, r)
  BY DEF AwaitThrows
<1>2. /\ <<c, round[c] + 1>> \in Awaits /\ Untouched(<<c, round[c] + 1>>)
      /\ sus[c].at = None /\ st[c] \in {"ready", "body"} /\ role[c] = r
      /\ round' \in [Coros -> 0 .. MaxAwaits] /\ round'[c] = round[c] + 1
      /\ \A d \in Coros \ {c} : round'[d] = round[d]
      /\ role' = role /\ data' = data /\ wakes' = wakes
  BY <1>0, <1>1, NextAwait
<1>3. PICK a \in Awaits : a = <<c, round[c] + 1>>
  BY <1>2
<1>4. /\ st' = [st EXCEPT ![c] = "done"] /\ on' = [on EXCEPT ![c] = None]
      /\ callbacks' = callbacks /\ cbs' = cbs /\ cancelled' = cancelled
      /\ queue' = queue /\ job' = job
      /\ sus' = sus /\ outcome' = [outcome EXCEPT ![a] = "thrown"]
  BY <1>3 DEF AwaitThrows, cancelVars, poolVars, workerVars
<1>5. \A b : /\ (Submitted(b)' <=> Submitted(b)) /\ (OnePlace(b) => OnePlace(b)')
             /\ (Hooked(b)' <=> Hooked(b))
  BY <1>4, JobsStay, HooksStay
<1>6. outcome'[a] = "thrown" /\ \A b \in Awaits \ {a} : outcome'[b] = outcome[b]
  BY <1>0, <1>4 DEF CoroType
<1>7. st'[c] = "done" /\ \A d \in Coros \ {c} : st'[d] = st[d]
  BY <1>0, <1>4 DEF CoroType
<1>8. CoroType'
  <2>1. None \in Threads
    BY DEF Threads
  <2> QED
    BY <1>0, <1>2, <1>4, <2>1 DEF CoroType
<1>n. round[c] \in Nat /\ a[1] = c /\ a[2] = round[c] + 1 /\ round'[c] # 0
  BY <1>0, <1>2, <1>3, BlockingAssumption DEF CoroType
<1>9. Place(c)'
  <2>1. Place(c)
    BY <1>0 DEF WaitInv
  <2> QED
    BY <2>1, <1>2, <1>4, <1>7, <1>n DEF Place, NotIn
<1>10. AwaitInv(a)'
  <2>1. Untouched(a) /\ role[c] # "cancellable"
    BY <1>1, <1>2, <1>3
  <2>0. OnePlace(a)'
    BY <2>1, <1>5, NowhereOnce DEF Untouched
  <2>2. Woken(a)'
    BY <2>0, <2>1, <1>2, <1>5, <1>7, <1>n DEF Woken, Untouched, Fresh
  <2>3. Stored(a)'
    BY <2>1, <1>2, <1>6 DEF Stored, Untouched, Fresh
  <2>4. Last(a)'
    BY <2>1, <1>2, <1>4, <1>7, <1>n, NoneAssumption DEF Last
  <2>5. ~(a[2] > round'[a[1]])
    BY <1>2, <1>n
  <2>6. Thrown(a)'
    BY <2>1, <1>2, <1>4, <1>5, <1>7, <1>n DEF Untouched, Thrown
  <2> QED
    BY <2>2, <2>3, <2>4, <2>5, <2>6 DEF AwaitInv
<1>11. ASSUME NEW b \in Awaits, b[1] = c PROVE AwaitInv(b)'
  <2>1. CASE b = a
    BY <2>1, <1>10
  <2>2. CASE b # a
    BY <2>2, <1>0, <1>1, <1>3, <1>4, <1>5, <1>6, <1>11, EarlierKept
  <2> QED
    BY <2>1, <2>2
<1>12. \A b \in Awaits : b[1] # c => b # a
  BY <1>n
<1> QED
  BY <1>0, <1>2, <1>4, <1>5, <1>6, <1>7, <1>8, <1>9, <1>11, <1>12, OthersKept

\* await_suspend of cancellable_blocking_awaiter begins.
LEMMA AwaitCancellableKeeps ==
  ASSUME BlockingInv, NEW c \in Coros, AwaitCancellable(c)
  PROVE  CoroType' /\ WaitInv'
<1>0. CoroType /\ WaitInv
  BY DEF BlockingInv
<1>1. Reaches(c, "cancellable")
  BY DEF AwaitCancellable
<1>2. /\ <<c, round[c] + 1>> \in Awaits /\ Untouched(<<c, round[c] + 1>>)
      /\ sus[c].at = None /\ st[c] \in {"ready", "body"} /\ role[c] = "cancellable"
      /\ round' \in [Coros -> 0 .. MaxAwaits] /\ round'[c] = round[c] + 1
      /\ \A d \in Coros \ {c} : round'[d] = round[d]
      /\ role' = role /\ data' = data /\ wakes' = wakes
  BY <1>0, <1>1, NextAwait
<1>3. PICK a \in Awaits : a = <<c, round[c] + 1>>
  BY <1>2
<1>4. /\ st' = [st EXCEPT ![c] = "suspended"] /\ on' = [on EXCEPT ![c] = None]
      /\ callbacks' = callbacks /\ cbs' = cbs /\ cancelled' = cancelled
      /\ queue' = queue /\ job' = job /\ outcome' = outcome
      /\ sus' = [sus EXCEPT ![c] = [at |-> "register", by |-> RunsOn(c)]]
  BY <1>3 DEF AwaitCancellable, cancelVars, poolVars, workerVars
<1>5. \A b : /\ (Submitted(b)' <=> Submitted(b)) /\ (OnePlace(b) => OnePlace(b)')
             /\ (Hooked(b)' <=> Hooked(b))
  BY <1>4, JobsStay, HooksStay
<1>6. sus'[c].at = "register" /\ \A d \in Coros \ {c} : sus'[d] = sus[d]
  BY <1>0, <1>4 DEF CoroType
<1>7. st'[c] = "suspended" /\ \A d \in Coros \ {c} : st'[d] = st[d]
  BY <1>0, <1>4 DEF CoroType
<1>8. CoroType'
  <2>1. None \in Threads /\ RunsOn(c) \in Threads
    BY <1>0 DEF CoroType, RunsOn, Threads
  <2>2. sus' \in [Coros -> [at : {None, "register", "post"}, by : Threads]]
    BY <1>0, <1>4, <2>1 DEF CoroType
  <2> QED
    BY <1>0, <1>2, <1>4, <2>1, <2>2 DEF CoroType
<1>n. round[c] \in Nat /\ a[1] = c /\ a[2] = round[c] + 1 /\ round'[c] # 0
  BY <1>0, <1>2, <1>3, BlockingAssumption DEF CoroType
<1>9. Place(c)'
  <2>1. Place(c)
    BY <1>0 DEF WaitInv
  <2> QED
    BY <2>1, <1>2, <1>4, <1>6, <1>7, <1>n, NoneAssumption DEF Place, NotIn
<1>10. AwaitInv(a)'
  <2>1. Untouched(a)
    BY <1>2, <1>3
  <2>2. Woken(a)'
    BY <2>1, <1>2, <1>7, <1>n DEF Woken, Untouched, Fresh
  <2>3. Stored(a)'
    BY <2>1, <1>2, <1>4, NoneAssumption DEF Stored, Untouched, Fresh
  <2>4. Last(a)'
    BY <2>1, <1>2, <1>4, <1>5, <1>6, <1>7, <1>n, NoneAssumption DEF Last, Untouched
  <2>5. ~(a[2] > round'[a[1]])
    BY <1>2, <1>n
  <2>6. Thrown(a)'
    BY <2>1, <1>4, NoneAssumption DEF Untouched, Thrown
  <2> QED
    BY <2>2, <2>3, <2>4, <2>5, <2>6 DEF AwaitInv
<1>11. ASSUME NEW b \in Awaits, b[1] = c PROVE AwaitInv(b)'
  <2>1. CASE b = a
    BY <2>1, <1>10
  <2>2. CASE b # a
    BY <2>2, <1>0, <1>1, <1>3, <1>4, <1>5, <1>11, EarlierKept
  <2> QED
    BY <2>1, <2>2
<1> QED
  BY <1>0, <1>2, <1>4, <1>5, <1>6, <1>7, <1>8, <1>9, <1>11, OthersKept

\* await_suspend's part sus of coroutine c goes on.
LEMMA SusType ==
  ASSUME CoroType, NEW c \in Coros, NEW p1 \in {"register", "post"},
         sus' = [sus EXCEPT ![c].at = p1]
  PROVE  /\ sus' \in [Coros -> [at : {None, "register", "post"}, by : Threads]]
         /\ sus'[c].at = p1 /\ \A d \in Coros \ {c} : sus'[d] = sus[d]
<1> DEFINE S == [at : {None, "register", "post"}, by : Threads]
           e == [sus[c] EXCEPT !.at = p1]
<1>1. sus \in [Coros -> S]
  BY DEF CoroType
<1>2. sus' = [sus EXCEPT ![c] = e]
  BY <1>1
<1>3. e \in S /\ e.at = p1
  BY <1>1
<1> HIDE DEF S, e
<1> QED
  BY <1>1, <1>2, <1>3 DEF S

\* The last await of a coroutine that is in await_suspend.
LEMMA CurrentAwait ==
  ASSUME CoroType, WaitInv, NEW c \in Coros, round[c] # 0
  PROVE  /\ Current(c) \in Awaits /\ Current(c)[1] = c /\ Current(c)[2] = round[c]
         /\ round[c] \in Nat /\ Current(c) = <<c, round[c]>>
         /\ \A b \in Awaits : b[1] = c /\ b # Current(c) => b[2] # round[c]
<1>1. round[c] \in 1 .. MaxAwaits
  BY BlockingAssumption DEF CoroType
<1>2. Current(c) = <<c, round[c]>>
  BY DEF Current
<1>3. Current(c) \in Awaits
  BY <1>1, <1>2 DEF Awaits
<1> QED
  BY <1>1, <1>2, <1>3, AwaitParts

\* register_callback.
LEMMA RegisterKeeps ==
  ASSUME BlockingInv, NEW c \in Coros, RegisterCallback(c)
  PROVE  CoroType' /\ WaitInv'
<1>0. CoroType /\ WaitInv
  BY DEF BlockingInv
<1>p. /\ Place(c) /\ sus[c].at = "register" /\ role[c] = "cancellable" /\ round[c] # 0
      /\ st[c] = "suspended"
  BY <1>0, NoneAssumption DEF RegisterCallback, WaitInv, Place
<1>c. /\ Current(c) \in Awaits /\ Current(c)[1] = c /\ Current(c)[2] = round[c]
      /\ round[c] \in Nat
      /\ \A b \in Awaits : b[1] = c /\ b # Current(c) => b[2] # round[c]
  BY <1>0, <1>p, CurrentAwait
<1>1. PICK a \in Awaits : a = Current(c)
  BY <1>c
<1>2. /\ sus' = [sus EXCEPT ![c].at = "post"]
      /\ queue' = queue /\ job' = job /\ role' = role /\ round' = round /\ outcome' = outcome
      /\ cancelled' = cancelled /\ cbs' = cbs
      /\ \/ /\ cancelled /\ callbacks' = callbacks
            /\ data' = [data EXCEPT ![a].resumed = TRUE, ![a].status = "cancelled"]
            /\ WakeUp(a, sus[c].by)
         \/ /\ ~cancelled /\ callbacks' = callbacks \union {a}
            /\ data' = data /\ st' = st /\ on' = on /\ wakes' = wakes
  BY <1>1 DEF RegisterCallback, Register, poolVars, workerVars
<1>3. /\ sus' \in [Coros -> [at : {None, "register", "post"}, by : Threads]]
      /\ sus'[c].at = "post" /\ \A d \in Coros \ {c} : sus'[d] = sus[d]
  BY <1>0, <1>2, SusType
<1>4. \A b : (Submitted(b)' <=> Submitted(b)) /\ (OnePlace(b) => OnePlace(b)')
  BY <1>2, JobsStay
<1>a. /\ a[1] = c /\ a[2] = round[c] /\ AwaitInv(a)
      /\ wakes[a] = 0 /\ outcome[a] = None /\ ~Hooked(a) /\ ~Submitted(a)
  BY <1>0, <1>1, <1>c, <1>p, NoneAssumption DEF WaitInv, AwaitInv, Last
<1>5. CASE cancelled
  <2>1. /\ data' = [data EXCEPT ![a].resumed = TRUE, ![a].status = "cancelled"]
        /\ WakeUp(a, sus[c].by) /\ callbacks' = callbacks
    BY <1>2, <1>5
  <2>2. /\ data' \in [Awaits -> DataType]
        /\ data'[a].status = "cancelled" /\ data'[a].resumed
        /\ \A b \in Awaits \ {a} : data'[b] = data[b]
    BY <1>0, <2>1, WinData DEF CoroType
  <2>3. \A b : Hooked(b)' <=> Hooked(b)
    BY <1>2, <2>1, HooksStay
  <2>4. WaitInv'
    <3>1. a[2] <= round[a[1]]
      BY <1>a, <1>c
    <3>2. /\ \A d \in Coros \ {a[1]} : sus'[d] = sus[d]
          /\ sus[a[1]].at = "register" /\ sus'[a[1]].at = "post" /\ role[a[1]] = "cancellable"
      BY <1>a, <1>3, <1>p
    <3> QED
      BY <1>0, <1>2, <1>4, <1>5, <1>a, <2>1, <2>2, <2>3, <3>1, <3>2, WakeKeeps
  <2>5. sus[c].by \in Threads
    BY <1>0 DEF CoroType
  <2>6. CoroType'
    BY <1>0, <1>2, <1>3, <2>1, <2>2, <2>5, WakeType DEF CoroType
  <2> QED
    BY <2>4, <2>6
<1>6. CASE ~cancelled
  <2>1. /\ data' = data /\ st' = st /\ on' = on /\ wakes' = wakes
        /\ callbacks' = callbacks \union {a}
    BY <1>2, <1>6
  <2>2. CoroType'
    BY <1>0, <1>2, <1>3, <2>1 DEF CoroType
  <2>3. Hooked(a)' /\ \A b \in Awaits \ {a} : Hooked(b)' <=> Hooked(b)
    BY <1>2, <2>1 DEF Hooked
  <2>4. Place(c)'
    BY <1>p, <1>2, <1>3, <2>1, NoneAssumption DEF Place
  <2>5. AwaitInv(a)'
    <3>1. Woken(a)'
      BY <1>a, <1>p, <1>2, <1>4, <2>1 DEF AwaitInv, Woken
    <3>2. Stored(a)'
      BY <1>a, <1>2, <2>1 DEF AwaitInv, Stored
    <3>3. Last(a)'
      BY <1>a, <1>p, <1>2, <1>3, <1>4, <2>1, <2>3, NoneAssumption DEF Last
    <3>4. ~(a[2] > round'[a[1]])
      BY <1>a, <1>c, <1>2
    <3>5. Thrown(a)'
      BY <1>a, <1>p, <1>2 DEF AwaitInv, Thrown
    <3> QED
      BY <3>1, <3>2, <3>3, <3>4, <3>5 DEF AwaitInv
  <2>6. ASSUME NEW b \in Awaits, b[1] = c, b # a PROVE AwaitInv(b)'
    <3>1. AwaitInv(b) /\ b[2] # round[c]
      BY <1>0, <1>1, <1>c, <2>6 DEF WaitInv
    <3>2. Untouched(b) => Untouched(b)'
      BY <1>2, <1>4, <2>1, <2>3, <2>6 DEF Untouched, Fresh
    <3>3. Woken(b) => Woken(b)'
      BY <1>2, <1>4, <2>1, <2>3, <2>6 DEF Woken
    <3>4. Stored(b) => Stored(b)'
      BY <1>2, <2>1 DEF Stored
    <3>5. Last(b)'
      BY <3>1, <1>2, <2>6 DEF Last
    <3>6. Thrown(b)'
      BY <3>1, <1>p, <1>2, <2>6 DEF AwaitInv, Thrown
    <3> QED
      BY <3>1, <3>2, <3>3, <3>4, <3>5, <3>6, <1>2 DEF AwaitInv
  <2>7. \A b \in Awaits : b[1] = c => AwaitInv(b)'
    BY <2>5, <2>6
  <2>8. \A b \in Awaits : b[1] # c => b # a
    BY <1>a
  <2> QED
    BY <1>0, <1>2, <1>3, <1>4, <2>1, <2>2, <2>3, <2>4, <2>7, <2>8, OthersKept
<1> QED
  BY <1>5, <1>6

\* The rest of await_suspend.
LEMMA PostKeeps ==
  ASSUME BlockingInv, NEW c \in Coros, PostJob(c)
  PROVE  CoroType' /\ WaitInv'
<1>0. PoolTypeOK /\ PoolInv /\ CoroType /\ WaitInv
  BY DEF BlockingInv
<1>p. /\ Place(c) /\ sus[c].at = "post" /\ role[c] = "cancellable" /\ round[c] # 0
      /\ st[c] \in {"suspended", "runnable", "done"}
  BY <1>0, NoneAssumption DEF PostJob, WaitInv, Place
<1>c. /\ Current(c) \in Awaits /\ Current(c)[1] = c /\ Current(c)[2] = round[c]
      /\ round[c] \in Nat
      /\ \A b \in Awaits : b[1] = c /\ b # Current(c) => b[2] # round[c]
  BY <1>0, <1>p, CurrentAwait
<1>1. PICK a \in Awaits : a = Current(c)
  BY <1>c
<1>a. a[1] = c /\ a[2] = round[c] /\ AwaitInv(a) /\ ~Submitted(a)
  BY <1>0, <1>1, <1>c, <1>p, NoneAssumption DEF WaitInv, AwaitInv, Last
<1>2. /\ sus' = [sus EXCEPT ![c] = NotIn]
      /\ role' = role /\ round' = round /\ data' = data /\ wakes' = wakes
      /\ cancelled' = cancelled /\ callbacks' = callbacks /\ cbs' = cbs
      /\ \/ ScheduleTask(a) /\ st' = st /\ on' = on /\ outcome' = outcome
         \/ /\ st' = [st EXCEPT ![c] = "done"]
            /\ on' = [on EXCEPT ![c] = None]
            /\ outcome' = [outcome EXCEPT ![a] = "thrown"]
            /\ queue' = queue /\ job' = job
         \/ /\ outcome[a] # None /\ st' = st /\ on' = on /\ outcome' = outcome
            /\ queue' = queue /\ job' = job
  BY <1>1 DEF PostJob, Gone, poolVars, workerVars, cancelVars
<1>3. sus'[c] = NotIn /\ \A d \in Coros \ {c} : sus'[d] = sus[d]
  BY <1>0, <1>2 DEF CoroType
<1>4. \A b : Hooked(b)' <=> Hooked(b)
  BY <1>2, HooksStay
<1>n. NotIn.at = None
  BY DEF NotIn
<1>5. /\ st' \in [Coros -> {"idle", "ready", "body", "suspended", "runnable", "done"}]
      /\ outcome' \in [Awaits -> {None, "completed", "cancelled", "thrown", "empty"}]
      /\ \A d \in Coros \ {c} : st'[d] = st[d]
      /\ \A b \in Awaits \ {a} : outcome'[b] = outcome[b]
      /\ \/ st'[c] = st[c] /\ outcome'[a] = outcome[a]
         \/ /\ st'[c] = "done" /\ outcome'[a] = "thrown"
            /\ queue' = queue /\ job' = job
  BY <1>0, <1>2 DEF CoroType
<1>o. on' \in [Coros -> Threads]
  <2>1. None \in Threads
    BY DEF Threads
  <2> QED
    BY <2>1, <1>0, <1>2 DEF CoroType
<1>6. CoroType'
  <2>1. NotIn \in [at : {None, "register", "post"}, by : Threads]
    BY DEF NotIn, Threads
  <2>2. sus' \in [Coros -> [at : {None, "register", "post"}, by : Threads]]
    BY <1>0, <1>2, <2>1 DEF CoroType
  <2> QED
    BY <1>0, <1>2, <1>5, <1>o, <2>2 DEF CoroType
<1>7. /\ \A b \in Awaits \ {a} : (Submitted(b)' <=> Submitted(b)) /\ (OnePlace(b) => OnePlace(b)')
      /\ st'[c] = "suspended" => Submitted(a)'
  <2>1. CASE ScheduleTask(a)
    BY <2>1, <1>0, ScheduleAdds
  <2>2. CASE ~ScheduleTask(a)
    <3>1. queue' = queue /\ job' = job /\ st'[c] # "suspended"
      <4>1. outcome[a] # None => st[c] # "suspended"
        BY <1>a DEF AwaitInv, Last
      <4> QED
        BY <2>2, <4>1, <1>0, <1>2 DEF CoroType
    <3> QED
      BY <3>1, JobsStay
  <2> QED
    BY <2>1, <2>2
<1>8. Place(c)'
  BY <1>p, <1>2, <1>3, <1>5, <1>n, NoneAssumption DEF Place
<1>9. AwaitInv(a)'
  <2>1. Woken(a)'
    BY <1>a, <1>p, <1>2, <1>5 DEF AwaitInv, Woken
  <2>2. Stored(a)'
    BY <1>a, <1>2, <1>5 DEF AwaitInv, Stored
  <2>3. Last(a)'
    BY <1>a, <1>p, <1>2, <1>3, <1>4, <1>5, <1>7, <1>n, NoneAssumption DEF AwaitInv, Last
  <2>4. ~(a[2] > round'[a[1]])
    BY <1>a, <1>c, <1>2
  <2>5. Thrown(a)'
    <3>1. outcome[a] # "thrown"
      BY <1>a, <1>p, NoneAssumption DEF AwaitInv, Thrown
    <3>2. wakes[a] # 0 => data[a].status = "cancelled"
      BY <1>a, <1>p, NoneAssumption DEF AwaitInv, Last
    <3>3. CASE outcome'[a] = outcome[a]
      BY <3>1, <3>3 DEF Thrown
    <3>4. CASE st'[c] = "done" /\ queue' = queue /\ job' = job
      <4>1. ~Submitted(a)'
        BY <3>4, <1>a, JobsStay
      <4> QED
        BY <4>1, <3>2, <3>4, <1>a, <1>2, <1>3, <1>n DEF Thrown
    <3> QED
      BY <3>3, <3>4, <1>5
  <2> QED
    BY <2>1, <2>2, <2>3, <2>4, <2>5 DEF AwaitInv
<1>10. ASSUME NEW b \in Awaits, b[1] = c, b # a PROVE AwaitInv(b)'
  <2>1. AwaitInv(b) /\ b[2] # round[c]
    BY <1>0, <1>1, <1>c, <1>10 DEF WaitInv
  <2>s. /\ (Submitted(b)' <=> Submitted(b)) /\ (OnePlace(b) => OnePlace(b)')
        /\ (Hooked(b)' <=> Hooked(b)) /\ outcome'[b] = outcome[b]
    BY <1>4, <1>5, <1>7, <1>10
  <2>2. Untouched(b) => Untouched(b)'
    BY <1>2, <2>s DEF Untouched, Fresh
  <2>3. Woken(b) => Woken(b)'
    BY <1>2, <2>s, <2>1, <1>10, <1>p DEF Woken
  <2>4. Stored(b) => Stored(b)'
    BY <1>2, <2>s DEF Stored
  <2>5. Last(b)'
    BY <2>1, <1>2, <1>10 DEF Last
  <2>6. Thrown(b)'
    BY <2>1, <2>s, <1>10, <1>p, NoneAssumption DEF AwaitInv, Thrown
  <2> QED
    BY <2>1, <2>2, <2>3, <2>4, <2>5, <2>6, <1>2 DEF AwaitInv
<1>11. \A b \in Awaits : b[1] = c => AwaitInv(b)'
  BY <1>9, <1>10
<1>12. \A b \in Awaits : b[1] # c => b # a
  BY <1>a
<1>13. st'[c] = st[c] \/ st[c] # "idle"
  BY <1>p
<1> QED
  BY <1>0, <1>2, <1>3, <1>4, <1>5, <1>6, <1>7, <1>8, <1>11, <1>12, <1>13, OthersKept

\* await_resume, and what follows.
LEMMA ResumeKeeps ==
  ASSUME BlockingInv, NEW c \in Coros, Resume(c)
  PROVE  CoroType' /\ WaitInv'
<1>0. CoroType /\ WaitInv
  BY DEF BlockingInv
<1>p. Place(c) /\ st[c] = "runnable" /\ round[c] # 0
  BY <1>0 DEF Resume, WaitInv, Place
<1>c. /\ Current(c) \in Awaits /\ Current(c)[1] = c /\ Current(c)[2] = round[c]
      /\ round[c] \in Nat
      /\ \A b \in Awaits : b[1] = c /\ b # Current(c) => b[2] # round[c]
  BY <1>0, <1>p, CurrentAwait
<1>1. PICK a \in Awaits : a = Current(c)
  BY <1>c
<1>a. a[1] = c /\ a[2] = round[c] /\ AwaitInv(a) /\ wakes[a] # 0
  BY <1>0, <1>1, <1>c, <1>p DEF WaitInv, AwaitInv, Last
<1>2. /\ outcome' = [outcome EXCEPT ![a] =
                       IF data[a].status = "completed" /\ ~data[a].result THEN "empty"
                       ELSE data[a].status]
      /\ callbacks' = callbacks \/ callbacks' = callbacks \ {a}
      /\ cancelled' = cancelled /\ cbs' = cbs
      /\ \/ st' = [st EXCEPT ![c] = "done"] /\ on' = [on EXCEPT ![c] = None]
         \/ /\ role[c] # "passive" /\ sus[c] = NotIn
            /\ st' = [st EXCEPT ![c] = "ready"] /\ on' = on
      /\ queue' = queue /\ job' = job /\ role' = role /\ sus' = sus /\ round' = round
      /\ data' = data /\ wakes' = wakes
  BY <1>1 DEF Resume, Unregister, poolVars, workerVars, cancelVars
<1>3. /\ outcome'[a] = data[a].status /\ data[a].status \in {"completed", "cancelled"}
      /\ \A b \in Awaits \ {a} : outcome'[b] = outcome[b]
      /\ outcome' \in [Awaits -> {None, "completed", "cancelled", "thrown", "empty"}]
  <2>1. data[a].status = "completed" => data[a].result
    BY <1>a DEF AwaitInv, Stored
  <2>2. data[a].status \in {"completed", "cancelled"}
    BY <1>0 DEF CoroType, DataType
  <2>3. outcome' = [outcome EXCEPT ![a] = data[a].status]
    BY <1>2, <2>1
  <2> QED
    BY <1>0, <2>2, <2>3 DEF CoroType
<1>4. /\ \A d \in Coros \ {c} : st'[d] = st[d]
      /\ \/ st'[c] = "done"
         \/ role[c] # "passive" /\ sus[c] = NotIn /\ st'[c] = "ready"
  BY <1>0, <1>2 DEF CoroType
<1>5. CoroType'
  <2>1. None \in Threads
    BY DEF Threads
  <2>2. on' \in [Coros -> Threads]
    BY <1>0, <1>2, <2>1 DEF CoroType
  <2>3. st' \in [Coros -> {"idle", "ready", "body", "suspended", "runnable", "done"}]
    BY <1>0, <1>2 DEF CoroType
  <2> QED
    BY <1>0, <1>2, <1>3, <2>2, <2>3 DEF CoroType
<1>6. \A b : (Submitted(b)' <=> Submitted(b)) /\ (OnePlace(b) => OnePlace(b)')
  BY <1>2, JobsStay
<1>7. \A b \in Awaits \ {a} : Hooked(b)' <=> Hooked(b)
  BY <1>2 DEF Hooked
<1>8. Hooked(a)' => Hooked(a)
  BY <1>2 DEF Hooked
<1>9. Place(c)'
  BY <1>p, <1>2, <1>4 DEF Place, NotIn
<1>10. AwaitInv(a)'
  <2>1. Woken(a)'
    BY <1>a, <1>2, <1>6, <1>8 DEF AwaitInv, Woken
  <2>2. Stored(a)'
    BY <1>a, <1>2, <1>3 DEF AwaitInv, Stored
  <2>3. Last(a)'
    BY <1>a, <1>p, <1>2, <1>4, <1>6, <1>8 DEF AwaitInv, Last, Place
  <2>4. ~(a[2] > round'[a[1]])
    BY <1>a, <1>c, <1>2
  <2>5. Thrown(a)'
    BY <1>3 DEF Thrown
  <2> QED
    BY <2>1, <2>2, <2>3, <2>4, <2>5 DEF AwaitInv
<1>11. ASSUME NEW b \in Awaits, b[1] = c, b # a PROVE AwaitInv(b)'
  <2>1. AwaitInv(b) /\ b[2] # round[c]
    BY <1>0, <1>1, <1>c, <1>11 DEF WaitInv
  <2>s. (Hooked(b)' <=> Hooked(b)) /\ outcome'[b] = outcome[b]
    BY <1>3, <1>7, <1>11
  <2>2. Untouched(b) => Untouched(b)'
    BY <1>2, <1>6, <2>s DEF Untouched, Fresh
  <2>3. Woken(b) => Woken(b)'
    BY <1>2, <1>6, <2>s, <2>1, <1>11 DEF Woken
  <2>4. Stored(b) => Stored(b)'
    BY <1>2, <2>s DEF Stored
  <2>5. Last(b)'
    BY <2>1, <1>2, <1>11 DEF Last
  <2>6. Thrown(b)'
    BY <2>1, <2>s, <1>11, <1>p DEF AwaitInv, Thrown
  <2> QED
    BY <2>1, <2>2, <2>3, <2>4, <2>5, <2>6, <1>2 DEF AwaitInv
<1>12. \A b \in Awaits : b[1] = c => AwaitInv(b)'
  BY <1>10, <1>11
<1>13. \A b \in Awaits : b[1] # c => b # a
  BY <1>a
<1> QED
  BY <1>0, <1>2, <1>3, <1>4, <1>5, <1>6, <1>7, <1>9, <1>12, <1>13, <1>p, OthersKept

-----------------------------------------------------------------------------
(* Every step.                                                             *)

\* What a step does to the cancellation state.
CancelMoves ==
  \/ UNCHANGED <<cancelVars, awaitVars>>
  \/ \E k \in Cancellers :
       \/ Exchange(k) \/ SwapCallbacks(k) \/ CallsEnd(k) \/ WakeAwaiters(k)
       \/ \E a \in Clients : TakeCallback(k, a)
  \/ /\ UNCHANGED <<cancelled, cbs, cpc, awaitVars>>
     /\ callbacks' \subseteq Clients
     /\ cancelled => callbacks' = callbacks

\* The cancellation state keeps its types, and cancel() the callbacks.
LEMMA CancelKeeps ==
  ASSUME CancellationTypeOK, CancelInv, CancelMoves
  PROVE  CancellationTypeOK' /\ CancelInv' /\ (cancelled => cancelled')
<1>1. CASE UNCHANGED <<cancelVars, awaitVars>>
  <2>1. /\ cancelled' = cancelled /\ callbacks' = callbacks /\ cbs' = cbs /\ cpc' = cpc
        /\ waiters' = waiters /\ apc' = apc
    BY <1>1 DEF cancelVars, awaitVars
  <2> QED
    BY <2>1 DEF CancellationTypeOK, CancelInv
<1>2. ASSUME NEW k \in Cancellers, Exchange(k)
      PROVE  CancellationTypeOK' /\ CancelInv' /\ (cancelled => cancelled')
  <2>1. /\ cancelled' = TRUE /\ callbacks' = callbacks /\ cbs' = cbs
        /\ waiters' = waiters /\ apc' = apc /\ cpc[k] = "idle"
        /\ cpc' = [cpc EXCEPT ![k] = IF cancelled THEN "done" ELSE "swap"]
    BY <1>2 DEF Exchange, CancelGoto, awaitVars
  <2>2. CancellationTypeOK'
    BY <2>1 DEF CancellationTypeOK
  <2>3. \A l \in Cancellers : cbs'[l] # {} => cpc'[l] = "call"
    BY <2>1 DEF CancellationTypeOK, CancelInv
  <2>4. callbacks' # {} => \E l \in Cancellers : cpc'[l] = "swap"
    BY <2>1 DEF CancellationTypeOK, CancelInv
  <2> QED
    BY <2>1, <2>2, <2>3, <2>4 DEF CancelInv
<1>3. ASSUME NEW k \in Cancellers, SwapCallbacks(k)
      PROVE  CancellationTypeOK' /\ CancelInv' /\ (cancelled => cancelled')
  <2>1. /\ cancelled' = cancelled /\ callbacks' = {} /\ cbs' = [cbs EXCEPT ![k] = callbacks]
        /\ waiters' = waiters /\ apc' = apc /\ cpc[k] = "swap"
        /\ cpc' = [cpc EXCEPT ![k] = "call"]
    BY <1>3 DEF SwapCallbacks, CancelGoto, awaitVars
  <2>2. CancellationTypeOK'
    BY <2>1 DEF CancellationTypeOK
  <2>3. CancelInv'
    BY <2>1 DEF CancellationTypeOK, CancelInv
  <2> QED
    BY <2>1, <2>2, <2>3
<1>4. ASSUME NEW k \in Cancellers, CallsEnd(k)
      PROVE  CancellationTypeOK' /\ CancelInv' /\ (cancelled => cancelled')
  <2>1. /\ cancelled' = cancelled /\ callbacks' = callbacks /\ cbs' = cbs
        /\ waiters' = waiters /\ apc' = apc /\ cpc[k] = "call" /\ cbs[k] = {}
        /\ cpc' = [cpc EXCEPT ![k] = "wake"]
    BY <1>4 DEF CallsEnd, CancelGoto, awaitVars
  <2>2. CancellationTypeOK'
    BY <2>1 DEF CancellationTypeOK
  <2>3. CancelInv'
    BY <2>1 DEF CancellationTypeOK, CancelInv
  <2> QED
    BY <2>1, <2>2, <2>3
<1>5. ASSUME NEW k \in Cancellers, WakeAwaiters(k)
      PROVE  CancellationTypeOK' /\ CancelInv' /\ (cancelled => cancelled')
  <2>1. /\ cancelled' = cancelled /\ callbacks' = callbacks /\ cbs' = cbs
        /\ waiters' = {} /\ apc' = apc /\ cpc[k] = "wake"
        /\ cpc' = [cpc EXCEPT ![k] = "done"]
    BY <1>5 DEF WakeAwaiters, WakeAll, CancelGoto
  <2>2. CancellationTypeOK'
    BY <2>1 DEF CancellationTypeOK
  <2>3. CancelInv'
    BY <2>1 DEF CancellationTypeOK, CancelInv
  <2> QED
    BY <2>1, <2>2, <2>3
<1>6. ASSUME NEW k \in Cancellers, NEW a \in Clients, TakeCallback(k, a)
      PROVE  CancellationTypeOK' /\ CancelInv' /\ (cancelled => cancelled')
  <2>1. /\ cancelled' = cancelled /\ callbacks' = callbacks
        /\ cbs' = [cbs EXCEPT ![k] = @ \ {a}]
        /\ waiters' = waiters /\ apc' = apc /\ cpc[k] = "call" /\ cpc' = cpc
    BY <1>6 DEF TakeCallback, awaitVars
  <2>2. CancellationTypeOK'
    BY <2>1 DEF CancellationTypeOK
  <2>3. CancelInv'
    BY <2>1 DEF CancellationTypeOK, CancelInv
  <2> QED
    BY <2>1, <2>2, <2>3
<1>7. ASSUME UNCHANGED <<cancelled, cbs, cpc, awaitVars>>,
             callbacks' \subseteq Clients, cancelled => callbacks' = callbacks
      PROVE  CancellationTypeOK' /\ CancelInv' /\ (cancelled => cancelled')
  <2>1. /\ cancelled' = cancelled /\ cbs' = cbs
        /\ waiters' = waiters /\ apc' = apc /\ cpc' = cpc
    BY <1>7 DEF awaitVars
  <2> QED
    BY <1>7, <2>1 DEF CancellationTypeOK, CancelInv
<1> QED
  BY <1>1, <1>2, <1>3, <1>4, <1>5, <1>6, <1>7 DEF CancelMoves

\* The coroutines, where cancel() or the pool goes on alone.
LEMMA OtherStepsKeep ==
  ASSUME BlockingInv, UNCHANGED coroVars, cancelled => cancelled',
         \A a \in Awaits : Hooked(a)' <=> Hooked(a),
         \A a \in Awaits : (Submitted(a)' <=> Submitted(a)) /\ (OnePlace(a) => OnePlace(a)')
  PROVE  CoroType' /\ WaitInv'
<1>1. CoroType'
  BY DEF BlockingInv, CoroType, coroVars
<1>2. WaitInv'
  BY NoneChanged DEF BlockingInv
<1> QED
  BY <1>1, <1>2

\* The callbacks are somewhere while cancel() moves them.
LEMMA CancelStepHooks ==
  ASSUME CancellationTypeOK, CancelInv, NEW k \in Cancellers,
         Exchange(k) \/ SwapCallbacks(k) \/ CallsEnd(k) \/ WakeAwaiters(k)
  PROVE  \A a : Hooked(a)' <=> Hooked(a)
<1>1. CASE SwapCallbacks(k)
  <2>1. callbacks' = {} /\ cbs' = [cbs EXCEPT ![k] = callbacks] /\ cbs[k] = {}
    BY <1>1 DEF SwapCallbacks, CancelInv
  <2>2. cbs'[k] = callbacks /\ \A l \in Cancellers \ {k} : cbs'[l] = cbs[l]
    BY <2>1 DEF CancellationTypeOK
  <2> QED
    BY <2>1, <2>2 DEF Hooked
<1>2. CASE ~SwapCallbacks(k)
  <2>1. callbacks' = callbacks /\ cbs' = cbs
    BY <1>2 DEF Exchange, CallsEnd, WakeAwaiters
  <2> QED
    BY <2>1, HooksStay
<1> QED
  BY <1>1, <1>2

\* add_task of a future.
LEMMA SubmitFutureKeeps ==
  ASSUME BlockingInv, NEW j \in Futures, NEW t \in 0 .. now, AddTask(j, t)
  PROVE  \A a \in Awaits : (Submitted(a)' <=> Submitted(a)) /\ (OnePlace(a) => OnePlace(a)')
<1>1. PoolTypeOK /\ PoolInv /\ t \in Nat /\ j \in Jobs
  BY MaxTimeAssumption, BlockingAssumption DEF BlockingInv, PoolTypeOK
<1>2. Chosen(t) \in PoolWorkers /\ Send(j, Chosen(t)) /\ job' = job
  BY <1>1, ChosenIsWorker DEF AddTask, workerVars
<1>3. /\ \A i \in Jobs : Submitted(i)' <=> Submitted(i) \/ i = j
      /\ \A i \in Jobs \ {j} : OnePlace(i) => OnePlace(i)'
  BY <1>1, <1>2, SendAdds
<1>4. \A a \in Awaits : a \in Jobs \ {j}
  BY AwaitParts
<1> QED
  BY <1>3, <1>4

\* A worker, in a step that is not the end of an await's job.
LEMMA WorkerStepKeeps ==
  ASSUME BlockingInv, NEW w \in PoolWorkers,
         \/ WorkerTest(w) \/ WorkerReceive(w) \/ WorkerGetsNone(w) \/ Record(w)
         \/ job[w] \in Futures /\ JobEnds(w, TRUE)
  PROVE  \A a \in Awaits : (Submitted(a)' <=> Submitted(a)) /\ (OnePlace(a) => OnePlace(a)')
<1>0. PoolTypeOK /\ PoolInv
  BY DEF BlockingInv
<1>a. \A a \in Awaits : a \in Jobs /\ a \notin Futures
  BY AwaitParts
<1>1. CASE WorkerReceive(w)
  BY <1>0, <1>1, <1>a, ReceiveMoves
<1>2. CASE WorkerTest(w) \/ WorkerGetsNone(w) \/ Record(w)
  <2>1. queue' = queue /\ job' = job
    BY <1>2 DEF WorkerTest, WorkerGetsNone, Record
  <2> QED
    BY <2>1, JobsStay
<1>3. CASE job[w] \in Futures /\ JobEnds(w, TRUE)
  <2>1. /\ \A i \in Jobs : OnePlace(i) => OnePlace(i)'
        /\ \A i \in Jobs \ {job[w]} : Submitted(i)' <=> Submitted(i)
    BY <1>0, <1>3, EndRemoves
  <2>2. \A a \in Awaits : a \in Jobs \ {job[w]}
    BY <1>3, <1>a
  <2> QED
    BY <2>1, <2>2, <1>a
<1> QED
  BY <1>1, <1>2, <1>3

\* One step of coroutines, pool, cancel() or ~task_scheduler.
LEMMA BlockingStep ==
  ASSUME BlockingInv, BlockingNext
  PROVE  BlockingInv'
<1> DEFINE Good == PoolStep /\ CancelMoves /\ CoroType' /\ WaitInv'
           Dtor == dpc' \in {"up", "coro", "close", "join", "down"}
<1>0. /\ CancellationTypeOK /\ CancelInv
      /\ dpc \in {"up", "coro", "close", "join", "down"}
  BY DEF BlockingInv
<1>c. ASSUME NEW c \in Coros, Start(c) \/ CoroStep(c) PROVE Good /\ dpc' = dpc
  <2>1. ASSUME Start(c) \/ BeginPassive(c) PROVE Good /\ dpc' = dpc
    <3>1. CoroType' /\ WaitInv'
      BY <2>1, StartKeeps, BeginPassiveKeeps
    <3>2. PoolStep /\ CancelMoves /\ dpc' = dpc
      BY <2>1 DEF Start, BeginPassive, PoolStep, CancelMoves, dtorVars
    <3> QED
      BY <3>1, <3>2
  <2>2. ASSUME AwaitCallable(c) PROVE Good /\ dpc' = dpc
    <3>1. CoroType' /\ WaitInv'
      BY <2>2, AwaitCallableKeeps
    <3>2. <<c, round[c] + 1>> \in Jobs
      <4>1. <<c, round[c] + 1>> \in Awaits
        BY <2>2, NextAwait DEF AwaitCallable, BlockingInv
      <4> QED
        BY <4>1, AwaitParts
    <3>3. PoolStep
      BY <2>2, <3>2 DEF AwaitCallable, PoolStep
    <3>4. CancelMoves /\ dpc' = dpc
      BY <2>2 DEF AwaitCallable, CancelMoves, dtorVars
    <3> QED
      BY <3>1, <3>3, <3>4
  <2>3. ASSUME AwaitThrows(c) \/ AwaitCancellable(c) PROVE Good /\ dpc' = dpc
    <3>1. CoroType' /\ WaitInv'
      BY <2>3, AwaitThrowsKeeps, AwaitCancellableKeeps
    <3>2. PoolStep /\ CancelMoves /\ dpc' = dpc
      BY <2>3 DEF AwaitThrows, AwaitCancellable, PoolStep, CancelMoves, dtorVars
    <3> QED
      BY <3>1, <3>2
  <2>r. ASSUME Place(c), sus[c].at # None \/ st[c] = "runnable" PROVE Current(c) \in Awaits
    <3>1. round[c] # 0
      BY <2>r DEF Place
    <3> QED
      BY <3>1, CurrentAwait DEF BlockingInv
  <2>p. Place(c)
    BY DEF BlockingInv, WaitInv
  <2>4. ASSUME RegisterCallback(c) PROVE Good /\ dpc' = dpc
    <3>1. CoroType' /\ WaitInv'
      BY <2>4, RegisterKeeps
    <3>2. Current(c) \in Clients
      <4>1. Current(c) \in Awaits
        BY <2>4, <2>p, <2>r, NoneAssumption DEF RegisterCallback
      <4> QED
        BY <4>1, AwaitParts
    <3>3. CancelMoves
      BY <2>4, <3>2, <1>0 DEF RegisterCallback, Register, CancelMoves, CancellationTypeOK
    <3>4. PoolStep /\ dpc' = dpc
      BY <2>4 DEF RegisterCallback, PoolStep, dtorVars
    <3> QED
      BY <3>1, <3>3, <3>4
  <2>5. ASSUME PostJob(c) PROVE Good /\ dpc' = dpc
    <3>1. CoroType' /\ WaitInv'
      BY <2>5, PostKeeps
    <3>2. Current(c) \in Jobs
      <4>1. Current(c) \in Awaits
        BY <2>5, <2>p, <2>r, NoneAssumption DEF PostJob
      <4> QED
        BY <4>1, AwaitParts
    <3>3. PoolStep
      BY <2>5, <3>2 DEF PostJob, PoolStep
    <3>4. CancelMoves /\ dpc' = dpc
      BY <2>5 DEF PostJob, CancelMoves, dtorVars
    <3> QED
      BY <3>1, <3>3, <3>4
  <2>6. ASSUME Resume(c) PROVE Good /\ dpc' = dpc
    <3>1. CoroType' /\ WaitInv'
      BY <2>6, ResumeKeeps
    <3>2. CancelMoves
      BY <2>6, <1>0 DEF Resume, Unregister, CancelMoves, CancellationTypeOK
    <3>3. PoolStep /\ dpc' = dpc
      BY <2>6 DEF Resume, PoolStep, dtorVars
    <3> QED
      BY <3>1, <3>2, <3>3
  <2> QED
    BY <1>c, <2>1, <2>2, <2>3, <2>4, <2>5, <2>6 DEF CoroStep
<1>w. ASSUME NEW w \in PoolWorkers, WorkerStep(w) PROVE Good /\ dpc' = dpc
  <2>1. CASE CallableJob(w) \/ CancellableJobEnds(w)
    <3>1. CoroType' /\ WaitInv'
      BY <2>1, CallableJobKeeps, CancellableJobKeeps
    <3>2. JobEnds(w, FALSE)
      BY <2>1 DEF CallableJob, CancellableJobEnds
    <3>3. PoolStep
      BY <3>2 DEF PoolStep
    <3>4. CancelMoves /\ dpc' = dpc
      BY <2>1 DEF CallableJob, CancellableJobEnds, CancelMoves, dtorVars
    <3> QED
      BY <3>1, <3>3, <3>4
  <2>2. CASE StoreResult(w)
    <3>1. CoroType' /\ WaitInv'
      BY <2>2, StoreResultKeeps
    <3>2. PoolStep /\ CancelMoves /\ dpc' = dpc
      BY <2>2 DEF StoreResult, PoolStep, CancelMoves, dtorVars
    <3> QED
      BY <3>1, <3>2
  <2>3. CASE FutureJob(w) \/ WorkerTest(w) \/ WorkerReceive(w) \/ WorkerGetsNone(w) \/ Record(w)
    <3>0. /\ UNCHANGED <<cancelVars, awaitVars, coroVars, dtorVars>>
          /\ \/ WorkerTest(w) \/ WorkerReceive(w) \/ WorkerGetsNone(w) \/ Record(w)
             \/ job[w] \in Futures /\ JobEnds(w, TRUE)
      <4>1. CASE FutureJob(w)
        BY <4>1 DEF FutureJob
      <4>2. CASE ~FutureJob(w)
        <5>1. ~(CallableJob(w) \/ CancellableJobEnds(w) \/ StoreResult(w)) =>
                UNCHANGED <<cancelVars, awaitVars, coroVars, dtorVars>>
          BY <1>w, <4>2 DEF WorkerStep
        <5>2. wpc[w] # "run"
          BY <2>3, <4>2 DEF WorkerTest, WorkerReceive, WorkerGetsNone, Record
        <5>3. ~(CallableJob(w) \/ CancellableJobEnds(w) \/ StoreResult(w))
          BY <5>2 DEF CallableJob, CancellableJobEnds, StoreResult
        <5> QED
          BY <5>1, <5>3, <2>3, <4>2
      <4> QED
        BY <4>1, <4>2
    <3>1. \A a \in Awaits : (Submitted(a)' <=> Submitted(a)) /\ (OnePlace(a) => OnePlace(a)')
      BY <3>0, WorkerStepKeeps
    <3>2. UNCHANGED coroVars /\ callbacks' = callbacks /\ cbs' = cbs /\ cancelled' = cancelled
      BY <3>0 DEF cancelVars
    <3>3. CoroType' /\ WaitInv'
      BY <3>1, <3>2, HooksStay, OtherStepsKeep
    <3>4. PoolStep
      BY <3>0 DEF PoolStep
    <3>5. CancelMoves /\ dpc' = dpc
      BY <3>0 DEF CancelMoves, dtorVars
    <3> QED
      BY <3>3, <3>4, <3>5
  <2> QED
    BY <1>w, <2>1, <2>2, <2>3 DEF WorkerStep
<1>k. ASSUME NEW k \in Cancellers, Cancel(k) \/ CancelSteps(k) PROVE Good /\ dpc' = dpc
  <2>1. ASSUME NEW a \in Awaits, CallCallback(k, a) PROVE Good /\ dpc' = dpc
    <3>1. CoroType' /\ WaitInv'
      BY <2>1, CallbackKeeps
    <3>2. CancelMoves
      BY <2>1, AwaitParts DEF CallCallback, CancelMoves
    <3>3. PoolStep /\ dpc' = dpc
      BY <2>1 DEF CallCallback, PoolStep, dtorVars
    <3> QED
      BY <3>1, <3>2, <3>3
  <2>2. CASE Cancel(k) \/ CancelStep(k)
    <3>1. /\ Exchange(k) \/ SwapCallbacks(k) \/ CallsEnd(k) \/ WakeAwaiters(k)
          /\ UNCHANGED <<poolVars, coroVars, dtorVars>>
      BY <2>2 DEF Cancel, CancelStep
    <3>2. CancelMoves
      BY <3>1 DEF CancelMoves
    <3>3. cancelled => cancelled'
      BY <3>2, <1>0, CancelKeeps
    <3>4. queue' = queue /\ job' = job /\ UNCHANGED coroVars
      BY <3>1 DEF poolVars, workerVars
    <3>5. CoroType' /\ WaitInv'
      <4>1. \A a : Hooked(a)' <=> Hooked(a)
        BY <3>1, <1>0, CancelStepHooks
      <4>2. \A a : (Submitted(a)' <=> Submitted(a)) /\ (OnePlace(a) => OnePlace(a)')
        BY <3>4, JobsStay
      <4> QED
        BY <4>1, <4>2, <3>3, <3>4, OtherStepsKeep
    <3>6. PoolStep /\ dpc' = dpc
      BY <3>1 DEF PoolStep, dtorVars
    <3> QED
      BY <3>2, <3>5, <3>6
  <2> QED
    BY <1>k, <2>1, <2>2 DEF CancelSteps
<1>f. ASSUME NEW j \in Futures, SubmitFuture(j) PROVE Good /\ dpc' = dpc
  <2>1. PICK t \in 0 .. now : AddTask(j, t)
    BY <1>f DEF SubmitFuture
  <2>2. UNCHANGED <<cancelVars, awaitVars, coroVars, dpc>>
    BY <1>f DEF SubmitFuture
  <2>3. UNCHANGED coroVars /\ callbacks' = callbacks /\ cbs' = cbs /\ cancelled' = cancelled
    BY <2>2 DEF cancelVars
  <2>4. CoroType' /\ WaitInv'
    BY <2>1, <2>3, HooksStay, SubmitFutureKeeps, OtherStepsKeep
  <2>5. j \in Jobs
    BY BlockingAssumption
  <2>6. PoolStep
    BY <2>1, <2>5 DEF PoolStep
  <2>7. CancelMoves
    BY <2>2 DEF CancelMoves
  <2> QED
    BY <2>2, <2>4, <2>6, <2>7
<1>d. ASSUME \/ BeginShutdown \/ DtorStep
             \/ Tick /\ UNCHANGED <<cancelVars, awaitVars, coroVars, dtorVars>>
      PROVE  Good /\ Dtor
  <2>1. UNCHANGED <<cancelVars, awaitVars, coroVars>>
    BY <1>d DEF BeginShutdown, DtorStep, JoinCoroWorkers, CloseQueues, JoinPool, DtorGoto
  <2>2. UNCHANGED poolVars \/ SetShuttingDown \/ Tick \/ \E w \in PoolWorkers : CloseQueue(w)
    BY <1>d DEF BeginShutdown, DtorStep, JoinCoroWorkers, CloseQueues, JoinPool
  <2>3. Dtor
    BY <1>d, <1>0 DEF BeginShutdown, DtorStep, JoinCoroWorkers, CloseQueues, JoinPool, DtorGoto,
       dtorVars
  <2>4. queue' = queue /\ job' = job
    BY <2>2 DEF SetShuttingDown, Tick, CloseQueue, poolVars, workerVars
  <2>5. UNCHANGED coroVars /\ callbacks' = callbacks /\ cbs' = cbs /\ cancelled' = cancelled
    BY <2>1 DEF cancelVars
  <2>6. CoroType' /\ WaitInv'
    BY <2>4, <2>5, HooksStay, JobsStay, OtherStepsKeep
  <2>7. PoolStep
    BY <2>2 DEF PoolStep
  <2>8. CancelMoves
    BY <2>1 DEF CancelMoves
  <2> QED
    BY <2>3, <2>6, <2>7, <2>8
<1>1. Good /\ Dtor
  <2>1. dpc' = dpc => Dtor
    BY <1>0
  <2> HIDE DEF Good, Dtor
  <2> QED
    BY <2>1, <1>c, <1>w, <1>k, <1>f, <1>d DEF BlockingNext
<1>2. PoolTypeOK' /\ PoolInv'
  BY <1>1, PoolTypeStep DEF BlockingInv
<1>3. CancellationTypeOK' /\ CancelInv'
  BY <1>0, <1>1, CancelKeeps
<1> QED
  BY <1>1, <1>2, <1>3 DEF BlockingInv

\* Only a closed queue throws, and none is opened again.
ThrowInv == (\E a \in Awaits : outcome[a] = "thrown") => \E w \in PoolWorkers : closed[w]

LEMMA ClosedStays ==
  ASSUME BlockingInv, BlockingNext, NEW w \in PoolWorkers, closed[w]
  PROVE  closed'[w]
<1>t. closed \in [PoolWorkers -> BOOLEAN]
  BY DEF BlockingInv, PoolTypeOK
<1>1. ASSUME closed' = closed PROVE closed'[w]
  BY <1>1
<1>2. ASSUME NEW v \in PoolWorkers, CloseQueue(v) PROVE closed'[w]
  BY <1>2, <1>t DEF CloseQueue
<1>3. ASSUME NEW c \in Coros, Start(c) \/ CoroStep(c) PROVE closed' = closed
  BY <1>3 DEF CoroStep, Start, BeginPassive, AwaitCallable, AwaitThrows, AwaitCancellable,
     RegisterCallback, PostJob, Resume, ScheduleTask, poolVars
<1>4. ASSUME NEW v \in PoolWorkers, WorkerStep(v) PROVE closed' = closed
  BY <1>4 DEF WorkerStep, WorkerTest, WorkerReceive, WorkerGetsNone, Record, CallableJob,
     StoreResult, CancellableJobEnds, FutureJob, JobEnds, poolVars
<1>5. ASSUME NEW k \in Cancellers, Cancel(k) \/ CancelSteps(k) PROVE closed' = closed
  BY <1>5 DEF Cancel, CancelSteps, CancelStep, CallCallback, poolVars
<1>6. ASSUME NEW j \in Futures, SubmitFuture(j) PROVE closed' = closed
  BY <1>6 DEF SubmitFuture, AddTask
<1>7. ASSUME BeginShutdown \/ DtorStep \/ Tick
      PROVE  closed' = closed \/ \E v \in PoolWorkers : CloseQueue(v)
  BY <1>7 DEF BeginShutdown, DtorStep, JoinCoroWorkers, CloseQueues, JoinPool, SetShuttingDown,
     Tick, poolVars
<1> QED
  BY <1>1, <1>2, <1>3, <1>4, <1>5, <1>6, <1>7 DEF BlockingNext

\* Whose submission throws.
LEMMA ThrowsWhenClosed ==
  ASSUME BlockingInv, BlockingNext, NEW a \in Awaits, outcome'[a] = "thrown"
  PROVE  outcome[a] = "thrown" \/ SendThrows
<1>t. CoroType
  BY DEF BlockingInv
<1>1. outcome' = outcome => outcome[a] = "thrown"
  OBVIOUS
<1>2. ASSUME NEW c \in Coros, Start(c) \/ CoroStep(c)
      PROVE  outcome' = outcome \/ SendThrows \/ Resume(c)
  BY <1>2 DEF CoroStep, Start, BeginPassive, AwaitCallable, AwaitThrows, AwaitCancellable,
     RegisterCallback, PostJob
<1>3. ASSUME NEW c \in Coros, Resume(c) PROVE outcome[a] = "thrown"
  <2>1. PICK x : /\ x \in {"empty", data[Current(c)].status}
                 /\ outcome' = [outcome EXCEPT ![Current(c)] = x]
    BY <1>3 DEF Resume
  <2>2. round[c] # 0
    BY <1>3 DEF Resume, BlockingInv, WaitInv, Place
  <2>3. Current(c) \in Awaits
    BY <2>2, CurrentAwait DEF BlockingInv
  <2>4. data[Current(c)].status \in {"completed", "cancelled"}
    BY <1>t, <2>3 DEF CoroType, DataType
  <2> QED
    BY <1>t, <2>1, <2>3, <2>4 DEF CoroType
<1>4. ASSUME NEW w \in PoolWorkers, WorkerStep(w) PROVE outcome' = outcome
  BY <1>4 DEF WorkerStep, CallableJob, StoreResult, CancellableJobEnds, FutureJob, Win, Wake,
     coroVars
<1>5. ASSUME NEW k \in Cancellers, Cancel(k) \/ CancelSteps(k) PROVE outcome' = outcome
  BY <1>5 DEF Cancel, CancelSteps, CancelStep, CallCallback, Win, Wake, coroVars
<1>6. ASSUME \/ \E f1 \in Futures : SubmitFuture(f1)
             \/ BeginShutdown \/ DtorStep
             \/ Tick /\ UNCHANGED <<cancelVars, awaitVars, coroVars, dtorVars>>
      PROVE  outcome' = outcome
  BY <1>6 DEF SubmitFuture, BeginShutdown, DtorStep, JoinCoroWorkers, CloseQueues, JoinPool,
     DtorGoto, coroVars
<1> QED
  BY <1>1, <1>2, <1>3, <1>4, <1>5, <1>6 DEF BlockingNext

LEMMA ThrowStep ==
  ASSUME BlockingInv, ThrowInv, BlockingNext
  PROVE  ThrowInv'
<1>1. ASSUME NEW a \in Awaits, outcome'[a] = "thrown"
      PROVE  \E w \in PoolWorkers : closed'[w]
  <2>1. CASE outcome[a] = "thrown"
    BY <2>1, ClosedStays DEF ThrowInv
  <2>2. CASE SendThrows
    <3>1. Chosen(now) \in PoolWorkers
      BY ChosenIsWorker, MaxTimeAssumption DEF BlockingInv, PoolTypeOK
    <3> QED
      BY <2>2, <3>1, ClosedStays DEF SendThrows
  <2> QED
    BY <1>1, <2>1, <2>2, ThrowsWhenClosed
<1> QED
  BY <1>1 DEF ThrowInv

\* The start.
LEMMA BlockingStart ==
  ASSUME BlockingInit
  PROVE  BlockingInv
<1>1. PoolTypeOK /\ PoolInv
  <2>1. 0 \in 0 .. MaxTime /\ 0 \in 0 .. 2 * MaxTime /\ 0 \in 0 .. 0
    BY MaxTimeAssumption
  <2>2. /\ shuttingDown = FALSE /\ now = 0 /\ duration = 0
        /\ queue = [w \in PoolWorkers |-> <<>>] /\ closed = [w \in PoolWorkers |-> FALSE]
        /\ availableAt = [w \in PoolWorkers |-> 0] /\ wpc = [w \in PoolWorkers |-> "test"]
        /\ job = [w \in PoolWorkers |-> NoJob] /\ startedAt = [w \in PoolWorkers |-> 0]
    BY DEF BlockingInit, PoolInit
  <2>3. \A w \in PoolWorkers : DOMAIN queue[w] = {}
    BY <2>2
  <2>4. queue \in [PoolWorkers -> Seq(Jobs)]
    <3>1. <<>> \in Seq(Jobs)
      OBVIOUS
    <3> QED
      BY <2>2, <3>1
  <2>5. PoolTypeOK
    BY <2>1, <2>2, <2>3 DEF PoolTypeOK
  <2>6. PoolInv
    BY <2>1, <2>2, <2>4 DEF PoolInv
  <2> QED
    BY <2>5, <2>6
<1>2. CancellationTypeOK /\ CancelInv
  BY DEF BlockingInit, CancellationInit, CancellationTypeOK, CancelInv
<1>3. CoroType
  <2>1. None \in Threads /\ 0 \in 0 .. MaxAwaits
    BY BlockingAssumption DEF Threads
  <2>2. NotIn \in [at : {None, "register", "post"}, by : Threads]
    BY <2>1 DEF NotIn
  <2>3. Fresh \in DataType
    BY DEF Fresh, DataType
  <2>4. sus \in [Coros -> [at : {None, "register", "post"}, by : Threads]]
    BY <2>2 DEF BlockingInit
  <2> QED
    BY <2>1, <2>3, <2>4 DEF BlockingInit, CoroType
<1>4. ASSUME NEW c \in Coros PROVE Place(c)
  <2>1. /\ (role[c] = "passive") = (c \in Passive) /\ st[c] = "idle" /\ round[c] = 0
        /\ sus[c] = NotIn /\ \A d \in Coros : st[d] = "idle"
    BY DEF BlockingInit
  <2>2. c \in Passive => Child[c] \in Coros
    BY BlockingAssumption
  <2> QED
    BY <2>1, <2>2, NoneAssumption DEF Place, NotIn
<1>5. ASSUME NEW a \in Awaits PROVE AwaitInv(a)
  <2>1. /\ data[a] = Fresh /\ outcome[a] = None /\ wakes[a] = 0
        /\ st[a[1]] = "idle" /\ round[a[1]] = 0
    BY AwaitParts DEF BlockingInit
  <2>2. ~Hooked(a)
    BY DEF BlockingInit, CancellationInit, Hooked
  <2>3. ~Submitted(a)
    BY AwaitParts, NoJobAssumption DEF BlockingInit, PoolInit, Submitted
  <2>4. a[2] # 0 /\ ~(a[2] <= 0)
    BY AwaitParts
  <2>5. Untouched(a)
    BY <2>1, <2>2, <2>3 DEF Untouched
  <2>6. Woken(a)
    BY <2>1, <2>2, <2>3, <2>4, NowhereOnce DEF Woken, Fresh
  <2>7. Stored(a)
    BY <2>1, NoneAssumption DEF Stored, Fresh
  <2>8. Last(a)
    BY <2>1, <2>4 DEF Last
  <2>9. Thrown(a)
    BY <2>1, NoneAssumption DEF Thrown
  <2> QED
    BY <2>5, <2>6, <2>7, <2>8, <2>9 DEF AwaitInv
<1> QED
  BY <1>1, <1>2, <1>3, <1>4, <1>5 DEF BlockingInv, WaitInv, BlockingInit

\* The invariant, in the runtime.
LEMMA BlockingInvariant == Spec => []BlockingInv /\ []ThrowInv
<1>1. Init => BlockingInv /\ ThrowInv
  BY BlockingStart, NoneAssumption DEF Init, BlockingInit, ThrowInv
<1>2. BlockingInv /\ UNCHANGED vars => BlockingInv'
  <2> SUFFICES ASSUME BlockingInv, UNCHANGED vars PROVE BlockingInv'
    OBVIOUS
  <2>1. UNCHANGED <<poolVars, cancelVars, awaitVars, coroVars, dtorVars>>
    BY DEF vars
  <2>2. /\ queue' = queue /\ job' = job /\ UNCHANGED coroVars
        /\ callbacks' = callbacks /\ cbs' = cbs /\ cancelled' = cancelled
    BY <2>1 DEF poolVars, workerVars, cancelVars
  <2>3. CoroType' /\ WaitInv'
    BY <2>2, HooksStay, JobsStay, OtherStepsKeep
  <2>4. PoolTypeOK' /\ PoolInv'
    BY <2>1, PoolTypeStep DEF BlockingInv, PoolStep
  <2>5. CancellationTypeOK' /\ CancelInv'
    BY <2>1, CancelKeeps DEF BlockingInv, CancelMoves
  <2>6. dpc' = dpc
    BY <2>1 DEF dtorVars
  <2> QED
    BY <2>3, <2>4, <2>5, <2>6 DEF BlockingInv
<1>u. ThrowInv /\ UNCHANGED vars => ThrowInv'
  BY DEF ThrowInv, vars, poolVars, coroVars
<1>3. BlockingInv /\ ThrowInv /\ [Next]_all => BlockingInv' /\ ThrowInv'
  <2>1. MCBlockingNext => BlockingNext
    BY DEF MCBlockingNext
  <2>2. [Next]_all => BlockingNext \/ UNCHANGED vars
    BY <2>1 DEF Next, all
  <2> QED
    BY <2>2, <1>2, <1>u, BlockingStep, ThrowStep
<1> QED
  BY <1>1, <1>3, PTL DEF Spec

\* Whatever completion, cancellation and await_suspend race for it, a coroutine that awaits
\* the pool is resumed once and finds an outcome that somebody stored; where its submission
\* throws, because the shutdown has closed the queue, a cancellation may resume it too.
THEOREM PoolAwaitsEnd == Spec => []PoolOutcomes
<1>1. BlockingInv /\ ThrowInv => PoolOutcomes
  <2> SUFFICES ASSUME BlockingInv, ThrowInv PROVE PoolOutcomes
    OBVIOUS
  <2>1. BlockingTypeOK
    BY DEF BlockingInv, BlockingTypeOK, CoroType
  <2>2. ASSUME NEW a \in Awaits
        PROVE  /\ \/ Resumptions(a) <= 1
                  \/ /\ Resumptions(a) = 2
                     /\ outcome[a] = "thrown" /\ data[a].status = "cancelled"
                     /\ \E w \in PoolWorkers : closed[w]
               /\ outcome[a] # "empty" /\ (outcome[a] = "cancelled" => cancelled)
    <3>1. Woken(a) /\ Stored(a) /\ Thrown(a) /\ wakes[a] \in Nat
      BY DEF BlockingInv, WaitInv, AwaitInv, CoroType
    <3>2. wakes[a] \in {0, 1}
      BY <3>1 DEF Woken
    <3>3. CASE outcome[a] # "thrown"
      BY <3>1, <3>2, <3>3 DEF Stored, Resumptions
    <3>4. CASE outcome[a] = "thrown"
      <4>1. \E w \in PoolWorkers : closed[w]
        BY <3>4 DEF ThrowInv
      <4>2. wakes[a] = 0 \/ data[a].status = "cancelled"
        BY <3>1, <3>4 DEF Thrown
      <4>3. Resumptions(a) = wakes[a] + 1
        BY <3>4 DEF Resumptions
      <4> QED
        BY <3>1, <3>2, <3>4, <4>1, <4>2, <4>3 DEF Stored
    <3> QED
      BY <3>3, <3>4
  <2> QED
    BY <2>1, <2>2 DEF PoolOutcomes, AwaitWokenOnce, RightOutcome
<1> QED
  BY <1>1, BlockingInvariant, PTL

\* A coroutine that stays suspended has its job in the pool, and no cancellation behind it.
THEOREM SuspendedAreServed == Spec => []SuspendedIsServed
<1>1. BlockingInv => SuspendedIsServed
  <2> SUFFICES ASSUME BlockingInv, NEW c \in Coros, st[c] = "suspended", sus[c] = NotIn
               PROVE  /\ Submitted(Current(c))
                      /\ ~(/\ role[c] = "cancellable" /\ cancelled
                           /\ \A k \in Cancellers : cpc[k] \notin {"swap", "call"})
    BY DEF SuspendedIsServed, WaiterHasJob, CancelReleases
  <2>1. CoroType /\ WaitInv /\ Place(c) /\ CancelInv
    BY DEF BlockingInv, WaitInv
  <2>2. PICK a \in Awaits : a = Current(c) /\ a[1] = c /\ a[2] = round[c]
    BY <2>1, CurrentAwait DEF Place
  <2>3. Last(a)
    BY <2>1 DEF WaitInv, AwaitInv
  <2>4. Submitted(a) /\ (role[c] = "cancellable" => Hooked(a))
    BY <2>2, <2>3, NoneAssumption DEF Last, NotIn
  <2>5. Hooked(a) /\ cancelled => \E k \in Cancellers : cpc[k] \in {"swap", "call"}
    BY <2>1 DEF Hooked, CancelInv
  <2> QED
    BY <2>2, <2>4, <2>5
<1> QED
  BY <1>1, BlockingInvariant, PTL
=============================================================================
