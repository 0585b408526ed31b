--------------------------- MODULE IoUring_proofs ---------------------------
(***************************************************************************)
(* What MCRuntime checks of io_uring_service and its awaiters, for any     *)
(* coroutines, timeouts, slots, and failures of the kernel: a completion   *)
(* is in one place, from its slot to the completion queue.                 *)
(***************************************************************************)
EXTENDS MCRuntime, FiniteSetTheorems, SequenceTheorems, TLAPS

-----------------------------------------------------------------------------
(* The slots go round.                                                     *)

\* Quotient and remainder are what they are.
LEMMA RemainderIs ==
  ASSUME NEW n \in Nat \ {0}, NEW m \in Nat, NEW q1 \in Int, NEW x \in 0 .. n - 1,
         m = n * q1 + x
  PROVE  m % n = x
<1> DEFINE d == q1 - (m \div n)
<1>1. m = n * (m \div n) + (m % n) /\ 0 <= m % n /\ m % n < n
  BY SMT
<1>2. m \div n \in Int /\ m % n \in Int /\ d \in Int
  BY SMT
<1>3. n * d = (m % n) - x
  BY <1>1, <1>2, SMT
<1> HIDE DEF d
<1>4. d < 1
  <2>1. SUFFICES ASSUME d >= 1 PROVE FALSE
    BY <1>2
  <2>2. n * d >= n
    BY <2>1, <1>2, SMT
  <2> QED
    BY <2>2, <1>1, <1>2, <1>3, SMT
<1>5. d > -1
  <2>1. SUFFICES ASSUME d <= -1 PROVE FALSE
    BY <1>2
  <2>2. n * d <= -n
    BY <2>1, <1>2, SMT
  <2> QED
    BY <2>2, <1>1, <1>2, <1>3, SMT
<1>6. d = 0
  BY <1>2, <1>4, <1>5, SMT
<1> QED
  BY <1>2, <1>3, <1>6, SMT

\* A remainder may be taken before something is added.
LEMMA RemainderAdd ==
  ASSUME NEW n \in Nat \ {0}, NEW k \in Nat, NEW j \in Nat
  PROVE  ((k % n) + j) % n = (k + j) % n
<1> DEFINE x == k % n
           y == k \div n
           z == (x + j) % n
           v == (x + j) \div n
<1>1. k = n * y + x /\ x \in Nat /\ y \in Int
  BY SMT
<1> HIDE DEF x, y
<1>2. x + j = n * v + z /\ z \in 0 .. n - 1 /\ v \in Int
  <2>1. x + j \in Nat
    BY <1>1, SMT
  <2> DEFINE m == x + j
  <2> HIDE DEF m
  <2>2. m \in Nat => m = n * (m \div n) + (m % n) /\ m % n \in 0 .. n - 1 /\ m \div n \in Int
    BY SMT
  <2> QED
    BY <2>1, <2>2 DEF m
<1> HIDE DEF z, v
<1>3. k + j = n * (y + v) + z /\ y + v \in Int
  <2>1. n * (y + v) = n * y + n * v
    BY <1>1, <1>2, SMT
  <2> DEFINE A == n * y
             B == n * v
             D == n * (y + v)
  <2>2. A \in Int /\ B \in Int /\ y + v \in Int /\ z \in Int /\ x \in Int
    BY <1>1, <1>2, SMT
  <2>3. k = A + x /\ x + j = B + z /\ D = A + B
    BY <1>1, <1>2, <2>1
  <2> HIDE DEF A, B, D
  <2>4. k + j = D + z
    BY <2>2, <2>3, SMT
  <2> QED
    BY <2>2, <2>4 DEF D
<1>4. (k + j) % n = z
  <2> DEFINE m == k + j
             w == y + v
  <2>1. m \in Nat /\ w \in Int /\ m = n * w + z
    BY <1>3
  <2> HIDE DEF m, w
  <2>2. m % n = z
    BY <1>2, <2>1, RemainderIs, Zenon
  <2> QED
    BY <2>2 DEF m
<1> QED
  BY <1>4 DEF z, x

\* Numbers that are less than n apart have different remainders.
LEMMA RemaindersDiffer ==
  ASSUME NEW n \in Nat \ {0}, NEW k \in Nat, NEW j \in 1 .. n - 1
  PROVE  (k + j) % n # k % n
<1> DEFINE x == k % n
           y == k \div n
           v == (k + j) \div n
           d == v - y
<1>1. k = n * y + x /\ x \in Nat /\ y \in Int
  BY SMT
<1>2. k + j = n * v + ((k + j) % n) /\ v \in Int /\ (k + j) % n \in Int
  BY SMT
<1>3. SUFFICES ASSUME (k + j) % n = x PROVE FALSE
  OBVIOUS
<1> HIDE DEF x, y, v
<1>4. j = n * d /\ d \in Int
  BY <1>1, <1>2, <1>3, SMT
<1> HIDE DEF d
<1>5. d >= 1
  <2>1. SUFFICES ASSUME d <= 0 PROVE FALSE
    BY <1>4
  <2>2. n * d <= 0
    BY <2>1, <1>4, SMT
  <2> QED
    BY <2>2, <1>4, SMT
<1>6. n * d >= n
  BY <1>4, <1>5, SMT
<1> QED
  BY <1>4, <1>6, SMT


\* The i-th slot of those that go round after the first s.
Round(s, i) == ((s + i - 1) % Slots) + 1
GoesRound(seq, s) == \A i \in DOMAIN seq : seq[i] = Round(s, i)

\* The slots that are taken go round, and those that are not prepared are among them.
RingInv(r) ==
  /\ Len(pending[r]) <= Slots
  /\ \E s \in Nat : GoesRound(pending[r], s)
  /\ \A x \in unprepared[r] : \E i \in DOMAIN pending[r] : pending[r][i] = x

QueueTypes ==
  /\ slot \in [Rings -> [1 .. Slots -> UserData]]
  /\ pending \in [Rings -> Seq(1 .. Slots)]
  /\ unprepared \in [Rings -> SUBSET (1 .. Slots)]
  /\ inflight \in [Rings -> [UserData -> Nat]]
  /\ cq \in [Rings -> Seq(UserData)]
  /\ stale \in BOOLEAN

\* Going round is among the slots of the queue.
LEMMA RoundType == \A s \in Nat : \A i \in Nat \ {0} : Round(s, i) \in 1 .. Slots
<1> SUFFICES ASSUME NEW s \in Nat, NEW i \in Nat \ {0} PROVE Round(s, i) \in 1 .. Slots
  OBVIOUS
<1> DEFINE m == s + i - 1
<1>1. m \in Nat /\ Slots \in Nat \ {0}
  BY SlotsAssumption, SMT
<1> HIDE DEF m
<1>2. m % Slots \in 0 .. Slots - 1
  BY <1>1, SMT
<1> QED
  BY <1>1, <1>2, SMT DEF Round, m

\* As many slots as the queue has differ.
LEMMA RoundDiffers ==
  ASSUME NEW s \in Nat, NEW i \in 1 .. Slots, NEW j \in 1 .. Slots, i < j
  PROVE  Round(s, i) # Round(s, j)
<1> DEFINE k == s + i - 1
           d == j - i
<1>1. k \in Nat /\ d \in 1 .. Slots - 1 /\ Slots \in Nat \ {0} /\ s + j - 1 = k + d
  BY SlotsAssumption, SMT
<1> HIDE DEF k, d
<1>2. (k + d) % Slots # k % Slots
  BY <1>1, RemaindersDiffer
<1>3. (k + d) % Slots \in Int /\ k % Slots \in Int
  BY <1>1, SMT
<1>4. Round(s, i) = (k % Slots) + 1
  BY DEF Round, k
<1>5. Round(s, j) = ((k + d) % Slots) + 1
  BY <1>1 DEF Round
<1> QED
  BY <1>2, <1>3, <1>4, <1>5, SMT

\* To go round from the slot after the l-th is to go on.
LEMMA RoundOn ==
  ASSUME NEW s \in Nat, NEW l \in Nat, NEW i \in Nat \ {0}
  PROVE  ((Round(s, l + 1) + i - 2) % Slots) + 1 = Round(s, l + i)
<1> DEFINE k == s + l
           j == i - 1
           x == k % Slots
<1>1. k \in Nat /\ j \in Nat /\ Slots \in Nat \ {0}
  BY SlotsAssumption, SMT
<1>2. x \in Nat
  <2> HIDE DEF k
  <2> QED
    BY <1>1, SMT
<1>3. (x + j) % Slots = (k + j) % Slots
  <2> HIDE DEF k, j
  <2> QED
    BY <1>1, RemainderAdd DEF x
<1>4. Round(s, l + 1) = x + 1
  <2>1. s + (l + 1) - 1 = k
    BY SMT
  <2> QED
    BY <2>1 DEF Round
<1>5. (x + 1) + i - 2 = x + j /\ s + (l + i) - 1 = k + j
  <2> HIDE DEF x
  <2> QED
    BY <1>2, SMT
<1> QED
  BY <1>3, <1>4, <1>5 DEF Round

\* Slots that are taken differ.
LEMMA SlotsApartInQueue ==
  ASSUME QueueTypes, NEW r \in Rings, RingInv(r),
         NEW i \in DOMAIN pending[r], NEW j \in DOMAIN pending[r],
         pending[r][i] = pending[r][j]
  PROVE  i = j
<1>1. PICK s \in Nat : GoesRound(pending[r], s)
  BY DEF RingInv
<1>2. pending[r] \in Seq(1 .. Slots) /\ Len(pending[r]) <= Slots
  BY DEF QueueTypes, RingInv
<1>3. i \in 1 .. Slots /\ j \in 1 .. Slots
  BY <1>2, SlotsAssumption, SMT
<1>4. Round(s, i) = Round(s, j)
  BY <1>1 DEF GoesRound
<1>5. ~(i < j) /\ ~(j < i)
  BY <1>3, <1>4, RoundDiffers
<1> QED
  BY <1>3, <1>5, SMT

\* get_sqe: as many slots as are wanted or left, and they are next.
LEMMA FreeFacts ==
  ASSUME QueueTypes, NEW r \in Rings, RingInv(r), NEW n \in Nat
  PROVE  /\ Free(r, n) \in Seq(1 .. Slots)
         /\ Len(Free(r, n)) = IF Slots - Len(pending[r]) < n
                              THEN Slots - Len(pending[r]) ELSE n
         /\ \E s \in Nat : GoesRound(pending[r] \o Free(r, n), s)
<1> DEFINE old == pending[r]
           l == Len(pending[r])
           left == Slots - l
           k == IF left < n THEN left ELSE n
           first == IF old = <<>> THEN 1 ELSE Next1(old[l])
           new == Free(r, n)
<1>1. old \in Seq(1 .. Slots) /\ l \in Nat /\ l <= Slots /\ Slots \in Nat \ {0}
  BY SlotsAssumption, SMT DEF QueueTypes, RingInv
<1>2. left \in Nat /\ k \in Nat
  BY <1>1, SMT
<1>3. new = [i \in 1 .. k |-> ((first + i - 2) % Slots) + 1]
  BY DEF Free
<1>4. PICK s \in Nat : GoesRound(old, s) /\ first = Round(s, l + 1)
  <2>1. CASE old = <<>>
    <3>1. l = 0
      BY <2>1
    <3>2. \A i \in DOMAIN old : FALSE
      BY <2>1
    <3>3. GoesRound(old, 0)
      BY <3>2 DEF GoesRound
    <3>4. 0 % Slots = 0
      BY <1>1, RemainderIs
    <3>5. Round(0, l + 1) = 1
      BY <3>1, <3>4 DEF Round
    <3> QED
      BY <2>1, <3>3, <3>5
  <2>2. CASE old # <<>>
    <3>1. PICK s \in Nat : GoesRound(old, s)
      BY DEF RingInv
    <3>2. l \in DOMAIN old /\ l \in Nat \ {0}
      BY <1>1, <2>2, SMT
    <3>3. old[l] = Round(s, l)
      BY <3>1, <3>2 DEF GoesRound
    <3>4. Next1(old[l]) = Round(s, l + 1)
      <4> DEFINE m == l - 1
      <4>1. m \in Nat /\ m + 1 = l /\ m + 2 = l + 1 /\ 2 \in Nat \ {0}
        BY <3>2, SMT
      <4> HIDE DEF m
      <4>2. ((Round(s, m + 1) + 2 - 2) % Slots) + 1 = Round(s, m + 2)
        BY <3>1, <4>1, RoundOn, Zenon
      <4>3. ((Round(s, l) + 2 - 2) % Slots) + 1 = Round(s, l + 1)
        BY <4>1, <4>2
      <4>4. Round(s, l) \in 1 .. Slots
        BY <3>2, RoundType
      <4>5. Round(s, l) + 2 - 2 = Round(s, l)
        BY <4>4, SMT
      <4> QED
        BY <3>3, <4>3, <4>5 DEF Next1
    <3> QED
      BY <2>2, <3>1, <3>4
  <2> QED
    BY <2>1, <2>2
<1>5. \A i \in 1 .. k : new[i] = Round(s, l + i)
  <2> SUFFICES ASSUME NEW i \in 1 .. k PROVE new[i] = Round(s, l + i)
    OBVIOUS
  <2>1. i \in Nat \ {0}
    BY <1>2, SMT
  <2>2. new[i] = ((first + i - 2) % Slots) + 1
    BY <1>3
  <2> HIDE DEF first, new, l
  <2>3. ((Round(s, l + 1) + i - 2) % Slots) + 1 = Round(s, l + i)
    BY <1>1, <1>4, <2>1, RoundOn, Zenon
  <2> QED
    BY <1>4, <2>2, <2>3
<1>6. \A i \in 1 .. k : new[i] \in 1 .. Slots
  <2> SUFFICES ASSUME NEW i \in 1 .. k PROVE new[i] \in 1 .. Slots
    OBVIOUS
  <2>1. l + i \in Nat \ {0}
    BY <1>1, <1>2, SMT
  <2> QED
    BY <1>5, <2>1, RoundType
<1> HIDE DEF k, first, new
<1>7. new \in Seq(1 .. Slots) /\ Len(new) = k
  <2>1. new \in [1 .. k -> 1 .. Slots]
    BY <1>3, <1>6
  <2>2. new \in Seq(1 .. Slots)
    BY <1>2, <2>1, SeqDef
  <2> QED
    BY <1>2, <1>3, <2>2, SMT
<1>8. GoesRound(old \o new, s)
  <2> SUFFICES ASSUME NEW i \in DOMAIN (old \o new)
               PROVE  (old \o new)[i] = Round(s, i)
    BY DEF GoesRound
  <2>1. i \in 1 .. l + k
    BY <1>1, <1>7, SMT
  <2>2. CASE i <= l
    <3>1. i \in DOMAIN old /\ (old \o new)[i] = old[i]
      BY <1>1, <1>7, <2>1, <2>2, SMT
    <3> QED
      BY <1>4, <3>1 DEF GoesRound
  <2>3. CASE ~(i <= l)
    <3>1. i - l \in 1 .. k /\ l + (i - l) = i
      BY <1>1, <1>2, <2>1, <2>3, SMT
    <3>2. (old \o new)[i] = new[i - l]
      BY <1>1, <1>7, <2>1, <2>3, SMT
    <3> QED
      BY <1>5, <3>1, <3>2
  <2> QED
    BY <2>2, <2>3
<1>9. k = IF Slots - Len(pending[r]) < n THEN Slots - Len(pending[r]) ELSE n
  BY DEF k
<1> QED
  BY <1>7, <1>8, <1>9 DEF new

-----------------------------------------------------------------------------
(* Where the user data of an operation is: in the submission queue, with   *)
(* the kernel, in the completion queue.                                    *)

InSq(r, u, i) == /\ i \in DOMAIN pending[r] /\ pending[r][i] \notin unprepared[r]
                 /\ slot[r][pending[r][i]] = u
InCq(r, u, i) == i \in DOMAIN cq[r] /\ cq[r][i] = u

AtRing(r, u) == \/ \E i \in Nat : InSq(r, u, i)
                \/ inflight[r][u] # 0
                \/ \E i \in Nat : InCq(r, u, i)

OnceAt(r, u) ==
  /\ \A i, j \in Nat : InSq(r, u, i) /\ InSq(r, u, j) => i = j
  /\ \A i, j \in Nat : InCq(r, u, i) /\ InCq(r, u, j) => i = j
  /\ inflight[r][u] \in {0, 1}
  /\ (\E i \in Nat : InSq(r, u, i)) => inflight[r][u] = 0
  /\ (\E i \in Nat : InCq(r, u, i)) => inflight[r][u] = 0
  /\ \A i, j \in Nat : ~(InSq(r, u, i) /\ InCq(r, u, j))

Somewhere(u) == \E r \in Rings : AtRing(r, u)
Once(u) == /\ \A r \in Rings : OnceAt(r, u)
           /\ \A x, y \in Rings : AtRing(x, u) /\ AtRing(y, u) => x = y

\* A step that does not put u anywhere.
Kept(r, u) == (AtRing(r, u)' => AtRing(r, u)) /\ (OnceAt(r, u) => OnceAt(r, u)')

\* A step that leaves a completion queue, and what the kernel has, as they are.
LEMMA QueueKept ==
  ASSUME NEW r, NEW u, cq'[r] = cq[r], inflight'[r][u] = inflight[r][u],
         \A i \in Nat : InSq(r, u, i)' => InSq(r, u, i)
  PROVE  Kept(r, u)
<1>1. \A i \in Nat : InCq(r, u, i)' <=> InCq(r, u, i)
  BY DEF InCq
<1>2. AtRing(r, u)' => AtRing(r, u)
  BY <1>1 DEF AtRing
<1>3. ASSUME OnceAt(r, u) PROVE OnceAt(r, u)'
  BY <1>1, <1>3 DEF OnceAt
<1> QED
  BY <1>2, <1>3 DEF Kept

\* What each ring keeps all keep.
LEMMA OnceKept ==
  ASSUME NEW u, \A r \in Rings : Kept(r, u)
  PROVE  (Somewhere(u)' => Somewhere(u)) /\ (Once(u) => Once(u)')
<1>1. Somewhere(u)' => Somewhere(u)
  BY DEF Kept, Somewhere
<1>2. ASSUME Once(u) PROVE Once(u)'
  <2>1. \A r \in Rings : OnceAt(r, u)'
    BY <1>2 DEF Once, Kept
  <2>2. \A x, y \in Rings : AtRing(x, u)' /\ AtRing(y, u)' => x = y
    BY <1>2 DEF Once, Kept
  <2> QED
    BY <2>1, <2>2 DEF Once
<1> QED
  BY <1>1, <1>2

\* What a concatenation has where.
LEMMA ConcatFacts ==
  ASSUME NEW S, NEW s \in Seq(S), NEW t \in Seq(S)
  PROVE  /\ s \o t \in Seq(S) /\ Len(s) \in Nat /\ Len(t) \in Nat
         /\ Len(s \o t) = Len(s) + Len(t)
         /\ DOMAIN (s \o t) = 1 .. Len(s) + Len(t)
         /\ \A i \in DOMAIN s : i \in DOMAIN (s \o t) /\ (s \o t)[i] = s[i]
         /\ \A i \in DOMAIN t : /\ Len(s) + i \in DOMAIN (s \o t)
                               /\ (s \o t)[Len(s) + i] = t[i]
                               /\ i \in Nat \ {0} /\ i <= Len(t)
         /\ \A i \in DOMAIN (s \o t) :
              i \notin DOMAIN s => i - Len(s) \in DOMAIN t /\ (s \o t)[i] = t[i - Len(s)]
<1>1. s \o t \in Seq(S) /\ Len(s) \in Nat /\ Len(t) \in Nat
  BY SMT
<1>2. Len(s \o t) = Len(s) + Len(t) /\ DOMAIN (s \o t) = 1 .. Len(s) + Len(t)
  BY <1>1, SMT
<1>3. \A i \in DOMAIN s : i \in DOMAIN (s \o t) /\ (s \o t)[i] = s[i]
  BY <1>1, SMT
<1>4. \A i \in DOMAIN t : i \in Nat \ {0} /\ i <= Len(t)
  BY <1>1, SMT
<1>5. \A i \in DOMAIN t : Len(s) + i \in DOMAIN (s \o t) /\ (s \o t)[Len(s) + i] = t[i]
  <2> SUFFICES ASSUME NEW i \in DOMAIN t
               PROVE  Len(s) + i \in DOMAIN (s \o t) /\ (s \o t)[Len(s) + i] = t[i]
    OBVIOUS
  <2>1. i \in 1 .. Len(t) /\ Len(s) + i \in 1 .. Len(s) + Len(t) /\ ~(Len(s) + i <= Len(s))
    BY <1>1, <1>4, SMT
  <2>2. (s \o t)[Len(s) + i] = t[Len(s) + i - Len(s)]
    BY <1>1, <2>1, SMT
  <2>3. Len(s) + i - Len(s) = i
    BY <1>1, <2>1, SMT
  <2> QED
    BY <1>2, <2>1, <2>2, <2>3
<1>6. \A i \in DOMAIN (s \o t) :
        i \notin DOMAIN s => i - Len(s) \in DOMAIN t /\ (s \o t)[i] = t[i - Len(s)]
  BY <1>1, <1>2, SMT
<1> QED
  BY <1>1, <1>2, <1>3, <1>4, <1>5, <1>6

\* get_sqe keeps the rings as they are, but for the slots it takes.
LEMMA Taking ==
  ASSUME QueueTypes, \A r \in Rings : RingInv(r), NEW x \in Rings, NEW n \in Nat,
         TakeSlots(x, Free(x, n)), cq' = cq
  PROVE  /\ QueueTypes' /\ (\A r \in Rings : RingInv(r)')
         /\ \A r \in Rings : \A u : Kept(r, u)
         /\ Free(x, n) \in Seq(1 .. Slots)
         /\ Len(Free(x, n)) = IF Slots - Len(pending[x]) < n
                              THEN Slots - Len(pending[x]) ELSE n
         /\ Len(pending'[x]) = Len(pending[x]) + Len(Free(x, n))
         /\ \A i \in DOMAIN Free(x, n) : Free(x, n)[i] \notin unprepared[x]
<1> DEFINE new == Free(x, n)
           old == pending[x]
<1>1. /\ new \in Seq(1 .. Slots)
      /\ Len(new) = IF Slots - Len(old) < n THEN Slots - Len(old) ELSE n
      /\ \E s \in Nat : GoesRound(old \o new, s)
  BY FreeFacts
<1>2. /\ pending' = [pending EXCEPT ![x] = @ \o new]
      /\ unprepared' = [unprepared EXCEPT ![x] = @ \union {new[i] : i \in DOMAIN new}]
      /\ slot' = slot /\ inflight' = inflight /\ stale' = stale
  BY DEF TakeSlots
<1> HIDE DEF new
<1>3. /\ old \in Seq(1 .. Slots) /\ Len(old) \in Nat /\ Len(old) <= Slots
      /\ Slots \in Nat \ {0}
  BY SlotsAssumption DEF QueueTypes, RingInv
<1>4. /\ old \o new \in Seq(1 .. Slots) /\ Len(old \o new) = Len(old) + Len(new)
      /\ DOMAIN (old \o new) = 1 .. Len(old) + Len(new)
      /\ \A i \in DOMAIN old : i \in DOMAIN (old \o new) /\ (old \o new)[i] = old[i]
      /\ \A i \in DOMAIN new : /\ Len(old) + i \in DOMAIN (old \o new)
                               /\ (old \o new)[Len(old) + i] = new[i]
      /\ \A i \in DOMAIN (old \o new) :
           i \notin DOMAIN old => /\ i - Len(old) \in DOMAIN new
                                  /\ (old \o new)[i] = new[i - Len(old)]
  <2>1. old \in Seq(1 .. Slots) /\ new \in Seq(1 .. Slots)
    BY <1>1, <1>3
  <2> DEFINE S == 1 .. Slots
  <2>2. old \in Seq(S) /\ new \in Seq(S)
    BY <2>1
  <2> HIDE DEF old, S
  <2>3. /\ old \o new \in Seq(S) /\ Len(old \o new) = Len(old) + Len(new)
        /\ DOMAIN (old \o new) = 1 .. Len(old) + Len(new)
        /\ \A i \in DOMAIN old : i \in DOMAIN (old \o new) /\ (old \o new)[i] = old[i]
    BY <2>2, ConcatFacts
  <2>4. \A i \in DOMAIN new : /\ Len(old) + i \in DOMAIN (old \o new)
                              /\ (old \o new)[Len(old) + i] = new[i]
    BY <2>2, ConcatFacts
  <2>5. \A i \in DOMAIN (old \o new) :
          i \notin DOMAIN old => /\ i - Len(old) \in DOMAIN new
                                 /\ (old \o new)[i] = new[i - Len(old)]
    BY <2>2, ConcatFacts
  <2> QED
    BY <2>3, <2>4, <2>5 DEF S
<1>5. Len(old) + Len(new) <= Slots
  <2> DEFINE left == Slots - Len(old)
  <2>1. left \in Nat /\ Len(new) = IF left < n THEN left ELSE n
    BY <1>1, <1>3
  <2> HIDE DEF left
  <2>2. Len(new) \in Nat /\ Len(new) <= left
    BY <2>1, SMT
  <2>3. Len(new) \in Nat /\ Len(new) <= Slots - Len(old)
    BY <2>2 DEF left
  <2> QED
    BY <1>3, <2>3, SMT
<1>6. /\ pending'[x] = old \o new
      /\ unprepared'[x] = unprepared[x] \union {new[i] : i \in DOMAIN new}
      /\ \A r \in Rings : r # x => pending'[r] = pending[r] /\ unprepared'[r] = unprepared[r]
  BY <1>2 DEF QueueTypes
<1>7. QueueTypes'
  <2>1. pending' \in [Rings -> Seq(1 .. Slots)]
    <3> DEFINE Q == Seq(1 .. Slots)
    <3>1. pending \in [Rings -> Q] /\ old \o new \in Q
      BY <1>4 DEF QueueTypes
    <3> HIDE DEF Q
    <3>2. pending' \in [Rings -> Q]
      BY <1>2, <3>1
    <3> QED
      BY <3>2 DEF Q
  <2>2. \A i \in DOMAIN new : new[i] \in 1 .. Slots
    <3>1. new \in Seq(1 .. Slots)
      BY <1>1
    <3> DEFINE S == 1 .. Slots
    <3>2. new \in Seq(S)
      BY <3>1
    <3> HIDE DEF S
    <3>3. \A i \in DOMAIN new : new[i] \in S
      BY <3>2, SMT
    <3> QED
      BY <3>3 DEF S
  <2>3. unprepared' \in [Rings -> SUBSET (1 .. Slots)]
    BY <1>2, <2>2 DEF QueueTypes
  <2> QED
    BY <1>2, <2>1, <2>3 DEF QueueTypes
<1>8. ASSUME NEW i \in DOMAIN new, NEW j \in DOMAIN old, new[i] = old[j] PROVE FALSE
  <2>1. PICK s \in Nat : GoesRound(old \o new, s)
    BY <1>1
  <2>2. /\ j \in 1 .. Slots /\ Len(old) + i \in 1 .. Slots /\ j < Len(old) + i
        /\ j \in DOMAIN (old \o new) /\ Len(old) + i \in DOMAIN (old \o new)
    <3>1. /\ i \in Nat \ {0} /\ i <= Len(new) /\ Len(new) \in Nat
          /\ j \in Nat \ {0} /\ j <= Len(old)
      BY <1>1, <1>3, ConcatFacts
    <3>2. j \in 1 .. Slots /\ Len(old) + i \in 1 .. Slots /\ j < Len(old) + i
      BY <1>3, <1>5, <3>1, SMT
    <3> QED
      BY <1>4, <3>2
  <2>3. old[j] = Round(s, j) /\ new[i] = Round(s, Len(old) + i)
    BY <1>4, <1>8, <2>1, <2>2 DEF GoesRound
  <2>4. Round(s, j) # Round(s, Len(old) + i)
    <3> DEFINE k == Len(old) + i
    <3>1. k \in 1 .. Slots /\ j < k
      BY <2>2
    <3> HIDE DEF k
    <3>2. Round(s, j) # Round(s, k)
      BY <2>2, <3>1, RoundDiffers
    <3> QED
      BY <3>2 DEF k
  <2> QED
    BY <1>8, <2>3, <2>4
<1>9. ASSUME NEW r \in Rings PROVE RingInv(r)'
  <2>1. CASE r # x
    BY <1>6, <2>1 DEF RingInv, GoesRound
  <2>2. CASE r = x
    <3>1. Len(pending'[x]) <= Slots
      BY <1>4, <1>5, <1>6
    <3>2. \E s \in Nat : GoesRound(pending[x], s)'
      BY <1>1, <1>6 DEF GoesRound
    <3>3. ASSUME NEW y \in unprepared'[x]
          PROVE  \E i \in DOMAIN pending'[x] : pending'[x][i] = y
      <4>1. CASE y \in unprepared[x]
        <5>1. PICK i \in DOMAIN old : old[i] = y
          BY <4>1 DEF RingInv
        <5> QED
          BY <1>4, <1>6, <5>1
      <4>2. CASE \E i \in DOMAIN new : y = new[i]
        BY <1>4, <1>6, <4>2
      <4> QED
        BY <1>6, <3>3, <4>1, <4>2
    <3> QED
      BY <2>2, <3>1, <3>2, <3>3 DEF RingInv
  <2> QED
    BY <2>1, <2>2
<1>10. ASSUME NEW r \in Rings, NEW u PROVE Kept(r, u)
  <2>1. ASSUME NEW i \in Nat, InSq(r, u, i)' PROVE InSq(r, u, i)
    <3>1. CASE r # x
      BY <1>2, <1>6, <2>1, <3>1 DEF InSq
    <3>2. CASE r = x
      <4>1. /\ i \in DOMAIN (old \o new) /\ (old \o new)[i] \notin unprepared'[x]
            /\ slot[x][(old \o new)[i]] = u
        BY <1>2, <1>6, <2>1, <3>2 DEF InSq
      <4>2. i \in DOMAIN old
        BY <1>4, <1>6, <4>1
      <4> QED
        BY <1>4, <1>6, <3>2, <4>1, <4>2 DEF InSq
    <3> QED
      BY <3>1, <3>2
  <2> QED
    BY <1>2, <2>1, QueueKept
<1>11. \A i \in DOMAIN new : new[i] \notin unprepared[x]
  BY <1>8 DEF RingInv
<1> QED
  BY <1>1, <1>4, <1>6, <1>7, <1>9, <1>10, <1>11 DEF new

\* prep: the slots taken hold what is prepared, and nothing else moves.
LEMMA Preparing ==
  ASSUME QueueTypes, \A r \in Rings : RingInv(r), NEW x \in Rings,
         NEW taken \in Seq(1 .. Slots), NEW us, DOMAIN us = DOMAIN taken,
         \A k \in DOMAIN us : us[k] \in UserData,
         Prepare(x, taken, us), cq' = cq
  PROVE  /\ QueueTypes' /\ (\A r \in Rings : RingInv(r)') /\ pending' = pending
         /\ \A u : (\A k \in DOMAIN us : us[k] # u) => \A r \in Rings : Kept(r, u)
         /\ \A k \in DOMAIN us : (\A j \in DOMAIN us : us[j] = us[k] => j = k) =>
              (~Somewhere(us[k]) => Once(us[k])')
<1>1. /\ slot' = [slot EXCEPT ![x] = [i \in 1 .. Slots |->
           IF \E k \in DOMAIN taken : taken[k] = i
           THEN us[CHOOSE k \in DOMAIN taken : taken[k] = i] ELSE slot[x][i]]]
      /\ unprepared' = [unprepared EXCEPT ![x] = @ \ {taken[k] : k \in DOMAIN taken}]
      /\ pending' = pending /\ inflight' = inflight /\ stale' = stale
  BY DEF Prepare
<1>2. ASSUME NEW i \in 1 .. Slots
      PROVE  \/ \E k \in DOMAIN taken : taken[k] = i /\ slot'[x][i] = us[k]
             \/ (\A k \in DOMAIN taken : taken[k] # i) /\ slot'[x][i] = slot[x][i]
  <2>1. slot'[x][i] = IF \E k \in DOMAIN taken : taken[k] = i
                      THEN us[CHOOSE k \in DOMAIN taken : taken[k] = i] ELSE slot[x][i]
    BY <1>1 DEF QueueTypes
  <2>2. CASE \E k \in DOMAIN taken : taken[k] = i
    <3> DEFINE c == CHOOSE k \in DOMAIN taken : taken[k] = i
    <3>1. c \in DOMAIN taken /\ taken[c] = i
      BY <2>2
    <3>2. slot'[x][i] = us[c]
      BY <2>1, <2>2
    <3> QED
      BY <3>1, <3>2
  <2>3. CASE ~\E k \in DOMAIN taken : taken[k] = i
    BY <2>1, <2>3
  <2> QED
    BY <2>2, <2>3
<1>3. QueueTypes'
  <2>1. \A i \in 1 .. Slots : slot'[x][i] \in UserData
    <3> SUFFICES ASSUME NEW i \in 1 .. Slots PROVE slot'[x][i] \in UserData
      OBVIOUS
    <3>1. slot[x][i] \in UserData
      <4>1. slot[x] \in [1 .. Slots -> UserData]
        BY DEF QueueTypes
      <4> QED
        BY <4>1
    <3> QED
      BY <1>2, <3>1
  <2>2. slot'[x] \in [1 .. Slots -> UserData]
    BY <1>1, <2>1 DEF QueueTypes
  <2>3. slot' \in [Rings -> [1 .. Slots -> UserData]]
    BY <1>1, <2>2 DEF QueueTypes
  <2>4. unprepared' \in [Rings -> SUBSET (1 .. Slots)]
    BY <1>1 DEF QueueTypes
  <2> QED
    BY <1>1, <2>3, <2>4 DEF QueueTypes
<1>4. \A r \in Rings : unprepared'[r] \subseteq unprepared[r]
  BY <1>1 DEF QueueTypes
<1>5. \A r \in Rings : RingInv(r)'
  BY <1>1, <1>4 DEF RingInv, GoesRound
<1>6. ASSUME NEW u, NEW r \in Rings, NEW i \in Nat, InSq(r, u, i)'
      PROVE  \/ InSq(r, u, i)
             \/ r = x /\ \E k \in DOMAIN us : us[k] = u /\ pending[x][i] = taken[k]
  <2>1. /\ i \in DOMAIN pending[r] /\ pending[r][i] \notin unprepared'[r]
        /\ slot'[r][pending[r][i]] = u
    BY <1>1, <1>6 DEF InSq
  <2>2. CASE r # x
    BY <1>1, <2>1, <2>2 DEF InSq, QueueTypes
  <2>3. CASE r = x
    <3> DEFINE j == pending[x][i]
    <3>1. j \in 1 .. Slots
      <4> DEFINE S == 1 .. Slots
      <4>1. pending[x] \in Seq(S)
        BY DEF QueueTypes
      <4> HIDE DEF S
      <4>2. \A k \in DOMAIN pending[x] : pending[x][k] \in S
        BY <4>1, SMT
      <4> QED
        BY <2>1, <2>3, <4>2 DEF S
    <3>2. slot'[x][j] = u /\ j \notin unprepared'[x]
      BY <2>1, <2>3
    <3>3. CASE \E k \in DOMAIN taken : taken[k] = j /\ slot'[x][j] = us[k]
      BY <2>3, <3>2, <3>3
    <3>4. CASE (\A k \in DOMAIN taken : taken[k] # j) /\ slot'[x][j] = slot[x][j]
      <4>1. j \notin unprepared[x]
        BY <1>1, <3>2, <3>4 DEF QueueTypes
      <4> QED
        BY <2>1, <2>3, <3>2, <3>4, <4>1 DEF InSq
    <3> QED
      BY <1>2, <3>1, <3>3, <3>4
  <2> QED
    BY <2>2, <2>3
<1>7. ASSUME NEW u, \A k \in DOMAIN us : us[k] # u, NEW r \in Rings PROVE Kept(r, u)
  BY <1>1, <1>6, <1>7, QueueKept
<1>8. ASSUME NEW k \in DOMAIN us, \A j \in DOMAIN us : us[j] = us[k] => j = k,
             ~Somewhere(us[k])
      PROVE  Once(us[k])'
  <2> DEFINE u == us[k]
  <2> HIDE DEF u
  <2>1. /\ \A r \in Rings : \A i \in Nat : ~InSq(r, u, i) /\ ~InCq(r, u, i)
        /\ \A r \in Rings : inflight[r][u] = 0
    BY <1>8 DEF Somewhere, AtRing, u
  <2>2. /\ \A r \in Rings : \A i \in Nat : ~InCq(r, u, i)'
        /\ \A r \in Rings : inflight'[r][u] = 0
    BY <1>1, <2>1 DEF InCq
  <2>3. \A r \in Rings : \A i \in Nat :
          InSq(r, u, i)' => r = x /\ i \in DOMAIN pending[x] /\ pending[x][i] = taken[k]
    <3> SUFFICES ASSUME NEW r \in Rings, NEW i \in Nat, InSq(r, u, i)'
                 PROVE  r = x /\ i \in DOMAIN pending[x] /\ pending[x][i] = taken[k]
      OBVIOUS
    <3>1. r = x /\ \E j \in DOMAIN us : us[j] = u /\ pending[x][i] = taken[j]
      BY <1>6, <2>1
    <3>2. i \in DOMAIN pending[x]
      BY <1>1, <3>1 DEF InSq
    <3> QED
      BY <1>8, <3>1, <3>2 DEF u
  <2>4. \A r \in Rings : \A i, j \in Nat : InSq(r, u, i)' /\ InSq(r, u, j)' => i = j
    BY <2>3, SlotsApartInQueue
  <2>5. \A r \in Rings : OnceAt(r, u)'
    BY <2>2, <2>4 DEF OnceAt
  <2>6. \A r, y \in Rings : AtRing(r, u)' /\ AtRing(y, u)' => r = y
    BY <2>2, <2>3 DEF AtRing
  <2>7. Once(u)'
    BY <2>5, <2>6 DEF Once
  <2> QED
    BY <2>7 DEF u
<1> QED
  BY <1>1, <1>3, <1>5, <1>7, <1>8

\* submit: unless it submits what nobody has prepared, the kernel gets what was in the queue.
LEMMA Submitting ==
  ASSUME QueueTypes, \A r \in Rings : RingInv(r), NEW x \in Rings, Submit(x), cq' = cq
  PROVE  /\ QueueTypes' /\ (\A r \in Rings : RingInv(r)')
         /\ stale => stale'
         /\ stale' => stale \/ unprepared[x] # {}
         /\ ~stale' => unprepared' = unprepared
         /\ ~stale' => \A r \in Rings : \A u \in UserData : Kept(r, u)
<1> DEFINE At(u) == {i \in DOMAIN pending[x] : slot[x][pending[x][i]] = u}
<1>1. CASE /\ failures < MaxFailures
           /\ failures' = failures + 1
           /\ UNCHANGED <<slot, pending, unprepared, inflight, stale>>
  <2>1. \A r \in Rings : \A u \in UserData : Kept(r, u)
    BY <1>1, QueueKept DEF InSq
  <2>2. \A r \in Rings : RingInv(r)'
    BY <1>1 DEF RingInv, GoesRound
  <2> QED
    BY <1>1, <2>1, <2>2 DEF QueueTypes
<1>2. CASE /\ inflight' = [inflight EXCEPT ![x] = [u \in UserData |->
                @[u] + Cardinality({i \in DOMAIN pending[x] : slot[x][pending[x][i]] = u})]]
           /\ stale' = (stale \/ unprepared[x] # {})
           /\ pending' = [pending EXCEPT ![x] = <<>>]
           /\ unprepared' = [unprepared EXCEPT ![x] = {}]
           /\ UNCHANGED <<slot, failures>>
  <2>1. \A u \in UserData : inflight'[x][u] = inflight[x][u] + Cardinality(At(u))
    BY <1>2 DEF QueueTypes
  <2>2. /\ pending'[x] = <<>> /\ unprepared'[x] = {} /\ slot' = slot
        /\ \A r \in Rings : r # x => /\ pending'[r] = pending[r] /\ unprepared'[r] = unprepared[r]
                                     /\ inflight'[r] = inflight[r]
    BY <1>2 DEF QueueTypes
  <2>3. \A u : IsFiniteSet(At(u)) /\ Cardinality(At(u)) \in Nat
    <3>1. Len(pending[x]) \in Nat /\ DOMAIN pending[x] = 1 .. Len(pending[x])
      <4> DEFINE S == 1 .. Slots
      <4>1. pending[x] \in Seq(S)
        BY DEF QueueTypes
      <4> DEFINE s == pending[x]
      <4>2. s \in Seq(S)
        BY <4>1
      <4> HIDE DEF S, s
      <4>3. Len(s) \in Nat /\ DOMAIN s = 1 .. Len(s)
        BY <4>2, LenProperties
      <4> QED
        BY <4>3 DEF s
    <3>2. IsFiniteSet(DOMAIN pending[x])
      <4> DEFINE m == Len(pending[x])
      <4>1. m \in Int /\ 1 \in Int /\ DOMAIN pending[x] = 1 .. m
        BY <3>1
      <4> HIDE DEF m
      <4>2. IsFiniteSet(1 .. m)
        BY <4>1, FS_Interval, Zenon
      <4> QED
        BY <4>1, <4>2
    <3> QED
      BY <3>2, FS_Subset, FS_CardinalityType
  <2>4. \A u : At(u) # {} => \E i \in Nat : i \in At(u)
    BY LenProperties DEF QueueTypes
  <2> HIDE DEF At
  <2>5. QueueTypes'
    <3>1. \A u \in UserData : inflight'[x][u] \in Nat
      <4> SUFFICES ASSUME NEW u \in UserData PROVE inflight'[x][u] \in Nat
        OBVIOUS
      <4>1. inflight[x][u] \in Nat
        BY DEF QueueTypes
      <4> QED
        BY <2>1, <2>3, <4>1, SMT
    <3>2. inflight'[x] \in [UserData -> Nat]
      BY <1>2, <3>1 DEF QueueTypes
    <3>3. inflight' \in [Rings -> [UserData -> Nat]]
      BY <1>2, <3>2 DEF QueueTypes
    <3>4. pending' \in [Rings -> Seq(1 .. Slots)]
      <4> DEFINE Q == Seq(1 .. Slots)
      <4>1. <<>> \in Q /\ pending \in [Rings -> Q]
        BY DEF QueueTypes
      <4> HIDE DEF Q
      <4>2. pending' \in [Rings -> Q]
        BY <1>2, <4>1
      <4> QED
        BY <4>2 DEF Q
    <3>5. unprepared' \in [Rings -> SUBSET (1 .. Slots)]
      BY <1>2 DEF QueueTypes
    <3>6. stale' \in BOOLEAN
      BY <1>2 DEF QueueTypes
    <3> QED
      BY <1>2, <3>3, <3>4, <3>5, <3>6 DEF QueueTypes
  <2>6. ASSUME NEW r \in Rings PROVE RingInv(r)'
    <3>1. CASE r # x
      BY <2>2, <3>1 DEF RingInv, GoesRound
    <3>2. CASE r = x
      <4>1. Len(pending'[x]) <= Slots
        BY <2>2, SlotsAssumption, SMT
      <4>2. GoesRound(pending[x], 0)'
        BY <2>2 DEF GoesRound
      <4> QED
        BY <2>2, <3>2, <4>1, <4>2 DEF RingInv
    <3> QED
      BY <3>1, <3>2
  <2>7. ~stale' => unprepared[x] = {} /\ unprepared' = unprepared
    BY <1>2 DEF QueueTypes
  <2>8. ASSUME ~stale', NEW u \in UserData PROVE Kept(x, u)
    <3>1. \A i \in Nat : i \in At(u) => InSq(x, u, i)
      BY <2>7, <2>8 DEF InSq, At
    <3>2. \A i \in Nat : ~InSq(x, u, i)' /\ (InCq(x, u, i)' <=> InCq(x, u, i))
      BY <2>2 DEF InSq, InCq
    <3>3. CASE At(u) = {}
      <4>1. Cardinality(At(u)) = 0
        BY <3>3, FS_EmptySet
      <4>2. inflight[x][u] \in Nat
        BY DEF QueueTypes
      <4>3. inflight'[x][u] = inflight[x][u]
        BY <2>1, <4>1, <4>2, SMT
      <4> QED
        BY <3>2, <4>3, QueueKept
    <3>4. CASE At(u) # {}
      <4>1. PICK i \in Nat : i \in At(u) /\ InSq(x, u, i)
        BY <2>4, <3>1, <3>4
      <4>2. AtRing(x, u)
        BY <4>1 DEF AtRing
      <4>3. ASSUME OnceAt(x, u) PROVE OnceAt(x, u)'
        <5>1. \A j \in Nat : j \in At(u) => j = i
          BY <3>1, <4>1, <4>3 DEF OnceAt
        <5>2. At(u) = {i}
          <6>1. \A j \in At(u) : j \in Nat
            BY LenProperties DEF At, QueueTypes
          <6> QED
            BY <4>1, <5>1, <6>1
        <5>3. Cardinality(At(u)) = 1
          BY <5>2, FS_Singleton
        <5>4. inflight[x][u] = 0 /\ \A j \in Nat : ~InCq(x, u, j)
          BY <4>1, <4>3 DEF OnceAt
        <5>5. inflight'[x][u] = 1
          BY <2>1, <5>3, <5>4
        <5> QED
          BY <3>2, <5>4, <5>5 DEF OnceAt
      <4> QED
        BY <4>2, <4>3 DEF Kept
    <3> QED
      BY <3>3, <3>4
  <2>9. ASSUME NEW r \in Rings, r # x, NEW u PROVE Kept(r, u)
    BY <2>2, <2>9, QueueKept DEF InSq
  <2> QED
    BY <1>2, <2>5, <2>6, <2>7, <2>8, <2>9
<1> QED
  BY <1>1, <1>2 DEF Submit

\* The kernel completes what it has.
LEMMA Completing ==
  ASSUME QueueTypes, \A r \in Rings : RingInv(r), NEW x \in Rings, NEW v \in UserData,
         Complete(x, v)
  PROVE  /\ QueueTypes' /\ (\A r \in Rings : RingInv(r)')
         /\ \A r \in Rings : \A u \in UserData : Kept(r, u)
<1>1. /\ inflight[x][v] > 0 /\ inflight' = [inflight EXCEPT ![x][v] = @ - 1]
      /\ cq' = [cq EXCEPT ![x] = Append(@, v)]
      /\ slot' = slot /\ pending' = pending /\ unprepared' = unprepared /\ stale' = stale
  BY DEF Complete
<1>2. \A r \in Rings : RingInv(r)'
  BY <1>1 DEF RingInv, GoesRound
<1>3. /\ cq[x] \in Seq(UserData) /\ Len(cq[x]) \in Nat /\ DOMAIN cq[x] = 1 .. Len(cq[x])
      /\ inflight[x][v] \in Nat
  BY LenProperties DEF QueueTypes
<1> DEFINE n == Len(cq[x])
<1>4. /\ Append(cq[x], v) \in Seq(UserData) /\ DOMAIN Append(cq[x], v) = 1 .. n + 1
      /\ \A i \in 1 .. n : Append(cq[x], v)[i] = cq[x][i]
      /\ Append(cq[x], v)[n + 1] = v
  BY <1>3, SMT
<1>5. /\ cq'[x] = Append(cq[x], v) /\ \A r \in Rings : r # x => cq'[r] = cq[r]
      /\ inflight'[x][v] = inflight[x][v] - 1
      /\ \A r \in Rings : \A u \in UserData : r # x \/ u # v => inflight'[r][u] = inflight[r][u]
  BY <1>1 DEF QueueTypes
<1>6. QueueTypes'
  <2>1. inflight' \in [Rings -> [UserData -> Nat]]
    <3>1. inflight[x][v] - 1 \in Nat
      BY <1>1, <1>3, SMT
    <3> QED
      BY <1>1, <3>1 DEF QueueTypes
  <2>2. cq' \in [Rings -> Seq(UserData)]
    BY <1>1, <1>4 DEF QueueTypes
  <2> QED
    BY <1>1, <2>1, <2>2 DEF QueueTypes
<1>7. \A r \in Rings : \A u : \A i \in Nat : InSq(r, u, i)' <=> InSq(r, u, i)
  BY <1>1 DEF InSq
<1>8. \A u : \A i \in Nat :
        InCq(x, u, i)' <=> InCq(x, u, i) \/ (u = v /\ i = n + 1)
  <2> SUFFICES ASSUME NEW u, NEW i \in Nat
               PROVE  InCq(x, u, i)' <=> InCq(x, u, i) \/ (u = v /\ i = n + 1)
    OBVIOUS
  <2>1. i \in 1 .. n + 1 <=> i \in 1 .. n \/ i = n + 1
    BY <1>3, SMT
  <2>2. n + 1 \notin 1 .. n
    BY <1>3, SMT
  <2> HIDE DEF n
  <2> QED
    BY <1>3, <1>4, <1>5, <2>1, <2>2 DEF InCq, n
<1> HIDE DEF n
<1>9. ASSUME NEW r \in Rings, NEW u \in UserData, r # x \/ u # v PROVE Kept(r, u)
  <2>1. inflight'[r][u] = inflight[r][u]
    BY <1>5, <1>9
  <2>2. \A i \in Nat : InCq(r, u, i)' <=> InCq(r, u, i)
    BY <1>5, <1>8, <1>9 DEF InCq
  <2>3. AtRing(r, u)' => AtRing(r, u)
    BY <1>7, <2>1, <2>2 DEF AtRing
  <2>4. ASSUME OnceAt(r, u) PROVE OnceAt(r, u)'
    BY <1>7, <2>1, <2>2, <2>4 DEF OnceAt
  <2> QED
    BY <2>3, <2>4 DEF Kept
<1>10. Kept(x, v)
  <2>1. AtRing(x, v)
    BY <1>1, <1>3, SMT DEF AtRing
  <2>2. ASSUME OnceAt(x, v) PROVE OnceAt(x, v)'
    <3>1. inflight[x][v] = 1
      BY <1>1, <1>3, <2>2, SMT DEF OnceAt
    <3>2. inflight'[x][v] = 0
      BY <1>5, <3>1, SMT
    <3>3. \A i \in Nat : ~InSq(x, v, i) /\ ~InCq(x, v, i)
      BY <2>2, <3>1, SMT DEF OnceAt
    <3>4. \A i \in Nat : ~InSq(x, v, i)' /\ (InCq(x, v, i)' <=> i = n + 1)
      BY <1>7, <1>8, <3>3
    <3> QED
      BY <3>2, <3>4 DEF OnceAt
  <2> QED
    BY <2>1, <2>2 DEF Kept
<1> QED
  BY <1>2, <1>6, <1>9, <1>10

\* run() takes a completion, and it is gone.
LEMMA Reaping ==
  ASSUME QueueTypes, \A r \in Rings : RingInv(r), NEW x \in Rings, cq[x] # <<>>,
         NEW v, v = Head(cq[x]),
         cq' = [cq EXCEPT ![x] = Tail(@)], UNCHANGED queueVars
  PROVE  /\ QueueTypes' /\ (\A r \in Rings : RingInv(r)')
         /\ \A r \in Rings : \A u \in UserData : Kept(r, u)
         /\ v \in UserData /\ AtRing(x, v)
         /\ Once(v) => ~Somewhere(v)'
<1> DEFINE n == Len(cq[x])
<1>1. /\ slot' = slot /\ pending' = pending /\ unprepared' = unprepared /\ stale' = stale
      /\ inflight' = inflight
  BY DEF queueVars
<1>2. \A r \in Rings : RingInv(r)'
  BY <1>1 DEF RingInv, GoesRound
<1>3. cq[x] \in Seq(UserData) /\ n \in Nat \ {0} /\ DOMAIN cq[x] = 1 .. n
  <2>1. cq[x] \in Seq(UserData)
    BY DEF QueueTypes
  <2> QED
    BY <2>1, SMT
<1>4. /\ v \in UserData /\ v = cq[x][1] /\ Tail(cq[x]) \in Seq(UserData)
      /\ DOMAIN Tail(cq[x]) = 1 .. n - 1
      /\ \A i \in 1 .. n - 1 : Tail(cq[x])[i] = cq[x][i + 1]
  BY <1>3, SMT
<1>5. cq'[x] = Tail(cq[x]) /\ \A r \in Rings : r # x => cq'[r] = cq[r]
  BY DEF QueueTypes
<1>6. QueueTypes'
  <2>1. cq' \in [Rings -> Seq(UserData)]
    BY <1>4 DEF QueueTypes
  <2> QED
    BY <1>1, <2>1 DEF QueueTypes
<1>7. \A r \in Rings : \A u : \A i \in Nat : InSq(r, u, i)' <=> InSq(r, u, i)
  BY <1>1 DEF InSq
<1>8. \A u : \A i \in Nat : InCq(x, u, i)' => InCq(x, u, i + 1) /\ i + 1 # 1 /\ i + 1 \in Nat
  <2> SUFFICES ASSUME NEW u, NEW i \in Nat, InCq(x, u, i)'
               PROVE  InCq(x, u, i + 1) /\ i + 1 # 1 /\ i + 1 \in Nat
    OBVIOUS
  <2>1. i \in 1 .. n - 1 /\ Tail(cq[x])[i] = u
    BY <1>4, <1>5 DEF InCq
  <2>2. i + 1 \in 1 .. n /\ i + 1 # 1 /\ i + 1 \in Nat
    BY <1>3, <2>1, SMT
  <2>3. cq[x][i + 1] = u
    BY <1>4, <2>1
  <2> QED
    BY <1>3, <2>2, <2>3 DEF InCq
<1>9. InCq(x, v, 1)
  BY <1>3, <1>4, SMT DEF InCq
<1> HIDE DEF n
<1>10. ASSUME NEW r \in Rings, r # x, NEW u PROVE Kept(r, u)
  BY <1>1, <1>5, <1>7, <1>10, QueueKept
<1>11. ASSUME NEW u PROVE Kept(x, u)
  <2>1. AtRing(x, u)' => AtRing(x, u)
    BY <1>1, <1>7, <1>8 DEF AtRing
  <2>2. ASSUME OnceAt(x, u) PROVE OnceAt(x, u)'
    <3>1. \A i, j \in Nat : InCq(x, u, i)' /\ InCq(x, u, j)' => i = j
      <4> SUFFICES ASSUME NEW i \in Nat, NEW j \in Nat, InCq(x, u, i)', InCq(x, u, j)'
                   PROVE  i = j
        OBVIOUS
      <4>1. i + 1 = j + 1
        BY <1>8, <2>2 DEF OnceAt
      <4> QED
        BY <4>1, SMT
    <3> QED
      BY <1>1, <1>7, <1>8, <2>2, <3>1 DEF OnceAt
  <2> QED
    BY <2>1, <2>2 DEF Kept
<1>12. ASSUME Once(v) PROVE ~Somewhere(v)'
  <2>1. AtRing(x, v) /\ OnceAt(x, v)
    BY <1>9, <1>12 DEF AtRing, Once
  <2>2. \A i \in Nat : ~InCq(x, v, i)'
    BY <1>8, <1>9, <2>1 DEF OnceAt
  <2>3. ~AtRing(x, v)'
    BY <1>1, <1>7, <1>9, <2>1, <2>2 DEF AtRing, OnceAt
  <2>4. \A r \in Rings : r # x => ~AtRing(r, v)
    BY <1>12, <2>1 DEF Once
  <2> QED
    BY <1>10, <2>3, <2>4 DEF Kept, Somewhere
<1> QED
  BY <1>2, <1>4, <1>6, <1>9, <1>10, <1>11, <1>12 DEF AtRing

-----------------------------------------------------------------------------
(* The invariant.                                                          *)

Holding(s) == {s[i] : i \in DOMAIN s}

OpTypes ==
  /\ ist \in [IoCoros -> {"idle", "ready", "suspended", "runnable", "done"}]
  /\ ion \in [IoCoros -> {NoThread, IoWorker} \union Rings]
  /\ asp \in [IoCoros -> [at : {NoThread, "prep", "submit"},
                          by : {NoThread, IoWorker} \union Rings,
                          ring : {NoThread} \union Rings, slots : Seq(1 .. Slots)]]
  /\ nth \in [IoCoros -> 0 .. MaxIo]
  /\ iwakes \in [Ops -> Nat]

ServiceTypes ==
  /\ ringState \in [Rings -> {"open", "exited", "null"}]
  /\ rpc \in [Rings -> {"test", "wait", "exit"}]
  /\ spc \in [at : {"up", "flag", "nop", "prep", "submit", "join", "exit", "down"},
              ring : {NoThread} \union Rings, slots : Seq(1 .. Slots)]
  /\ spc.at \notin {"up", "down"} => spc.ring \in Rings
  /\ spc.at = "prep" => DOMAIN spc.slots = 1 .. 1
  /\ deadWrites \subseteq UserData \ {Nop}

\* What await_suspend of a coroutine has: slots that nobody else prepares, until it has.
IoPlace(c) ==
  /\ ist[c] = "ready" => ion[c] # NoThread /\ nth[c] < MaxIo /\ asp[c].at = NoThread
  /\ asp[c].at # NoThread =>
       asp[c].ring \in Rings /\ nth[c] # 0 /\ DOMAIN asp[c].slots = 1 .. Needed(c)
  /\ asp[c].at = "prep" /\ ~stale =>
       ist[c] = "suspended" /\ Holding(asp[c].slots) \subseteq unprepared[asp[c].ring]

Apart(s, t) == \A x \in Holding(s) : x \notin Holding(t)

SlotsApart ==
  ~stale =>
    /\ \A c, d \in IoCoros :
         c # d /\ asp[c].at = "prep" /\ asp[d].at = "prep" /\ asp[c].ring = asp[d].ring
           => Apart(asp[c].slots, asp[d].slots)
    /\ spc.at = "prep" =>
         /\ Holding(spc.slots) \subseteq unprepared[spc.ring]
         /\ \A c \in IoCoros : asp[c].at = "prep" /\ asp[c].ring = spc.ring
              => Apart(asp[c].slots, spc.slots)

\* Until the shutdown only the worker uses its ring, for one coroutine after the other.
Active(c) == ion[c] # NoThread \/ asp[c].at # NoThread

OneAtATime ==
  ~Stopping =>
    /\ ~stale /\ \A r \in Rings : ringState[r] = "open"
    /\ \A c \in IoCoros : ion[c] \in {NoThread, IoWorker}
    /\ \A c \in IoCoros : asp[c].at # NoThread =>
         asp[c].by = IoWorker /\ asp[c].ring = WorkerRing /\ ion[c] = NoThread
    /\ \A c, d \in IoCoros : Active(c) /\ Active(d) => c = d
    /\ unprepared[FallbackRing] = {}
    /\ \/ unprepared[WorkerRing] = {}
       \/ \E c \in IoCoros : /\ asp[c].at = "prep"
                             /\ unprepared[WorkerRing] \subseteq Holding(asp[c].slots)
       \/ /\ Len(pending[WorkerRing]) = Slots
          /\ \A c \in IoCoros : asp[c].at = NoThread

\* An operation that is somewhere has its coroutine suspended, and has not woken it.
OpInv(a) ==
  ~stale =>
    /\ Once(SendOf(a))
    /\ iwakes[a] <= 1
    /\ a[2] > nth[a[1]] => iwakes[a] = 0
    /\ Somewhere(SendOf(a)) =>
         /\ iwakes[a] = 0 /\ a[2] = nth[a[1]] /\ ist[a[1]] = "suspended"
         /\ asp[a[1]].at # "prep"
    /\ a[2] = nth[a[1]] /\ ist[a[1]] = "suspended" => iwakes[a] = 0

WriteInv == stale \/ \A u \in deadWrites : u.part = "timeout_comp"

IoInv ==
  /\ QueueTypes /\ OpTypes /\ ServiceTypes /\ SlotsApart /\ OneAtATime /\ WriteInv
  /\ \A r \in Rings : RingInv(r)
  /\ \A c \in IoCoros : IoPlace(c)
  /\ \A a \in Ops : OpInv(a)

\* Names of user data, and what an operation is.
LEMMA OpFacts ==
  /\ \A a \in Ops : /\ SendOf(a) \in UserData /\ TimeoutOf(a) \in UserData
                    /\ a[1] \in IoCoros /\ a[2] \in 1 .. MaxIo /\ a = <<a[1], a[2]>>
                    /\ SendOf(a) # Nop /\ TimeoutOf(a) # Nop
  /\ \A a, b \in Ops : (SendOf(a) = SendOf(b) => a = b) /\ SendOf(a) # TimeoutOf(b)
  /\ \A u \in UserData : u # Nop => /\ u.await \in Ops
                                    /\ u.part \in {"send_comp", "timeout_comp"}
                                    /\ u.part = "send_comp" => u = SendOf(u.await)
<1>1. \A a \in Ops : a[1] \in IoCoros /\ a[2] \in 1 .. MaxIo /\ a = <<a[1], a[2]>>
  BY DEF Ops
<1>2. \A a \in Ops : SendOf(a) \in UserData \ {Nop} /\ TimeoutOf(a) \in UserData \ {Nop}
  BY NopAssumption DEF SendOf, TimeoutOf, UserData
<1>3. \A a, b \in Ops : (SendOf(a) = SendOf(b) => a = b) /\ SendOf(a) # TimeoutOf(b)
  <2> SUFFICES ASSUME NEW a \in Ops, NEW b \in Ops
               PROVE  (SendOf(a) = SendOf(b) => a = b) /\ SendOf(a) # TimeoutOf(b)
    OBVIOUS
  <2>1. SendOf(a).await = a /\ SendOf(b).await = b
    BY DEF SendOf
  <2>2. SendOf(a).part = "send_comp" /\ TimeoutOf(b).part = "timeout_comp"
    BY DEF SendOf, TimeoutOf
  <2> QED
    BY <2>1, <2>2
<1>4. \A u \in UserData : u # Nop => /\ u.await \in Ops
                                     /\ u.part \in {"send_comp", "timeout_comp"}
                                     /\ u.part = "send_comp" => u = SendOf(u.await)
  BY DEF UserData, SendOf
<1> QED
  BY <1>1, <1>2, <1>3, <1>4

\* Nothing is anywhere at first.
LEMMA InitInv == IoInit => IoInv
<1> SUFFICES ASSUME IoInit PROVE IoInv
  OBVIOUS
<1>1. QueueTypes
  <2>1. <<>> \in Seq(1 .. Slots) /\ <<>> \in Seq(UserData) /\ Nop \in UserData
    BY DEF UserData
  <2> QED
    BY <2>1 DEF IoInit, QueueTypes
<1>2. OpTypes
  <2>1. <<>> \in Seq(1 .. Slots) /\ 0 \in 0 .. MaxIo
    BY SlotsAssumption, SMT
  <2>2. NotIo \in [at : {NoThread, "prep", "submit"}, by : {NoThread, IoWorker} \union Rings,
                   ring : {NoThread} \union Rings, slots : Seq(1 .. Slots)]
    BY <2>1 DEF NotIo
  <2> QED
    BY <2>1, <2>2 DEF IoInit, OpTypes
<1>3. ServiceTypes
  <2>1. <<>> \in Seq(1 .. Slots)
    OBVIOUS
  <2>2. spc = [at |-> "up", ring |-> NoThread, slots |-> <<>>]
    BY DEF IoInit, Off
  <2> QED
    BY <2>1, <2>2 DEF IoInit, ServiceTypes
<1>4. ~stale /\ spc.at = "up" /\ (\A c \in IoCoros : asp[c].at = NoThread /\ ion[c] = NoThread)
  BY DEF IoInit, Off, NotIo
<1>5. SlotsApart
  BY <1>4, IoNamesAssumption DEF SlotsApart
<1>6. OneAtATime
  BY <1>4 DEF OneAtATime, IoInit, Active, Rings
<1>7. WriteInv
  BY DEF WriteInv, IoInit
<1>8. ASSUME NEW r \in Rings PROVE RingInv(r)
  <2>1. pending[r] = <<>> /\ unprepared[r] = {}
    BY DEF IoInit
  <2>2. Len(pending[r]) <= Slots
    BY <2>1, SlotsAssumption, SMT
  <2>3. GoesRound(pending[r], 0)
    BY <2>1 DEF GoesRound
  <2> QED
    BY <2>1, <2>2, <2>3 DEF RingInv
<1>9. ASSUME NEW c \in IoCoros PROVE IoPlace(c)
  BY <1>4, IoNamesAssumption DEF IoPlace, IoInit
<1>10. ASSUME NEW a \in Ops PROVE OpInv(a)
  <2> DEFINE u == SendOf(a)
  <2>1. u \in UserData
    BY OpFacts
  <2> HIDE DEF u
  <2>2. \A r \in Rings : inflight[r][u] = 0 /\ \A i \in Nat : ~InSq(r, u, i) /\ ~InCq(r, u, i)
    BY <2>1 DEF IoInit, InSq, InCq
  <2>3. Once(u) /\ ~Somewhere(u)
    BY <2>2 DEF Once, OnceAt, Somewhere, AtRing
  <2>4. iwakes[a] = 0
    BY DEF IoInit
  <2> QED
    BY <2>3, <2>4 DEF OpInv, u
<1> QED
  BY <1>1, <1>2, <1>3, <1>5, <1>6, <1>7, <1>8, <1>9, <1>10 DEF IoInv

-----------------------------------------------------------------------------
(* Steps.                                                                  *)

QueueKeeps == \A r \in Rings : \A u \in UserData \ {Nop} : Kept(r, u)

\* An operation of a coroutine that does not move, while nothing is put anywhere.
LEMMA OpKeptAt ==
  ASSUME NEW a \in Ops, OpInv(a), stale => stale',
         ~stale' => \A r \in Rings : Kept(r, SendOf(a)),
         iwakes'[a] = iwakes[a], nth'[a[1]] = nth[a[1]], ist'[a[1]] = ist[a[1]],
         asp'[a[1]].at = "prep" => asp[a[1]].at = "prep"
  PROVE  OpInv(a)'
<1> SUFFICES ASSUME ~stale' PROVE OpInv(a)'
  BY DEF OpInv
<1> DEFINE u == SendOf(a)
<1> HIDE DEF u
<1>1. \A r \in Rings : Kept(r, u)
  BY DEF u
<1>2. (Somewhere(u)' => Somewhere(u)) /\ (Once(u) => Once(u)')
  BY <1>1, OnceKept
<1> QED
  BY <1>2 DEF OpInv, u

\* The same when no operation is put anywhere.
LEMMA OpKept ==
  ASSUME NEW a \in Ops, OpInv(a), stale => stale', ~stale' => QueueKeeps,
         iwakes'[a] = iwakes[a], nth'[a[1]] = nth[a[1]], ist'[a[1]] = ist[a[1]],
         asp'[a[1]].at = "prep" => asp[a[1]].at = "prep"
  PROVE  OpInv(a)'
<1>1. ~stale' => \A r \in Rings : Kept(r, SendOf(a))
  BY OpFacts DEF QueueKeeps
<1> QED
  BY <1>1, OpKeptAt

\* What changes none of the variables of the queues, nor a completion queue, moves nothing.
LEMMA NothingMoves ==
  ASSUME IoInv, UNCHANGED queueVars, cq' = cq
  PROVE  /\ QueueTypes' /\ (\A r \in Rings : RingInv(r)') /\ QueueKeeps
         /\ stale' = stale /\ unprepared' = unprepared /\ pending' = pending
<1>1. /\ slot' = slot /\ pending' = pending /\ unprepared' = unprepared
      /\ inflight' = inflight /\ stale' = stale
  BY DEF queueVars
<1>2. QueueTypes'
  BY <1>1 DEF IoInv, QueueTypes
<1>3. \A r \in Rings : RingInv(r)'
  BY <1>1 DEF IoInv, RingInv, GoesRound
<1>4. \A r \in Rings : \A u \in UserData : Kept(r, u)
  BY <1>1, QueueKept DEF InSq
<1> QED
  BY <1>1, <1>2, <1>3, <1>4 DEF QueueKeeps

\* Steps of the kernel, of run() and of shutdown() in which no coroutine moves.
LEMMA OthersMove ==
  ASSUME IoInv, UNCHANGED opVars, QueueTypes', \A r \in Rings : RingInv(r)', ServiceTypes',
         stale => stale', ~stale' => QueueKeeps,
         ~stale' => \A c \in IoCoros : asp[c].at = "prep" =>
           Holding(asp[c].slots) \subseteq unprepared'[asp[c].ring],
         SlotsApart', OneAtATime', WriteInv'
  PROVE  IoInv'
<1>1. ist' = ist /\ ion' = ion /\ asp' = asp /\ nth' = nth /\ iwakes' = iwakes
  BY DEF opVars
<1>2. OpTypes'
  BY <1>1 DEF IoInv, OpTypes
<1>3. ASSUME NEW c \in IoCoros PROVE IoPlace(c)'
  <2>1. IoPlace(c)
    BY DEF IoInv
  <2> QED
    BY <1>1, <2>1 DEF IoPlace
<1>4. \A a \in Ops : OpInv(a)'
  BY <1>1, OpKept DEF IoInv
<1> QED
  BY <1>2, <1>3, <1>4 DEF IoInv

\* Steps in which one coroutine goes on, and the queues stay as they are.
LEMMA CoroutineMoves ==
  ASSUME IoInv, UNCHANGED <<queueVars, serviceVars>>, asp' = asp, nth' = nth, iwakes' = iwakes,
         NEW c \in IoCoros, ist[c] \in {"idle", "runnable"},
         ist'[c] \in {"ready", "runnable", "done"},
         OpTypes', \A d \in IoCoros : d # c => ist'[d] = ist[d] /\ ion'[d] = ion[d],
         ist'[c] = "ready" => ion'[c] # NoThread /\ nth[c] < MaxIo /\ asp[c].at = NoThread,
         OneAtATime'
  PROVE  IoInv'
<1>1. /\ cq' = cq /\ ringState' = ringState /\ rpc' = rpc /\ spc' = spc
      /\ deadWrites' = deadWrites /\ UNCHANGED queueVars
  BY DEF serviceVars
<1>2. /\ QueueTypes' /\ (\A r \in Rings : RingInv(r)') /\ QueueKeeps
      /\ stale' = stale /\ unprepared' = unprepared /\ pending' = pending
  BY <1>1, NothingMoves
<1>3. ServiceTypes' /\ WriteInv' /\ SlotsApart'
  BY <1>1, <1>2 DEF IoInv, ServiceTypes, WriteInv, SlotsApart
<1>4. ASSUME NEW d \in IoCoros PROVE IoPlace(d)'
  <2>1. IoPlace(d)
    BY DEF IoInv
  <2>2. CASE d # c
    BY <1>2, <2>1, <2>2 DEF IoPlace
  <2>3. CASE d = c
    <3>1. asp[c].at = "prep" => stale
      BY <2>1, <2>3 DEF IoPlace
    <3> QED
      BY <1>2, <2>1, <2>3, <3>1 DEF IoPlace
  <2> QED
    BY <2>2, <2>3
<1>5. ASSUME NEW a \in Ops PROVE OpInv(a)'
  <2>1. OpInv(a) /\ a[1] \in IoCoros
    BY OpFacts DEF IoInv
  <2>2. CASE a[1] # c
    BY <1>2, <2>1, <2>2, OpKept
  <2>3. CASE a[1] = c
    <3> SUFFICES ASSUME ~stale PROVE OpInv(a)'
      BY <1>2 DEF OpInv
    <3> DEFINE u == SendOf(a)
    <3>1. ~Somewhere(u) /\ Once(u)
      BY <2>1, <2>3 DEF OpInv
    <3>2. u \in UserData \ {Nop}
      BY OpFacts
    <3> HIDE DEF u
    <3>3. ~Somewhere(u)' /\ Once(u)'
      BY <1>2, <3>1, <3>2, OnceKept DEF QueueKeeps
    <3> QED
      BY <2>1, <2>3, <3>3 DEF OpInv, u
  <2> QED
    BY <2>2, <2>3
<1> QED
  BY <1>2, <1>3, <1>4, <1>5 DEF IoInv

\* A coroutine is started.
LEMMA StartStep ==
  ASSUME IoInv, NEW c \in IoCoros, StartIo(c)
  PROVE  IoInv'
<1>1. /\ ist[c] = "idle" /\ ist' = [ist EXCEPT ![c] = "runnable"]
      /\ ion' = ion /\ asp' = asp /\ nth' = nth /\ iwakes' = iwakes
      /\ UNCHANGED <<queueVars, serviceVars>>
  BY DEF StartIo
<1>2. ist'[c] = "runnable" /\ \A d \in IoCoros : d # c => ist'[d] = ist[d]
  BY <1>1 DEF IoInv, OpTypes
<1>3. OpTypes'
  BY <1>1 DEF IoInv, OpTypes
<1>4. OneAtATime'
  BY <1>1 DEF IoInv, OneAtATime, queueVars, serviceVars, Stopping, Active
<1> QED
  BY <1>1, <1>2, <1>3, <1>4, CoroutineMoves

\* A coroutine goes on to its next operation or to its end.
LEMMA ResumeStep ==
  ASSUME IoInv, NEW c \in IoCoros, ResumeIo(c)
  PROVE  IoInv'
<1>1. /\ ist[c] = "runnable"
      /\ ion[c] = NoThread => ~IoBusy(IoWorker)
      /\ asp' = asp /\ nth' = nth /\ iwakes' = iwakes
      /\ UNCHANGED <<queueVars, serviceVars>>
  BY DEF ResumeIo
<1>2. /\ stale' = stale /\ ringState' = ringState /\ unprepared' = unprepared
      /\ pending' = pending /\ spc' = spc
  BY <1>1 DEF queueVars, serviceVars
<1>3. ion[c] \in {NoThread, IoWorker} \union Rings
  BY DEF IoInv, OpTypes
<1>4. CASE /\ nth[c] < MaxIo /\ asp[c] = NotIo
           /\ ist' = [ist EXCEPT ![c] = "ready"]
           /\ ion' = [ion EXCEPT ![c] = IF @ = NoThread THEN IoWorker ELSE @]
  <2>1. /\ ist'[c] = "ready" /\ ion'[c] = IF ion[c] = NoThread THEN IoWorker ELSE ion[c]
        /\ \A d \in IoCoros : d # c => ist'[d] = ist[d] /\ ion'[d] = ion[d]
    BY <1>4 DEF IoInv, OpTypes
  <2>2. ion'[c] # NoThread /\ asp[c].at = NoThread
    BY <1>4, <2>1, IoNamesAssumption DEF NotIo
  <2>3. OpTypes'
    BY <1>1, <1>3, <1>4 DEF IoInv, OpTypes
  <2>4. ASSUME ~Stopping PROVE OneAtATime'
    <3>1. /\ \A d \in IoCoros : ion[d] \in {NoThread, IoWorker}
          /\ \A d \in IoCoros : asp[d].at # NoThread =>
               asp[d].by = IoWorker /\ asp[d].ring = WorkerRing /\ ion[d] = NoThread
          /\ \A d, e \in IoCoros : Active(d) /\ Active(e) => d = e
      BY <2>4 DEF IoInv, OneAtATime
    <3>2. \A d \in IoCoros : d # c => ~Active(d)
      <4>1. CASE ion[c] = NoThread
        BY <1>1, <3>1, <4>1 DEF IoBusy, Active
      <4>2. CASE ion[c] # NoThread
        BY <3>1, <4>2 DEF Active
      <4> QED
        BY <4>1, <4>2
    <3>3. \A d \in IoCoros : Active(d)' => d = c
      BY <1>1, <2>1, <3>2 DEF Active
    <3>4. \A d \in IoCoros : ion'[d] \in {NoThread, IoWorker}
      BY <2>1, <3>1
    <3>5. \A d \in IoCoros : asp'[d].at # NoThread =>
               asp'[d].by = IoWorker /\ asp'[d].ring = WorkerRing /\ ion'[d] = NoThread
      BY <1>1, <2>1, <2>2, <3>1
    <3> QED
      BY <1>1, <1>2, <2>4, <3>3, <3>4, <3>5 DEF IoInv, OneAtATime
  <2>5. OneAtATime'
    BY <1>2, <2>4 DEF OneAtATime, Stopping
  <2> QED
    BY <1>1, <1>4, <2>1, <2>2, <2>3, <2>5, CoroutineMoves
<1>5. CASE ist' = [ist EXCEPT ![c] = "done"] /\ ion' = [ion EXCEPT ![c] = NoThread]
  <2>1. /\ ist'[c] = "done" /\ ion'[c] = NoThread
        /\ \A d \in IoCoros : d # c => ist'[d] = ist[d] /\ ion'[d] = ion[d]
    BY <1>5 DEF IoInv, OpTypes
  <2>2. OpTypes'
    BY <1>1, <1>5 DEF IoInv, OpTypes
  <2>3. \A d \in IoCoros : Active(d)' => Active(d)
    BY <1>1, <2>1 DEF Active
  <2>4. OneAtATime'
    BY <1>1, <1>2, <2>1, <2>3 DEF IoInv, OneAtATime, Stopping
  <2> QED
    BY <1>1, <2>1, <2>2, <2>4, CoroutineMoves
<1> QED
  BY <1>4, <1>5 DEF ResumeIo

\* What an operation is prepared with: one user data for each slot, its send first.
LEMMA DataFacts ==
  ASSUME NEW c \in IoCoros, NEW m \in 1 .. MaxIo, nth[c] = m
  PROVE  /\ DOMAIN Data(c) = 1 .. Needed(c) /\ 1 \in DOMAIN Data(c)
         /\ Data(c)[1] = SendOf(<<c, m>>) /\ <<c, m>> \in Ops
         /\ \A k \in DOMAIN Data(c) : /\ Data(c)[k] \in UserData
                                      /\ Data(c)[k] = Data(c)[1] => k = 1
         /\ \A a \in Ops : \A k \in DOMAIN Data(c) : Data(c)[k] = SendOf(a) => a = <<c, m>>
<1>1. <<c, m>> \in Ops
  BY DEF Ops
<1>2. CASE c \in WithTimeout
  <2>1. Data(c) = <<SendOf(<<c, m>>), TimeoutOf(<<c, m>>)>> /\ Needed(c) = 2
    BY <1>2 DEF Data, Needed
  <2>2. /\ DOMAIN Data(c) = {1, 2} /\ 1 .. Needed(c) = {1, 2}
        /\ Data(c)[1] = SendOf(<<c, m>>) /\ Data(c)[2] = TimeoutOf(<<c, m>>)
    BY <2>1
  <2> QED
    BY <1>1, <2>2, OpFacts
<1>3. CASE c \notin WithTimeout
  <2>1. Data(c) = <<SendOf(<<c, m>>)>> /\ Needed(c) = 1
    BY <1>3 DEF Data, Needed
  <2>2. DOMAIN Data(c) = {1} /\ 1 .. Needed(c) = {1} /\ Data(c)[1] = SendOf(<<c, m>>)
    BY <2>1
  <2> QED
    BY <1>1, <2>2, OpFacts
<1> QED
  BY <1>2, <1>3

\* await_suspend prepares its slots: its operation is in the queue, once.
LEMMA PrepareStep ==
  ASSUME IoInv, NEW c \in IoCoros, PrepareSqe(c)
  PROVE  IoInv'
<1>1. /\ asp[c].at = "prep" /\ Prepare(asp[c].ring, asp[c].slots, Data(c))
      /\ asp' = [asp EXCEPT ![c].at = "submit"]
      /\ ist' = ist /\ ion' = ion /\ nth' = nth /\ iwakes' = iwakes /\ UNCHANGED serviceVars
  BY DEF PrepareSqe
<1>2. /\ ringState' = ringState /\ cq' = cq /\ rpc' = rpc /\ spc' = spc
      /\ deadWrites' = deadWrites
  BY <1>1 DEF serviceVars
<1>3. IoPlace(c) /\ OpTypes /\ QueueTypes /\ SlotsApart /\ OneAtATime
  BY DEF IoInv
<1>4. /\ asp[c].ring \in Rings /\ nth[c] # 0 /\ DOMAIN asp[c].slots = 1 .. Needed(c)
      /\ ~stale => /\ ist[c] = "suspended"
                   /\ Holding(asp[c].slots) \subseteq unprepared[asp[c].ring]
  BY <1>1, <1>3, IoNamesAssumption DEF IoPlace
<1>5. PICK x \in Rings : x = asp[c].ring
  BY <1>4
<1>6. PICK taken \in Seq(1 .. Slots) : taken = asp[c].slots
  BY <1>3 DEF OpTypes
<1>7. PICK m \in 1 .. MaxIo : m = nth[c]
  <2>1. nth[c] \in 0 .. MaxIo
    BY <1>3 DEF OpTypes
  <2> QED
    BY <1>4, <2>1, SlotsAssumption, SMT
<1>8. PICK us : us = Data(c)
  OBVIOUS
<1>9. /\ DOMAIN us = 1 .. Needed(c) /\ 1 \in DOMAIN us
      /\ us[1] = SendOf(<<c, m>>) /\ <<c, m>> \in Ops
      /\ \A k \in DOMAIN us : us[k] \in UserData /\ (us[k] = us[1] => k = 1)
      /\ \A a \in Ops : \A k \in DOMAIN us : us[k] = SendOf(a) => a = <<c, m>>
  BY <1>7, <1>8, DataFacts
<1>10. Prepare(x, taken, us) /\ DOMAIN us = DOMAIN taken
  BY <1>1, <1>4, <1>5, <1>6, <1>8, <1>9
<1>11. /\ QueueTypes' /\ (\A r \in Rings : RingInv(r)') /\ pending' = pending
       /\ \A u : (\A k \in DOMAIN us : us[k] # u) => \A r \in Rings : Kept(r, u)
       /\ ~Somewhere(us[1]) => Once(us[1])'
  <2>1. /\ \A r \in Rings : RingInv(r)
        /\ \A k \in DOMAIN us : us[k] \in UserData
        /\ \A j \in DOMAIN us : us[j] = us[1] => j = 1
    BY <1>9 DEF IoInv
  <2>2. /\ QueueTypes' /\ (\A r \in Rings : RingInv(r)') /\ pending' = pending
        /\ \A u : (\A k \in DOMAIN us : us[k] # u) => \A r \in Rings : Kept(r, u)
        /\ \A k \in DOMAIN us : (\A j \in DOMAIN us : us[j] = us[k] => j = k) =>
             (~Somewhere(us[k]) => Once(us[k])')
    BY <1>2, <1>3, <1>10, <2>1, Preparing
  <2> QED
    BY <1>9, <2>1, <2>2
<1>12. /\ unprepared' = [unprepared EXCEPT ![x] = @ \ Holding(taken)] /\ stale' = stale
  BY <1>10 DEF Prepare, Holding
<1>13. /\ unprepared'[x] = unprepared[x] \ Holding(taken)
       /\ \A r \in Rings : r # x => unprepared'[r] = unprepared[r]
  BY <1>3, <1>12 DEF QueueTypes
<1>14. /\ asp'[c].at = "submit" /\ asp'[c].by = asp[c].by /\ asp'[c].ring = asp[c].ring
       /\ asp'[c].slots = asp[c].slots
       /\ \A d \in IoCoros : d # c => asp'[d] = asp[d]
  BY <1>1, <1>3 DEF OpTypes
<1>15. OpTypes'
  <2> DEFINE A == [at : {NoThread, "prep", "submit"}, by : {NoThread, IoWorker} \union Rings,
                   ring : {NoThread} \union Rings, slots : Seq(1 .. Slots)]
  <2>1. asp \in [IoCoros -> A]
    BY <1>3 DEF OpTypes
  <2>2. [asp[c] EXCEPT !.at = "submit"] \in A
    BY <2>1
  <2>3. asp' = [asp EXCEPT ![c] = [asp[c] EXCEPT !.at = "submit"]]
    BY <1>1
  <2> HIDE DEF A
  <2>4. asp' \in [IoCoros -> A]
    BY <2>1, <2>2, <2>3
  <2> QED
    BY <1>1, <1>3, <2>4 DEF OpTypes, A
<1>16. ServiceTypes' /\ WriteInv'
  BY <1>2, <1>12 DEF IoInv, ServiceTypes, WriteInv
<1>17. ASSUME ~stale, NEW d \in IoCoros, d # c, asp[d].at = "prep", asp[d].ring = x,
              NEW y \in Holding(asp[d].slots)
       PROVE  y \notin Holding(taken)
  BY <1>1, <1>3, <1>5, <1>6, <1>17 DEF SlotsApart, Apart
<1>18. ASSUME NEW d \in IoCoros PROVE IoPlace(d)'
  <2>1. IoPlace(d)
    BY DEF IoInv
  <2>2. CASE d = c
    BY <1>1, <1>3, <1>4, <1>14, <2>2, IoNamesAssumption DEF IoPlace
  <2>3. CASE d # c
    <3>1. ASSUME asp[d].at = "prep", ~stale
          PROVE  Holding(asp[d].slots) \subseteq unprepared'[asp[d].ring]
      <4>1. Holding(asp[d].slots) \subseteq unprepared[asp[d].ring] /\ asp[d].ring \in Rings
        BY <2>1, <3>1, IoNamesAssumption DEF IoPlace
      <4> QED
        BY <1>13, <1>17, <2>3, <3>1, <4>1
    <3> QED
      BY <1>1, <1>12, <1>14, <2>1, <2>3, <3>1 DEF IoPlace
  <2> QED
    BY <2>2, <2>3
<1>19. SlotsApart'
  <2> SUFFICES ASSUME ~stale PROVE SlotsApart'
    BY <1>12 DEF SlotsApart
  <2>1. \A d, e \in IoCoros :
          d # e /\ asp'[d].at = "prep" /\ asp'[e].at = "prep" /\ asp'[d].ring = asp'[e].ring
            => Apart(asp'[d].slots, asp'[e].slots)
    BY <1>3, <1>14 DEF SlotsApart
  <2>2. ASSUME spc.at = "prep"
        PROVE  /\ Holding(spc.slots) \subseteq unprepared'[spc.ring]
               /\ \A d \in IoCoros : asp'[d].at = "prep" /\ asp'[d].ring = spc.ring
                    => Apart(asp'[d].slots, spc.slots)
    <3>1. spc.ring \in Rings
      BY <2>2 DEF IoInv, ServiceTypes
    <3>2. /\ Holding(spc.slots) \subseteq unprepared[spc.ring]
          /\ \A d \in IoCoros : asp[d].at = "prep" /\ asp[d].ring = spc.ring
                    => Apart(asp[d].slots, spc.slots)
      BY <1>3, <2>2 DEF SlotsApart
    <3>3. spc.ring = x => \A y \in Holding(spc.slots) : y \notin Holding(taken)
      BY <1>1, <1>5, <1>6, <3>2 DEF Apart
    <3> QED
      BY <1>13, <1>14, <3>1, <3>2, <3>3
  <2> QED
    BY <1>2, <2>1, <2>2 DEF SlotsApart, Apart, Holding
<1>20. ASSUME ~Stopping PROVE OneAtATime'
  <2>1. /\ ~stale /\ \A r \in Rings : ringState[r] = "open"
        /\ \A d \in IoCoros : ion[d] \in {NoThread, IoWorker}
        /\ \A d \in IoCoros : asp[d].at # NoThread =>
             asp[d].by = IoWorker /\ asp[d].ring = WorkerRing /\ ion[d] = NoThread
        /\ \A d, e \in IoCoros : Active(d) /\ Active(e) => d = e
        /\ unprepared[FallbackRing] = {}
    BY <1>3, <1>20 DEF OneAtATime
  <2>2. Active(c) /\ x = WorkerRing /\ asp[c].at # NoThread
    BY <1>1, <1>5, <2>1, IoNamesAssumption DEF Active
  <2>3. \A d \in IoCoros : Active(d)' => Active(d)
    BY <1>1, <1>14, <2>2 DEF Active
  <2>4. \A d \in IoCoros : asp'[d].at # NoThread =>
             asp'[d].by = IoWorker /\ asp'[d].ring = WorkerRing /\ ion'[d] = NoThread
    BY <1>1, <1>14, <2>1, <2>2
  <2>5. unprepared'[FallbackRing] = {}
    BY <1>13, <2>1, <2>2, IoNamesAssumption DEF Rings
  <2>6. unprepared'[WorkerRing] = {}
    <3>1. CASE unprepared[WorkerRing] = {}
      BY <1>13, <2>2, <3>1
    <3>2. CASE \E d \in IoCoros : /\ asp[d].at = "prep"
                                  /\ unprepared[WorkerRing] \subseteq Holding(asp[d].slots)
      <4>1. unprepared[WorkerRing] \subseteq Holding(asp[c].slots)
        BY <2>1, <2>2, <3>2, IoNamesAssumption DEF Active
      <4> QED
        BY <1>6, <1>13, <2>2, <4>1
    <3> QED
      BY <1>3, <1>20, <2>2, <3>1, <3>2 DEF OneAtATime
  <2> QED
    BY <1>1, <1>2, <1>12, <2>1, <2>3, <2>4, <2>5, <2>6 DEF OneAtATime
<1>21. OneAtATime'
  BY <1>2, <1>20 DEF OneAtATime, Stopping
<1>22. ASSUME NEW a \in Ops PROVE OpInv(a)'
  <2>1. OpInv(a) /\ a[1] \in IoCoros
    BY OpFacts DEF IoInv
  <2>2. CASE a # <<c, m>>
    <3>1. \A r \in Rings : Kept(r, SendOf(a))
      BY <1>9, <1>11, <2>2
    <3>2. asp'[a[1]].at = "prep" => asp[a[1]].at = "prep"
      BY <1>1, <1>14, <2>1
    <3> QED
      BY <1>1, <1>12, <2>1, <3>1, <3>2, OpKeptAt
  <2>3. CASE a = <<c, m>>
    <3> SUFFICES ASSUME ~stale PROVE OpInv(a)'
      BY <1>12 DEF OpInv
    <3> DEFINE u == SendOf(a)
    <3> HIDE DEF u
    <3>1. u = us[1] /\ a[1] = c /\ a[2] = nth[c]
      BY <1>7, <1>9, <2>3 DEF u
    <3>2. ~Somewhere(u) /\ iwakes[a] = 0 /\ ist[c] = "suspended"
      BY <1>1, <1>4, <2>1, <3>1 DEF OpInv, u
    <3>3. Once(u)'
      BY <1>11, <3>1, <3>2
    <3>4. nth'[c] = nth[c] /\ nth[c] \in Int
      BY <1>1, <1>7
    <3> QED
      BY <1>1, <1>14, <3>1, <3>2, <3>3, <3>4 DEF OpInv, u
  <2> QED
    BY <2>2, <2>3
<1> QED
  BY <1>11, <1>15, <1>16, <1>18, <1>19, <1>21, <1>22 DEF IoInv

\* submit() of await_suspend: the operation is the kernel's, or waits for the next submit().
LEMMA SubmitStep ==
  ASSUME IoInv, NEW c \in IoCoros, SubmitSqe(c)
  PROVE  IoInv'
<1>1. /\ asp[c].at = "submit" /\ asp' = [asp EXCEPT ![c] = NotIo]
      /\ ist' = ist /\ ion' = ion /\ nth' = nth /\ iwakes' = iwakes /\ UNCHANGED serviceVars
  BY DEF SubmitSqe
<1>2. /\ ringState' = ringState /\ cq' = cq /\ rpc' = rpc /\ spc' = spc
      /\ deadWrites' = deadWrites
  BY <1>1 DEF serviceVars
<1>3. IoPlace(c) /\ OpTypes /\ QueueTypes /\ SlotsApart /\ OneAtATime
  BY DEF IoInv
<1>4. PICK x \in Rings : x = asp[c].ring
  BY <1>1, <1>3, IoNamesAssumption DEF IoPlace
<1>5. /\ QueueTypes' /\ (\A r \in Rings : RingInv(r)')
      /\ stale => stale'
      /\ stale' => stale \/ unprepared[x] # {}
      /\ ~stale' => unprepared' = unprepared
      /\ ~stale' => QueueKeeps
  <2>1. CASE ringState[x] = "open"
    <3>1. Submit(x)
      BY <1>4, <2>1 DEF SubmitSqe
    <3>2. \A r \in Rings : RingInv(r)
      BY DEF IoInv
    <3> QED
      BY <1>2, <1>3, <3>1, <3>2, Submitting DEF QueueKeeps
  <2>2. CASE ringState[x] # "open"
    <3>1. UNCHANGED queueVars
      BY <1>4, <2>2 DEF SubmitSqe
    <3> QED
      BY <1>2, <3>1, NothingMoves
  <2> QED
    BY <2>1, <2>2
<1>6. /\ asp'[c] = NotIo /\ asp'[c].at = NoThread
      /\ \A d \in IoCoros : d # c => asp'[d] = asp[d]
  BY <1>1, <1>3 DEF OpTypes, NotIo
<1>7. OpTypes'
  <2> DEFINE A == [at : {NoThread, "prep", "submit"}, by : {NoThread, IoWorker} \union Rings,
                   ring : {NoThread} \union Rings, slots : Seq(1 .. Slots)]
  <2>1. asp \in [IoCoros -> A]
    BY <1>3 DEF OpTypes
  <2>2. NotIo \in A
    <3>1. <<>> \in Seq(1 .. Slots)
      OBVIOUS
    <3> QED
      BY <3>1 DEF NotIo
  <2> HIDE DEF A
  <2>3. asp' \in [IoCoros -> A]
    BY <1>1, <2>1, <2>2
  <2> QED
    BY <1>1, <1>3, <2>3 DEF OpTypes, A
<1>8. ServiceTypes' /\ WriteInv'
  BY <1>2, <1>5 DEF IoInv, ServiceTypes, WriteInv
<1>9. ASSUME NEW d \in IoCoros PROVE IoPlace(d)'
  <2>1. IoPlace(d)
    BY DEF IoInv
  <2>2. CASE d = c
    BY <1>1, <1>6, <2>1, <2>2, IoNamesAssumption DEF IoPlace
  <2>3. CASE d # c
    BY <1>1, <1>5, <1>6, <2>1, <2>3 DEF IoPlace
  <2> QED
    BY <2>2, <2>3
<1>10. SlotsApart'
  <2> SUFFICES ASSUME ~stale' PROVE SlotsApart'
    BY DEF SlotsApart
  <2>1. ~stale /\ unprepared' = unprepared
    BY <1>5
  <2>2. \A d \in IoCoros : asp'[d].at = "prep" => asp'[d] = asp[d]
    BY <1>6, IoNamesAssumption
  <2>3. \A d, e \in IoCoros :
          d # e /\ asp'[d].at = "prep" /\ asp'[e].at = "prep" /\ asp'[d].ring = asp'[e].ring
            => Apart(asp'[d].slots, asp'[e].slots)
    BY <1>3, <2>1, <2>2 DEF SlotsApart
  <2>4. ASSUME spc.at = "prep"
        PROVE  /\ Holding(spc.slots) \subseteq unprepared[spc.ring]
               /\ \A d \in IoCoros : asp'[d].at = "prep" /\ asp'[d].ring = spc.ring
                    => Apart(asp'[d].slots, spc.slots)
    BY <1>3, <2>1, <2>2, <2>4 DEF SlotsApart
  <2> QED
    BY <1>2, <2>1, <2>3, <2>4 DEF SlotsApart, Apart, Holding
<1>11. ASSUME ~Stopping PROVE OneAtATime'
  <2>1. /\ ~stale /\ \A r \in Rings : ringState[r] = "open"
        /\ \A d \in IoCoros : ion[d] \in {NoThread, IoWorker}
        /\ \A d \in IoCoros : asp[d].at # NoThread =>
             asp[d].by = IoWorker /\ asp[d].ring = WorkerRing /\ ion[d] = NoThread
        /\ \A d, e \in IoCoros : Active(d) /\ Active(e) => d = e
        /\ unprepared[FallbackRing] = {}
    BY <1>3, <1>11 DEF OneAtATime
  <2>2. Active(c) /\ x = WorkerRing /\ asp[c].at # NoThread
    BY <1>1, <1>4, <2>1, IoNamesAssumption DEF Active
  <2>3. unprepared[WorkerRing] = {}
    <3>1. ~\E d \in IoCoros : asp[d].at = "prep"
      BY <1>1, <2>1, <2>2, IoNamesAssumption DEF Active
    <3> QED
      BY <1>3, <1>11, <2>2, <3>1 DEF OneAtATime
  <2>4. ~stale' /\ unprepared' = unprepared
    BY <1>5, <2>1, <2>2, <2>3
  <2>5. \A d \in IoCoros : Active(d)' => Active(d)
    BY <1>1, <1>6, <2>2 DEF Active
  <2>6. \A d \in IoCoros : asp'[d].at # NoThread =>
             asp'[d].by = IoWorker /\ asp'[d].ring = WorkerRing /\ ion'[d] = NoThread
    BY <1>1, <1>6, <2>1
  <2> QED
    BY <1>1, <1>2, <2>1, <2>3, <2>4, <2>5, <2>6 DEF OneAtATime
<1>12. OneAtATime'
  BY <1>2, <1>11 DEF OneAtATime, Stopping
<1>13. ASSUME NEW a \in Ops PROVE OpInv(a)'
  <2>1. OpInv(a) /\ a[1] \in IoCoros
    BY OpFacts DEF IoInv
  <2>2. asp'[a[1]].at = "prep" => asp[a[1]].at = "prep"
    BY <1>6, <2>1, IoNamesAssumption
  <2> QED
    BY <1>1, <1>5, <2>1, <2>2, OpKept
<1> QED
  BY <1>5, <1>7, <1>8, <1>9, <1>10, <1>12, <1>13 DEF IoInv

\* run() tests running_.
LEMMA TestStep ==
  ASSUME IoInv, NEW r \in Rings, RunTest(r)
  PROVE  IoInv'
<1>1. /\ UNCHANGED opVars /\ UNCHANGED queueVars /\ cq' = cq /\ ringState' = ringState
      /\ spc' = spc /\ deadWrites' = deadWrites
      /\ rpc' = [rpc EXCEPT ![r] = IF running[r] THEN "wait" ELSE "exit"]
  BY DEF RunTest
<1>2. /\ QueueTypes' /\ (\A x \in Rings : RingInv(x)') /\ QueueKeeps
      /\ stale' = stale /\ unprepared' = unprepared /\ pending' = pending
  BY <1>1, NothingMoves
<1>3. ServiceTypes'
  BY <1>1 DEF IoInv, ServiceTypes
<1>4. \A c \in IoCoros : ~stale' /\ asp[c].at = "prep" =>
        Holding(asp[c].slots) \subseteq unprepared'[asp[c].ring]
  BY <1>2 DEF IoInv, IoPlace
<1>5. asp' = asp /\ ion' = ion
  BY <1>1 DEF opVars
<1>6. SlotsApart' /\ WriteInv'
  BY <1>1, <1>2, <1>5 DEF IoInv, SlotsApart, WriteInv
<1>7. OneAtATime'
  BY <1>1, <1>2, <1>5 DEF IoInv, OneAtATime, Stopping, Active
<1> QED
  BY <1>1, <1>2, <1>3, <1>4, <1>6, <1>7, OthersMove

\* The kernel completes an operation.
LEMMA CompleteStep ==
  ASSUME IoInv, NEW r \in Rings, NEW u \in UserData, Complete(r, u)
  PROVE  IoInv'
<1>1. /\ UNCHANGED opVars /\ pending' = pending /\ unprepared' = unprepared /\ stale' = stale
      /\ ringState' = ringState /\ rpc' = rpc /\ spc' = spc /\ deadWrites' = deadWrites
  BY DEF Complete
<1>2. QueueTypes' /\ (\A x \in Rings : RingInv(x)') /\ QueueKeeps
  BY Completing DEF IoInv, QueueKeeps
<1>3. ServiceTypes'
  BY <1>1 DEF IoInv, ServiceTypes
<1>4. \A c \in IoCoros : ~stale' /\ asp[c].at = "prep" =>
        Holding(asp[c].slots) \subseteq unprepared'[asp[c].ring]
  BY <1>1 DEF IoInv, IoPlace
<1>5. asp' = asp /\ ion' = ion
  BY <1>1 DEF opVars
<1>6. SlotsApart' /\ WriteInv'
  BY <1>1, <1>5 DEF IoInv, SlotsApart, WriteInv
<1>7. OneAtATime'
  BY <1>1, <1>5 DEF IoInv, OneAtATime, Stopping, Active
<1> QED
  BY <1>1, <1>2, <1>3, <1>4, <1>6, <1>7, OthersMove

\* shutdown() between its accesses to the queue.
LEMMA ShutdownGoesOn ==
  ASSUME IoInv, BeginIoShutdown \/ StopRunning \/ JoinRun \/ ClearRing
  PROVE  IoInv'
<1>1. /\ UNCHANGED opVars /\ UNCHANGED queueVars /\ cq' = cq /\ rpc' = rpc
      /\ deadWrites' = deadWrites
  BY DEF BeginIoShutdown, StopRunning, JoinRun, ClearRing
<1>2. /\ QueueTypes' /\ (\A x \in Rings : RingInv(x)') /\ QueueKeeps
      /\ stale' = stale /\ unprepared' = unprepared /\ pending' = pending
  BY <1>1, NothingMoves
<1>3. PICK y, z : /\ spc' = [at |-> y, ring |-> z, slots |-> <<>>]
                  /\ \/ y \in {"flag", "nop", "exit"} /\ z \in Rings
                     \/ y = "down" /\ z = NoThread
  <2>1. spc.at \notin {"up", "down"} => spc.ring \in Rings
    BY DEF IoInv, ServiceTypes
  <2>2. CASE BeginIoShutdown
    <3>1. spc' = [at |-> "flag", ring |-> WorkerRing, slots |-> <<>>]
      BY <2>2 DEF BeginIoShutdown, ShutGoto
    <3> QED
      BY <3>1 DEF Rings
  <2>3. CASE StopRunning
    <3>1. spc' = [at |-> "nop", ring |-> spc.ring, slots |-> <<>>] /\ spc.at = "flag"
      BY <2>3 DEF StopRunning, ShutGoto
    <3> QED
      BY <2>1, <3>1
  <2>4. CASE JoinRun
    <3>1. spc' = [at |-> "exit", ring |-> spc.ring, slots |-> <<>>] /\ spc.at = "join"
      BY <2>4 DEF JoinRun, ShutGoto
    <3> QED
      BY <2>1, <3>1
  <2>5. CASE ClearRing
    <3>1. \/ spc' = [at |-> "flag", ring |-> FallbackRing, slots |-> <<>>]
          \/ spc' = [at |-> "down", ring |-> NoThread, slots |-> <<>>]
      BY <2>5 DEF ClearRing, ShutGoto
    <3> QED
      BY <3>1 DEF Rings
  <2> QED
    BY <2>2, <2>3, <2>4, <2>5
<1>4. spc'.at = y /\ spc'.ring = z /\ spc'.slots = <<>>
  BY <1>3
<1>5. ringState' \in [Rings -> {"open", "exited", "null"}]
  BY DEF BeginIoShutdown, StopRunning, JoinRun, ClearRing, IoInv, ServiceTypes
<1>6. ServiceTypes'
  <2>1. <<>> \in Seq(1 .. Slots)
    OBVIOUS
  <2>2. spc' \in [at : {"up", "flag", "nop", "prep", "submit", "join", "exit", "down"},
                  ring : {NoThread} \union Rings, slots : Seq(1 .. Slots)]
    BY <1>3, <2>1
  <2> QED
    BY <1>1, <1>3, <1>4, <1>5, <2>2 DEF IoInv, ServiceTypes
<1>7. \A c \in IoCoros : ~stale' /\ asp[c].at = "prep" =>
        Holding(asp[c].slots) \subseteq unprepared'[asp[c].ring]
  BY <1>2 DEF IoInv, IoPlace
<1>8. asp' = asp
  BY <1>1 DEF opVars
<1>9. SlotsApart' /\ WriteInv'
  BY <1>1, <1>2, <1>3, <1>4, <1>8 DEF IoInv, SlotsApart, WriteInv
<1>10. OneAtATime'
  BY <1>3, <1>4 DEF OneAtATime, Stopping
<1> QED
  BY <1>1, <1>2, <1>6, <1>7, <1>9, <1>10, OthersMove

\* shutdown() takes a slot for the operation that wakes the completion thread.
LEMMA TakeNopStep ==
  ASSUME IoInv, TakeNop
  PROVE  IoInv'
<1>1. /\ spc.at = "nop" /\ UNCHANGED opVars /\ cq' = cq /\ ringState' = ringState
      /\ rpc' = rpc /\ deadWrites' = deadWrites
  BY DEF TakeNop
<1>2. PICK x \in Rings : x = spc.ring
  BY <1>1 DEF IoInv, ServiceTypes
<1>3. PICK new : new = Free(x, 1)
  OBVIOUS
<1>4. /\ TakeSlots(x, Free(x, 1))
      /\ spc' = [at |-> IF new = <<>> THEN "join" ELSE "prep", ring |-> x, slots |-> new]
  BY <1>2, <1>3 DEF TakeNop, ShutGoto
<1>5. /\ QueueTypes' /\ (\A r \in Rings : RingInv(r)')
      /\ \A r \in Rings : \A u : Kept(r, u)
      /\ new \in Seq(1 .. Slots)
      /\ Len(new) = IF Slots - Len(pending[x]) < 1 THEN Slots - Len(pending[x]) ELSE 1
      /\ \A i \in DOMAIN new : new[i] \notin unprepared[x]
  BY <1>1, <1>3, <1>4, Taking DEF IoInv
<1>6. /\ unprepared' = [unprepared EXCEPT ![x] = @ \union Holding(new)] /\ stale' = stale
  BY <1>3, <1>4 DEF TakeSlots, Holding
<1>7. /\ unprepared'[x] = unprepared[x] \union Holding(new)
      /\ \A r \in Rings : unprepared[r] \subseteq unprepared'[r]
  BY <1>6 DEF IoInv, QueueTypes
<1>8. /\ spc'.at = IF new = <<>> THEN "join" ELSE "prep"
      /\ spc'.ring = x /\ spc'.slots = new
  BY <1>4
<1>9. new # <<>> => DOMAIN new = 1 .. 1
  <2>1. Len(pending[x]) \in Nat /\ Len(pending[x]) <= Slots /\ Slots \in Nat
    <3>1. pending[x] \in Seq(1 .. Slots)
      BY DEF IoInv, QueueTypes
    <3> QED
      BY <3>1, LenProperties, SlotsAssumption DEF IoInv, RingInv
  <2> DEFINE l == Len(pending[x])
  <2> HIDE DEF l
  <2>2. Len(new) \in {0, 1}
    BY <1>5, <2>1, SMT
  <2>3. DOMAIN new = 1 .. Len(new) /\ (Len(new) = 0 => new = <<>>)
    BY <1>5, LenProperties, EmptySeq
  <2> QED
    BY <2>2, <2>3
<1>10. ServiceTypes'
  <2>1. spc' \in [at : {"up", "flag", "nop", "prep", "submit", "join", "exit", "down"},
                  ring : {NoThread} \union Rings, slots : Seq(1 .. Slots)]
    BY <1>4, <1>5
  <2> QED
    BY <1>1, <1>8, <1>9, <2>1 DEF IoInv, ServiceTypes
<1>11. \A c \in IoCoros : ~stale' /\ asp[c].at = "prep" =>
         asp[c].ring \in Rings /\ Holding(asp[c].slots) \subseteq unprepared[asp[c].ring]
  BY <1>6, IoNamesAssumption DEF IoInv, IoPlace
<1>12. asp' = asp
  BY <1>1 DEF opVars
<1>13. SlotsApart'
  <2> SUFFICES ASSUME ~stale PROVE SlotsApart'
    BY <1>6 DEF SlotsApart
  <2>1. \A c, d \in IoCoros :
          c # d /\ asp[c].at = "prep" /\ asp[d].at = "prep" /\ asp[c].ring = asp[d].ring
            => Apart(asp[c].slots, asp[d].slots)
    BY DEF IoInv, SlotsApart
  <2>2. \A c \in IoCoros : asp[c].at = "prep" /\ asp[c].ring = x => Apart(asp[c].slots, new)
    BY <1>5, <1>6, <1>11 DEF Apart, Holding
  <2>3. Holding(new) \subseteq unprepared'[x]
    BY <1>7
  <2> QED
    BY <1>8, <1>12, <2>1, <2>2, <2>3 DEF SlotsApart, Apart, Holding
<1>14. WriteInv'
  BY <1>1, <1>6 DEF IoInv, WriteInv
<1>15. OneAtATime'
  BY <1>8 DEF OneAtATime, Stopping
<1>16. /\ QueueKeeps
       /\ \A c \in IoCoros : ~stale' /\ asp[c].at = "prep" =>
            Holding(asp[c].slots) \subseteq unprepared'[asp[c].ring]
  BY <1>5, <1>7, <1>11 DEF QueueKeeps
<1> QED
  BY <1>1, <1>5, <1>6, <1>10, <1>13, <1>14, <1>15, <1>16, OthersMove

\* shutdown() prepares it.
LEMMA PrepareNopStep ==
  ASSUME IoInv, PrepareNop
  PROVE  IoInv'
<1>1. /\ spc.at = "prep" /\ UNCHANGED opVars /\ cq' = cq /\ ringState' = ringState
      /\ rpc' = rpc /\ deadWrites' = deadWrites /\ Prepare(spc.ring, spc.slots, <<Nop>>)
  BY DEF PrepareNop
<1>2. PICK x \in Rings : x = spc.ring
  BY <1>1 DEF IoInv, ServiceTypes
<1>3. PICK taken \in Seq(1 .. Slots) : taken = spc.slots
  BY DEF IoInv, ServiceTypes
<1>4. DOMAIN taken = 1 .. 1
  BY <1>1, <1>3 DEF IoInv, ServiceTypes
<1>5. PICK us : us = <<Nop>>
  OBVIOUS
<1>6. DOMAIN us = 1 .. 1 /\ \A k \in DOMAIN us : us[k] = Nop
  BY <1>5
<1>7. Prepare(x, taken, us) /\ Nop \in UserData
  BY <1>1, <1>2, <1>3, <1>5 DEF UserData
<1>8. /\ QueueTypes' /\ (\A r \in Rings : RingInv(r)') /\ pending' = pending
      /\ \A u : (\A k \in DOMAIN us : us[k] # u) => \A r \in Rings : Kept(r, u)
  <2>1. QueueTypes /\ \A r \in Rings : RingInv(r)
    BY DEF IoInv
  <2>2. DOMAIN us = DOMAIN taken /\ \A k \in DOMAIN us : us[k] \in UserData
    BY <1>4, <1>6, <1>7
  <2> QED
    BY <1>1, <1>7, <2>1, <2>2, Preparing
<1>9. QueueKeeps
  BY <1>6, <1>8 DEF QueueKeeps
<1>10. /\ unprepared' = [unprepared EXCEPT ![x] = @ \ Holding(taken)] /\ stale' = stale
  BY <1>7 DEF Prepare, Holding
<1>11. /\ unprepared'[x] = unprepared[x] \ Holding(taken)
       /\ \A r \in Rings : r # x => unprepared'[r] = unprepared[r]
  BY <1>10 DEF IoInv, QueueTypes
<1>12. spc' = [at |-> "submit", ring |-> x, slots |-> <<>>]
  BY <1>2 DEF PrepareNop, ShutGoto
<1>13. ServiceTypes'
  <2>1. <<>> \in Seq(1 .. Slots)
    OBVIOUS
  <2>2. spc' \in [at : {"up", "flag", "nop", "prep", "submit", "join", "exit", "down"},
                  ring : {NoThread} \union Rings, slots : Seq(1 .. Slots)]
    BY <1>12, <2>1
  <2> QED
    BY <1>1, <1>12, <2>2 DEF IoInv, ServiceTypes
<1>14. ASSUME NEW c \in IoCoros, ~stale', asp[c].at = "prep"
       PROVE  Holding(asp[c].slots) \subseteq unprepared'[asp[c].ring]
  <2>1. asp[c].ring \in Rings /\ Holding(asp[c].slots) \subseteq unprepared[asp[c].ring]
    BY <1>10, <1>14, IoNamesAssumption DEF IoInv, IoPlace
  <2>2. asp[c].ring = x => Apart(asp[c].slots, taken)
    BY <1>1, <1>2, <1>3, <1>10, <1>14 DEF IoInv, SlotsApart
  <2> QED
    BY <1>11, <2>1, <2>2 DEF Apart
<1>15. asp' = asp
  BY <1>1 DEF opVars
<1>16. SlotsApart'
  BY <1>10, <1>12, <1>15 DEF IoInv, SlotsApart
<1>17. WriteInv'
  BY <1>1, <1>10 DEF IoInv, WriteInv
<1>18. OneAtATime'
  BY <1>12 DEF OneAtATime, Stopping
<1> QED
  BY <1>1, <1>8, <1>9, <1>10, <1>13, <1>14, <1>16, <1>17, <1>18, OthersMove

\* shutdown() submits it, and what else is in the queue.
LEMMA SubmitNopStep ==
  ASSUME IoInv, SubmitNop
  PROVE  IoInv'
<1>1. /\ spc.at = "submit" /\ UNCHANGED opVars /\ cq' = cq /\ ringState' = ringState
      /\ rpc' = rpc /\ deadWrites' = deadWrites
  BY DEF SubmitNop
<1>2. PICK x \in Rings : x = spc.ring
  BY <1>1 DEF IoInv, ServiceTypes
<1>3. Submit(x) /\ spc' = [at |-> "join", ring |-> x, slots |-> <<>>]
  BY <1>2 DEF SubmitNop, ShutGoto
<1>4. /\ QueueTypes' /\ (\A r \in Rings : RingInv(r)')
      /\ stale => stale'
      /\ ~stale' => unprepared' = unprepared
      /\ ~stale' => QueueKeeps
  <2>1. QueueTypes /\ \A r \in Rings : RingInv(r)
    BY DEF IoInv
  <2> QED
    BY <1>1, <1>3, <2>1, Submitting DEF QueueKeeps
<1>5. ServiceTypes'
  <2>1. <<>> \in Seq(1 .. Slots)
    OBVIOUS
  <2>2. spc' \in [at : {"up", "flag", "nop", "prep", "submit", "join", "exit", "down"},
                  ring : {NoThread} \union Rings, slots : Seq(1 .. Slots)]
    BY <1>3, <2>1
  <2> QED
    BY <1>1, <1>3, <2>2 DEF IoInv, ServiceTypes
<1>6. \A c \in IoCoros : ~stale' /\ asp[c].at = "prep" =>
        Holding(asp[c].slots) \subseteq unprepared'[asp[c].ring]
  BY <1>4 DEF IoInv, IoPlace
<1>7. asp' = asp
  BY <1>1 DEF opVars
<1>8. SlotsApart'
  BY <1>3, <1>4, <1>7 DEF IoInv, SlotsApart
<1>9. WriteInv'
  BY <1>1, <1>4 DEF IoInv, WriteInv
<1>10. OneAtATime'
  BY <1>3 DEF OneAtATime, Stopping
<1> QED
  BY <1>1, <1>4, <1>5, <1>6, <1>8, <1>9, <1>10, OthersMove

\* run() hands a completion to its coroutine, which waits for it, or only writes it.
LEMMA ReapStep ==
  ASSUME IoInv, NEW x \in Rings, Reap(x)
  PROVE  IoInv'
<1>1. PICK v : v = Head(cq[x])
  OBVIOUS
<1>2. /\ cq[x] # <<>> /\ cq' = [cq EXCEPT ![x] = Tail(@)]
      /\ rpc' = [rpc EXCEPT ![x] = "test"]
      /\ IF v # Nop /\ v.part = "send_comp" THEN IoSchedule(v.await, x)
         ELSE UNCHANGED <<ist, ion, iwakes>>
      /\ deadWrites' = IF v # Nop /\ Left(v.await) THEN deadWrites \union {v} ELSE deadWrites
      /\ asp' = asp /\ nth' = nth /\ UNCHANGED queueVars /\ ringState' = ringState
      /\ spc' = spc
  BY <1>1 DEF Reap
<1>3. /\ QueueTypes' /\ (\A r \in Rings : RingInv(r)')
      /\ \A r \in Rings : \A u \in UserData : Kept(r, u)
      /\ v \in UserData /\ AtRing(x, v)
      /\ Once(v) => ~Somewhere(v)'
  BY <1>1, <1>2, Reaping DEF IoInv
<1>4. stale' = stale /\ unprepared' = unprepared /\ pending' = pending /\ QueueKeeps
  BY <1>2, <1>3 DEF queueVars, QueueKeeps
<1>5. ServiceTypes'
  <2>1. deadWrites' \subseteq UserData \ {Nop}
    BY <1>2, <1>3 DEF IoInv, ServiceTypes
  <2> QED
    BY <1>2, <2>1 DEF IoInv, ServiceTypes
<1>6. SlotsApart'
  BY <1>2, <1>4 DEF IoInv, SlotsApart
<1>7. CASE ~(v # Nop /\ v.part = "send_comp")
  <2>1. UNCHANGED opVars
    BY <1>2, <1>7 DEF opVars
  <2>2. \A c \in IoCoros : ~stale' /\ asp[c].at = "prep" =>
          Holding(asp[c].slots) \subseteq unprepared'[asp[c].ring]
    BY <1>4 DEF IoInv, IoPlace
  <2>3. WriteInv'
    <3>1. v # Nop => v.part = "timeout_comp"
      BY <1>3, <1>7, OpFacts
    <3> QED
      BY <1>2, <1>4, <3>1 DEF IoInv, WriteInv
  <2>4. OneAtATime'
    BY <1>2, <1>4, <1>7 DEF IoInv, OneAtATime, Stopping, Active
  <2> QED
    BY <1>3, <1>4, <1>5, <1>6, <2>1, <2>2, <2>3, <2>4, OthersMove
<1>8. CASE v # Nop /\ v.part = "send_comp"
  <2>1. PICK a \in Ops : a = v.await /\ v = SendOf(a)
    BY <1>3, <1>8, OpFacts
  <2>2. PICK c \in IoCoros : c = a[1]
    BY OpFacts
  <2>3. /\ iwakes' = [iwakes EXCEPT ![a] = @ + 1]
        /\ IF ist[c] = "suspended" /\ nth[c] = a[2]
           THEN /\ ist' = [ist EXCEPT ![c] = "runnable"]
                /\ ion' = [ion EXCEPT ![c] = IF Stopping THEN x ELSE NoThread]
           ELSE ist' = ist /\ ion' = ion
    BY <1>2, <1>8, <2>1, <2>2 DEF IoSchedule
  <2>4. OpTypes /\ OpInv(a) /\ IoPlace(c)
    BY DEF IoInv
  <2>5. /\ iwakes'[a] = iwakes[a] + 1 /\ \A b \in Ops : b # a => iwakes'[b] = iwakes[b]
        /\ iwakes' \in [Ops -> Nat]
    BY <2>3, <2>4 DEF OpTypes
  <2>6. /\ \A d \in IoCoros : d # c => ist'[d] = ist[d] /\ ion'[d] = ion[d]
        /\ \/ ist'[c] = ist[c] /\ ion'[c] = ion[c]
           \/ /\ ist'[c] = "runnable" /\ ion'[c] \in {NoThread, x}
              /\ ~Stopping => ion'[c] = NoThread
    BY <2>3, <2>4 DEF OpTypes
  <2>7. OpTypes'
    BY <1>2, <2>3, <2>4, <2>5 DEF OpTypes
  <2>8. ~stale => /\ Once(v) /\ iwakes[a] = 0 /\ a[2] = nth[c] /\ ist[c] = "suspended"
                  /\ asp[c].at # "prep" /\ ist'[c] = "runnable"
    <3>1. ~stale => /\ Once(v) /\ iwakes[a] = 0 /\ a[2] = nth[c] /\ ist[c] = "suspended"
                    /\ asp[c].at # "prep"
      BY <1>3, <2>1, <2>2, <2>4 DEF OpInv, Somewhere
    <3> QED
      BY <2>3, <2>4, <3>1 DEF OpTypes
  <2>9. WriteInv'
    BY <1>2, <1>4, <2>1, <2>2, <2>8 DEF IoInv, WriteInv, Left
  <2>10. ASSUME NEW d \in IoCoros PROVE IoPlace(d)'
    <3>1. IoPlace(d)
      BY DEF IoInv
    <3>2. CASE d # c
      BY <1>2, <1>4, <2>6, <3>1, <3>2 DEF IoPlace
    <3>3. CASE d = c
      BY <1>2, <1>4, <2>6, <2>8, <3>1, <3>3 DEF IoPlace
    <3> QED
      BY <3>2, <3>3
  <2>11. OneAtATime'
    <3>1. ~Stopping => \A d \in IoCoros : ion'[d] \in {ion[d], NoThread}
      BY <2>6
    <3>2. ~Stopping => \A d \in IoCoros : Active(d)' => Active(d)
      BY <1>2, <3>1 DEF Active
    <3>3. (Stopping' <=> Stopping) /\ OneAtATime
      BY <1>2 DEF Stopping, IoInv
    <3> SUFFICES ASSUME ~Stopping PROVE OneAtATime'
      BY <3>3 DEF OneAtATime
    <3>4. \A d \in IoCoros : ion'[d] \in {NoThread, IoWorker}
      BY <3>1, <3>3 DEF OneAtATime
    <3>5. \A d \in IoCoros : asp'[d].at # NoThread =>
             asp'[d].by = IoWorker /\ asp'[d].ring = WorkerRing /\ ion'[d] = NoThread
      BY <1>2, <3>1, <3>3 DEF OneAtATime
    <3> QED
      BY <1>2, <1>4, <3>2, <3>3, <3>4, <3>5 DEF OneAtATime
  <2>12. ASSUME NEW b \in Ops PROVE OpInv(b)'
    <3>1. OpInv(b) /\ b[1] \in IoCoros
      BY OpFacts DEF IoInv
    <3> SUFFICES ASSUME ~stale PROVE OpInv(b)'
      BY <1>4 DEF OpInv
    <3>2. CASE b[1] # c
      BY <1>2, <1>4, <2>2, <2>5, <2>6, <3>1, <3>2, OpKept
    <3>3. CASE b[1] = c
      <4> DEFINE u == SendOf(b)
      <4>1. u \in UserData
        BY OpFacts
      <4>2. b # a => ~Somewhere(u)
        <5>1. b = <<b[1], b[2]>> /\ a = <<a[1], a[2]>>
          BY OpFacts
        <5>2. Somewhere(u) => b[2] = nth[c]
          BY <3>1, <3>3 DEF OpInv
        <5> QED
          BY <2>2, <2>8, <3>3, <5>1, <5>2
      <4> HIDE DEF u
      <4>3. Once(u)' /\ (Somewhere(u)' => Somewhere(u))
        BY <1>3, <3>1, <4>1, OnceKept DEF OpInv, u
      <4>4. ~Somewhere(u)'
        BY <1>3, <2>1, <2>8, <4>2, <4>3 DEF u
      <4>5. b[2] \in Int /\ nth[c] \in Int
        BY <2>4, OpFacts DEF OpTypes
      <4>6. iwakes'[b] <= 1 /\ (b[2] > nth[c] => iwakes'[b] = 0)
        <5>1. CASE b = a
          BY <2>5, <2>8, <4>5, <5>1
        <5>2. CASE b # a
          BY <2>5, <3>1, <3>3, <5>2 DEF OpInv
        <5> QED
          BY <5>1, <5>2
      <4> QED
        BY <1>2, <2>8, <3>3, <4>3, <4>4, <4>6 DEF OpInv, u
    <3> QED
      BY <3>2, <3>3
  <2> QED
    BY <1>3, <1>5, <1>6, <2>7, <2>9, <2>10, <2>11, <2>12 DEF IoInv
<1> QED
  BY <1>7, <1>8

\* The slots of nothing.
LEMMA NoneFree ==
  ASSUME QueueTypes, NEW x \in Rings, RingInv(x)
  PROVE  Free(x, 0) = <<>>
<1> DEFINE new == Free(x, 0)
           left == Slots - Len(pending[x])
<1>1. /\ new \in Seq(1 .. Slots)
      /\ Len(new) = IF left < 0 THEN left ELSE 0
  BY FreeFacts
<1>2. left \in Nat
  <2>1. Len(pending[x]) \in Nat /\ Len(pending[x]) <= Slots /\ Slots \in Nat
    <3>1. pending[x] \in Seq(1 .. Slots)
      BY DEF QueueTypes
    <3> QED
      BY <3>1, LenProperties, SlotsAssumption DEF RingInv
  <2> DEFINE l == Len(pending[x])
  <2>2. l \in Nat /\ l <= Slots /\ Slots \in Nat /\ left = Slots - l
    BY <2>1
  <2> HIDE DEF l, left
  <2> QED
    BY <2>2, SMT
<1> HIDE DEF left, new
<1>3. Len(new) = 0
  BY <1>1, <1>2, SMT
<1>4. new = <<>>
  BY <1>1, <1>3, EmptySeq
<1> QED
  BY <1>4 DEF new

\* await_suspend takes its slots, or what is left of them and gives up.
LEMMA TakeStep ==
  ASSUME IoInv, NEW c \in IoCoros, TakeSqe(c)
  PROVE  IoInv'
<1>1. PICK t : t = ion[c]
  OBVIOUS
<1>2. PICK x \in Rings : x = RingOf(t)
  BY DEF RingOf, Rings
<1>3. PICK n \in Nat : n = IF ringState[x] = "null" THEN 0 ELSE Needed(c)
  BY DEF Needed
<1>4. PICK new : new = Free(x, n)
  OBVIOUS
<1> DEFINE enough == Len(new) = Needed(c)
<1>5. /\ QueueTypes /\ OpTypes /\ (\A r \in Rings : RingInv(r))
      /\ IoPlace(c) /\ SlotsApart /\ OneAtATime
  BY DEF IoInv
<1>6. new = IF ringState[x] = "null" THEN <<>> ELSE Free(x, Needed(c))
  BY <1>3, <1>4, <1>5, NoneFree
<1>7. /\ ist[c] = "ready" /\ TakeSlots(x, new)
      /\ nth' = [nth EXCEPT ![c] = @ + 1]
      /\ ist' = [ist EXCEPT ![c] = IF enough THEN "suspended" ELSE "runnable"]
      /\ ion' = [ion EXCEPT ![c] = IF ~enough /\ Stopping THEN t ELSE NoThread]
      /\ asp' = [asp EXCEPT ![c] = IF ~enough THEN NotIo
           ELSE [at |-> "prep", by |-> t, ring |-> x, slots |-> new]]
      /\ iwakes' = [iwakes EXCEPT ![<<c, nth[c] + 1>>] = IF enough THEN @ ELSE @ + 1]
      /\ UNCHANGED serviceVars
  BY <1>1, <1>2, <1>6 DEF TakeSqe
<1>8. /\ ringState' = ringState /\ cq' = cq /\ rpc' = rpc /\ spc' = spc
      /\ deadWrites' = deadWrites
  BY <1>7 DEF serviceVars
<1>9. /\ QueueTypes' /\ (\A r \in Rings : RingInv(r)')
      /\ \A r \in Rings : \A u : Kept(r, u)
      /\ new \in Seq(1 .. Slots)
      /\ Len(new) = IF Slots - Len(pending[x]) < n THEN Slots - Len(pending[x]) ELSE n
      /\ Len(pending'[x]) = Len(pending[x]) + Len(new)
      /\ \A i \in DOMAIN new : new[i] \notin unprepared[x]
  BY <1>4, <1>5, <1>7, <1>8, Taking
<1>10. /\ unprepared' = [unprepared EXCEPT ![x] = @ \union Holding(new)] /\ stale' = stale
  BY <1>7 DEF TakeSlots, Holding
<1>11. /\ unprepared'[x] = unprepared[x] \union Holding(new)
       /\ \A r \in Rings : r # x => unprepared'[r] = unprepared[r]
       /\ \A r \in Rings : unprepared[r] \subseteq unprepared'[r]
  BY <1>5, <1>10 DEF QueueTypes
<1>12. QueueKeeps
  BY <1>9 DEF QueueKeeps
<1>13. PICK m \in Nat : m = nth[c] /\ m + 1 \in 1 .. MaxIo
  <2>1. nth[c] \in 0 .. MaxIo /\ nth[c] < MaxIo /\ MaxIo \in Nat
    BY <1>5, <1>7, SlotsAssumption DEF IoPlace, OpTypes
  <2> QED
    BY <2>1, SMT
<1>14. PICK a \in Ops : a = <<c, m + 1>>
  BY <1>13 DEF Ops
<1>15. asp[c].at = NoThread /\ t # NoThread /\ t \in {NoThread, IoWorker} \union Rings
  BY <1>1, <1>5, <1>7 DEF IoPlace, OpTypes
<1>16. /\ nth'[c] = m + 1
       /\ ist'[c] = (IF enough THEN "suspended" ELSE "runnable")
       /\ ion'[c] = (IF ~enough /\ Stopping THEN t ELSE NoThread)
       /\ asp'[c] = IF ~enough THEN NotIo
                    ELSE [at |-> "prep", by |-> t, ring |-> x, slots |-> new]
       /\ iwakes'[a] = IF enough THEN iwakes[a] ELSE iwakes[a] + 1
       /\ \A d \in IoCoros : d # c => /\ nth'[d] = nth[d] /\ ist'[d] = ist[d] /\ ion'[d] = ion[d]
                                      /\ asp'[d] = asp[d]
       /\ \A b \in Ops : b # a => iwakes'[b] = iwakes[b]
  BY <1>5, <1>7, <1>13, <1>14 DEF OpTypes
<1>17. /\ ~enough => asp'[c].at = NoThread
       /\ enough => /\ asp'[c].at = "prep" /\ asp'[c].by = t /\ asp'[c].ring = x
                    /\ asp'[c].slots = new
  BY <1>16 DEF NotIo
<1>18. enough => DOMAIN new = 1 .. Needed(c)
  BY <1>9, LenProperties
<1> HIDE DEF enough
<1>19. OpTypes'
  <2> DEFINE A == [at : {NoThread, "prep", "submit"}, by : {NoThread, IoWorker} \union Rings,
                   ring : {NoThread} \union Rings, slots : Seq(1 .. Slots)]
  <2>1. asp \in [IoCoros -> A]
    BY <1>5 DEF OpTypes
  <2>2. asp'[c] \in A
    <3>1. <<>> \in Seq(1 .. Slots)
      OBVIOUS
    <3>2. NotIo \in A
      BY <3>1 DEF NotIo
    <3>3. [at |-> "prep", by |-> t, ring |-> x, slots |-> new] \in A
      BY <1>9, <1>15
    <3> QED
      BY <1>16, <3>2, <3>3
  <2> HIDE DEF A
  <2>3. asp' \in [IoCoros -> A]
    BY <1>7, <1>16, <2>1, <2>2
  <2>4. nth' \in [IoCoros -> 0 .. MaxIo]
    <3>1. m + 1 \in 0 .. MaxIo
      BY <1>13, SMT
    <3> QED
      BY <1>5, <1>7, <1>13, <3>1 DEF OpTypes
  <2>5. iwakes' \in [Ops -> Nat]
    <3>1. iwakes'[a] \in Nat
      BY <1>5, <1>16, SMT DEF OpTypes
    <3> QED
      BY <1>5, <1>7, <1>13, <1>14, <1>16, <3>1 DEF OpTypes
  <2>6. ist' \in [IoCoros -> {"idle", "ready", "suspended", "runnable", "done"}]
    BY <1>5, <1>7 DEF OpTypes
  <2>7. ion' \in [IoCoros -> {NoThread, IoWorker} \union Rings]
    BY <1>5, <1>7, <1>15 DEF OpTypes
  <2> QED
    BY <2>3, <2>4, <2>5, <2>6, <2>7 DEF OpTypes, A
<1>20. ServiceTypes' /\ WriteInv'
  BY <1>8, <1>10 DEF IoInv, ServiceTypes, WriteInv
<1>21. \A d \in IoCoros : ~stale /\ asp[d].at = "prep" =>
         asp[d].ring \in Rings /\ Holding(asp[d].slots) \subseteq unprepared[asp[d].ring]
  BY IoNamesAssumption DEF IoInv, IoPlace
<1>22. ASSUME NEW d \in IoCoros PROVE IoPlace(d)'
  <2>1. IoPlace(d)
    BY DEF IoInv
  <2>2. CASE d = c
    <3>1. m + 1 # 0
      BY <1>13, SMT
    <3>2. enough => Holding(new) \subseteq unprepared'[x]
      BY <1>11
    <3>3. ist'[c] # "ready" /\ (enough => ist'[c] = "suspended")
      BY <1>16
    <3> QED
      BY <1>16, <1>17, <1>18, <2>2, <3>1, <3>2, <3>3, IoNamesAssumption DEF IoPlace
  <2>3. CASE d # c
    <3>1. ~stale /\ asp[d].at = "prep" =>
            Holding(asp[d].slots) \subseteq unprepared'[asp[d].ring]
      BY <1>11, <1>21
    <3> QED
      BY <1>10, <1>16, <2>1, <2>3, <3>1 DEF IoPlace
  <2> QED
    BY <2>2, <2>3
<1>23. SlotsApart'
  <2> SUFFICES ASSUME ~stale PROVE SlotsApart'
    BY <1>10 DEF SlotsApart
  <2>1. \A d \in IoCoros : asp[d].at = "prep" /\ asp[d].ring = x =>
          Apart(asp[d].slots, new) /\ Apart(new, asp[d].slots)
    BY <1>9, <1>21 DEF Apart, Holding
  <2>2. spc.at = "prep" => /\ Holding(spc.slots) \subseteq unprepared[spc.ring]
                           /\ spc.ring \in Rings
    BY <1>5 DEF SlotsApart, IoInv, ServiceTypes
  <2>3. spc.at = "prep" /\ spc.ring = x => Apart(new, spc.slots)
    BY <1>9, <2>2 DEF Apart, Holding
  <2>4. asp'[c].at = "prep" => asp'[c].ring = x /\ asp'[c].slots = new
    BY <1>17, IoNamesAssumption
  <2>5. \A d, e \in IoCoros :
          d # e /\ asp'[d].at = "prep" /\ asp'[e].at = "prep" /\ asp'[d].ring = asp'[e].ring
            => Apart(asp'[d].slots, asp'[e].slots)
    <3> SUFFICES ASSUME NEW d \in IoCoros, NEW e \in IoCoros, d # e, asp'[d].at = "prep",
                        asp'[e].at = "prep", asp'[d].ring = asp'[e].ring
                 PROVE  Apart(asp'[d].slots, asp'[e].slots)
      OBVIOUS
    <3>1. CASE d = c
      BY <1>16, <2>1, <2>4, <3>1
    <3>2. CASE e = c
      BY <1>16, <2>1, <2>4, <3>2
    <3>3. CASE d # c /\ e # c
      BY <1>5, <1>16, <3>3 DEF SlotsApart
    <3> QED
      BY <3>1, <3>2, <3>3
  <2>6. ASSUME spc.at = "prep"
        PROVE  /\ Holding(spc.slots) \subseteq unprepared'[spc.ring]
               /\ \A d \in IoCoros : asp'[d].at = "prep" /\ asp'[d].ring = spc.ring
                    => Apart(asp'[d].slots, spc.slots)
    <3>1. Holding(spc.slots) \subseteq unprepared'[spc.ring]
      BY <1>11, <2>2, <2>6
    <3>2. ASSUME NEW d \in IoCoros, asp'[d].at = "prep", asp'[d].ring = spc.ring
          PROVE  Apart(asp'[d].slots, spc.slots)
      <4>1. CASE d = c
        BY <2>3, <2>4, <2>6, <3>2, <4>1
      <4>2. CASE d # c
        BY <1>5, <1>16, <2>6, <3>2, <4>2 DEF SlotsApart
      <4> QED
        BY <4>1, <4>2
    <3> QED
      BY <3>1, <3>2
  <2> QED
    BY <1>8, <2>5, <2>6 DEF SlotsApart, Apart, Holding
<1>24. ASSUME ~Stopping PROVE OneAtATime'
  <2>1. /\ ~stale /\ \A r \in Rings : ringState[r] = "open"
        /\ \A d \in IoCoros : ion[d] \in {NoThread, IoWorker}
        /\ \A d \in IoCoros : asp[d].at # NoThread =>
             asp[d].by = IoWorker /\ asp[d].ring = WorkerRing /\ ion[d] = NoThread
        /\ \A d, e \in IoCoros : Active(d) /\ Active(e) => d = e
        /\ unprepared[FallbackRing] = {}
    BY <1>5, <1>24 DEF OneAtATime
  <2>2. t = IoWorker /\ x = WorkerRing /\ n = Needed(c)
    BY <1>1, <1>2, <1>3, <1>15, <2>1 DEF RingOf
  <2>3. \A d \in IoCoros : d # c => ~Active(d)
    BY <1>1, <1>15, <2>1 DEF Active
  <2>4. \A d \in IoCoros : d # c => asp'[d].at = NoThread /\ ion'[d] = NoThread
    BY <1>16, <2>3 DEF Active
  <2>5. ion'[c] = NoThread
    BY <1>16, <1>24
  <2>6. \/ unprepared[WorkerRing] = {}
        \/ Len(pending[WorkerRing]) = Slots
    <3>1. \A d \in IoCoros : asp[d].at = NoThread
      BY <1>15, <2>3 DEF Active
    <3> QED
      BY <1>5, <1>24, <3>1, IoNamesAssumption DEF OneAtATime
  <2>7. PICK l \in Nat : l = Len(pending[x]) /\ l <= Slots
    <3>1. pending[x] \in Seq(1 .. Slots)
      BY <1>5 DEF QueueTypes
    <3> QED
      BY <1>5, <3>1, LenProperties DEF RingInv
  <2>8. Slots \in Nat \ {0} /\ Needed(c) \in {1, 2}
    BY SlotsAssumption DEF Needed
  <2>9. CASE enough
    <3>1. l # Slots
      BY <1>9, <2>2, <2>7, <2>8, <2>9, SMT DEF enough
    <3>2. unprepared'[WorkerRing] = Holding(new)
      BY <1>11, <2>2, <2>6, <2>7, <3>1
    <3>3. asp'[c].at = "prep" /\ unprepared'[WorkerRing] \subseteq Holding(asp'[c].slots)
      BY <1>17, <2>9, <3>2
    <3>4. asp'[c].by = IoWorker /\ asp'[c].ring = WorkerRing
      BY <1>17, <2>2, <2>9
    <3>5. unprepared'[FallbackRing] = {}
      BY <1>11, <2>1, <2>2, IoNamesAssumption DEF Rings
    <3> QED
      BY <1>8, <1>10, <2>1, <2>4, <2>5, <3>3, <3>4, <3>5 DEF OneAtATime, Active, Holding
  <2>10. CASE ~enough
    <3>1. Len(pending'[x]) = Slots
      BY <1>9, <2>2, <2>7, <2>8, <2>10, SMT DEF enough
    <3>2. \A d \in IoCoros : asp'[d].at = NoThread
      BY <1>17, <2>4, <2>10
    <3>3. unprepared'[FallbackRing] = {}
      BY <1>11, <2>1, <2>2, IoNamesAssumption DEF Rings
    <3> QED
      BY <1>8, <1>10, <2>1, <2>2, <2>4, <2>5, <3>1, <3>2, <3>3 DEF OneAtATime, Active
  <2> QED
    BY <2>9, <2>10
<1>25. OneAtATime'
  BY <1>8, <1>24 DEF OneAtATime, Stopping
<1>26. ASSUME NEW b \in Ops PROVE OpInv(b)'
  <2>1. OpInv(b) /\ b[1] \in IoCoros /\ b = <<b[1], b[2]>> /\ b[2] \in Nat
    <3>1. OpInv(b)
      BY DEF IoInv
    <3> QED
      BY <3>1, OpFacts
  <2> SUFFICES ASSUME ~stale PROVE OpInv(b)'
    BY <1>10 DEF OpInv
  <2>2. CASE b[1] # c
    <3>1. b # a
      BY <1>14, <2>2
    <3> QED
      BY <1>10, <1>12, <1>16, <2>1, <2>2, <3>1, OpKept
  <2>3. CASE b[1] = c
    <3> DEFINE u == SendOf(b)
    <3>1. ~Somewhere(u) /\ Once(u)
      BY <1>7, <2>1, <2>3 DEF OpInv
    <3> HIDE DEF u
    <3>2. ~Somewhere(u)' /\ Once(u)'
      BY <1>9, <3>1, OnceKept
    <3>3. CASE b = a
      <4>1. b[2] = m + 1 /\ b[2] > nth[b[1]]
        BY <1>13, <1>14, <2>3, <3>3, SMT
      <4>2. iwakes[a] = 0
        BY <2>1, <3>3, <4>1 DEF OpInv
      <4>3. iwakes'[a] = IF enough THEN 0 ELSE 1
        BY <1>16, <4>2
      <4>4. ~(m + 1 > m + 1)
        BY <1>13, SMT
      <4>5. iwakes'[b] <= 1 /\ (ist'[c] = "suspended" => iwakes'[b] = 0)
        BY <1>16, <3>3, <4>3
      <4> QED
        BY <1>16, <2>3, <3>2, <4>1, <4>4, <4>5 DEF OpInv, u
    <3>4. CASE b # a
      <4>1. b[2] # m + 1
        BY <1>14, <2>1, <2>3, <3>4
      <4>2. iwakes'[b] = iwakes[b] /\ iwakes[b] <= 1 /\ (b[2] > m => iwakes[b] = 0)
        BY <1>13, <1>16, <2>1, <2>3, <3>4 DEF OpInv
      <4>3. b[2] > m + 1 => b[2] > m
        BY <1>13, <2>1, SMT
      <4> QED
        BY <1>16, <2>3, <3>2, <4>1, <4>2, <4>3 DEF OpInv, u
    <3> QED
      BY <3>3, <3>4
  <2> QED
    BY <2>2, <2>3
<1> QED
  BY <1>9, <1>19, <1>20, <1>22, <1>23, <1>25, <1>26 DEF IoInv

\* A step of the other parts of the runtime.
LEMMA NoStep ==
  ASSUME IoInv, UNCHANGED ioVars
  PROVE  IoInv'
<1>1. /\ UNCHANGED opVars /\ UNCHANGED queueVars /\ cq' = cq /\ ringState' = ringState
      /\ rpc' = rpc /\ spc' = spc /\ deadWrites' = deadWrites /\ asp' = asp /\ ion' = ion
  BY DEF ioVars, opVars, serviceVars
<1>2. /\ QueueTypes' /\ (\A x \in Rings : RingInv(x)') /\ QueueKeeps
      /\ stale' = stale /\ unprepared' = unprepared /\ pending' = pending
  BY <1>1, NothingMoves
<1>3. ServiceTypes' /\ SlotsApart' /\ WriteInv'
  BY <1>1, <1>2 DEF IoInv, ServiceTypes, SlotsApart, WriteInv
<1>4. \A c \in IoCoros : ~stale' /\ asp[c].at = "prep" =>
        Holding(asp[c].slots) \subseteq unprepared'[asp[c].ring]
  BY <1>2 DEF IoInv, IoPlace
<1>5. OneAtATime'
  BY <1>1, <1>2 DEF IoInv, OneAtATime, Stopping, Active
<1> QED
  BY <1>1, <1>2, <1>3, <1>4, <1>5, OthersMove

\* Every step keeps the invariant.
LEMMA IoInvStep == IoInv /\ [IoNext]_ioVars => IoInv'
<1> SUFFICES ASSUME IoInv, [IoNext]_ioVars PROVE IoInv'
  OBVIOUS
<1>1. ASSUME NEW c \in IoCoros, StartIo(c) \/ IoStep(c) PROVE IoInv'
  BY <1>1, StartStep, TakeStep, PrepareStep, SubmitStep, ResumeStep DEF IoStep
<1>2. ASSUME NEW r \in Rings, RunStep(r) PROVE IoInv'
  BY <1>2, TestStep, ReapStep DEF RunStep
<1>3. ASSUME NEW r \in Rings, NEW u \in UserData, Complete(r, u) PROVE IoInv'
  BY <1>3, CompleteStep
<1>4. ASSUME BeginIoShutdown \/ ShutStep PROVE IoInv'
  BY <1>4, ShutdownGoesOn, TakeNopStep, PrepareNopStep, SubmitNopStep DEF ShutStep
<1>5. CASE UNCHANGED ioVars
  BY <1>5, NoStep
<1> QED
  BY <1>1, <1>2, <1>3, <1>4, <1>5 DEF IoNext

\* The invariant of the rings.
LEMMA IoInvariant == Spec => []IoInv
<1>1. Init => IoInv
  BY InitInv DEF Init
<1>2. IoInv /\ [Next]_all => IoInv'
  <2> SUFFICES ASSUME IoInv, [Next]_all PROVE IoInv'
    OBVIOUS
  <2>1. [IoNext]_ioVars
    BY DEF Next, all
  <2> QED
    BY <2>1, IoInvStep
<1> QED
  BY <1>1, <1>2, PTL DEF Spec

-----------------------------------------------------------------------------

\* A coroutine that awaits an operation of the ring is scheduled once: by the completion of
\* the operation, or because there was no slot for it.
THEOREM IoAwaitsEnd == Spec => []IoOutcomes
<1>1. IoInv => IoOutcomes
  <2> SUFFICES ASSUME IoInv PROVE IoOutcomes
    OBVIOUS
  <2>1. IoTypeOK
    BY DEF IoInv, IoTypeOK, QueueTypes, OpTypes, ServiceTypes, RingInv
  <2>2. IoWokenOnce
    BY DEF IoInv, IoWokenOnce, OpInv
  <2> QED
    BY <2>1, <2>2 DEF IoOutcomes
<1> QED
  BY <1>1, IoInvariant, PTL

\* A slot goes to the kernel unprepared only during the shutdown, and the completion thread
\* writes to an awaiter that is gone only for a linked timeout.
THEOREM OnlyKnownStaleAccesses == Spec => []StaleAccesses
<1>1. IoInv => StaleAccesses
  <2> SUFFICES ASSUME IoInv PROVE StaleAccesses
    OBVIOUS
  <2>1. StaleOnlyInShutdown
    BY DEF IoInv, OneAtATime, StaleOnlyInShutdown
  <2>2. OnlyTimeoutsWriteLate
    BY DEF IoInv, WriteInv, OnlyTimeoutsWriteLate
  <2> QED
    BY <2>1, <2>2 DEF StaleAccesses
<1> QED
  BY <1>1, IoInvariant, PTL

=============================================================================
