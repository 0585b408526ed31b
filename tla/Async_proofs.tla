---------------------------- MODULE Async_proofs ----------------------------
(***************************************************************************)
(* The async primitives and channels, for any coroutines, wakers, threads  *)
(* and bounds: whoever awaits is in the lists that its wakers look at and  *)
(* is scheduled once for each time; nobody is left suspended but those     *)
(* who registered behind a wake_all; permits, notifications and the values *)
(* in the channels are accounted for.                                      *)
(***************************************************************************)
EXTENDS MCAsync, FiniteSetTheorems, SequenceTheorems, WellFoundedInduction, TLAPS

-----------------------------------------------------------------------------
(* The invariant of the lists, the gates and the wakers.                   *)

\* The elements of a sequence.
Members(s) == {s[i] : i \in DOMAIN s}

\* s are the nodes of a list from h on, linked by the next pointers nx.
Spine(s, h, nx) ==
  /\ s \in Seq(Coros)
  /\ \A i, j \in DOMAIN s : s[i] = s[j] => i = j
  /\ h = IF s = <<>> THEN Null ELSE s[1]
  /\ \A i \in DOMAIN s : nx[s[i]] = IF i = Len(s) THEN Null ELSE s[i + 1]

\* Every list ends, and no node is in it twice.
ListsInv == \A l \in Lists : \E s \in Seq(Coros) : Spine(s, head[l], next[l])

\* Where suspend_impl may be.
SusPoints == {"none", "arm", "add", "check", "gate", "ready second", "add second", "check second",
              "sent", "unsent"}
\* A call of wake_one or wake_all.
CallType == [at : {"idle", "load", "cas", "all", "arrived"}, todo : Seq(Lists),
             node : Coros \union {Null}, nx : Coros \union {Null}]

\* The types of the waiters' state.
WaitersType ==
  /\ head \in [Lists -> Coros \union {Null}]
  /\ next \in [Lists -> [Coros -> Coros \union {Null}]]
  /\ gate \in [Coros -> {"none", "open", "taken"}]
  /\ timer \in [Coros -> BOOLEAN]
  /\ st \in [Coros -> {"body", "prepared", "awaiting", "runnable", "relook", "done"}]
  /\ sus \in [Coros -> SusPoints]
  /\ awaits \in [Coros -> Nat]
  /\ wakes \in [Coros -> Nat]
  /\ missed \in [Coros -> BOOLEAN]
  /\ wk \in [Actors -> CallType]

\* c is not yet in list l, into which the suspend_impl that runs may put it.
ToCome(c, l) ==
  \/ sus[c] \in {"arm", "add", "ready second"}
  \/ sus[c] = "add second" /\ l = Receivers(Second)

\* c has been found fresh, and has not gone on to its await.
Aside(c) == st[c] = "prepared" \/ sus[c] = "ready second"

\* Nobody has c in a list, a timer or a hand.
Fresh(c) ==
  /\ \A l \in Lists : c \notin Chain(l)
  /\ ~timer[c]
  /\ \A a \in Actors : wk[a].node # c
  /\ st[c] \in {"body", "done", "prepared"}
  /\ sus[c] \in {"none", "ready second"}

\* Who may schedule c finds it suspended.
GateInv(c) ==
  /\ wakes[c] <= awaits[c]
  /\ st[c] = "awaiting" => wakes[c] < awaits[c] /\ gate[c] # "taken"
  /\ gate[c] = "open" => st[c] = "awaiting"
  /\ timer[c] \/ sus[c] \in {"arm", "add second", "gate"} => gate[c] # "none"
  /\ sus[c] = "add" /\ gate[c] = "none" => st[c] = "awaiting"
  /\ Aside(c) => Fresh(c)

\* Where its node is.
NodeInv(c) ==
  /\ \A l \in Lists : ToCome(c, l) => c \notin Chain(l)
  /\ \A l \in Lists : c \in Chain(l) /\ gate[c] = "none" =>
       /\ st[c] = "awaiting"
       /\ \A k \in Lists : c \in Chain(k) => k = l

\* What a waker has in its hands.
CallInv(a) ==
  /\ wk[a].at # "idle" => wk[a].todo # <<>>
  /\ wk[a].at = "cas" =>
       /\ wk[a].node # Null
       /\ wk[a].nx = next[Head(wk[a].todo)][wk[a].node]
       /\ ~ToCome(wk[a].node, Head(wk[a].todo))

\* A suspended coroutine is in its lists; uses[c] are those.
LinkedIn(uses) ==
  \A c \in Coros : \A l \in uses[c] :
    st[c] = "awaiting" /\ ~ToCome(c, l) => c \in Chain(l)

\* What is inductive of the lists, the gates and the wakers.
WaitersInv ==
  /\ WaitersType /\ ListsInv
  /\ \A c \in Coros : GateInv(c)
  /\ \A c \in Coros : NodeInv(c)
  /\ \A a \in Actors : CallInv(a)

-----------------------------------------------------------------------------
(* Lists.                                                                  *)

\* A set of numbers has a least one.
LEMMA LeastNumber ==
  ASSUME NEW S \in SUBSET Nat, S # {}
  PROVE  \E x \in S : \A y \in S : x <= y
<1>1. PICK x \in S : \A y \in S : ~(<<y, x>> \in OpToRel(<, Nat))
  BY NatLessThanWellFounded, WFMin
<1>2. \A y \in S : x <= y
  <2> TAKE y \in S
  <2>1. ~(y < x)
    BY <1>1 DEF OpToRel
  <2> QED
    BY <2>1
<1> QED
  BY <1>2

\* A spine is not longer than there are coroutines.
LEMMA SpineLength ==
  ASSUME NEW s \in Seq(Coros), \A i, j \in DOMAIN s : s[i] = s[j] => i = j
  PROVE  Len(s) <= Cardinality(Coros) /\ Cardinality(Coros) \in Nat
<1>1. Cardinality(Coros) \in Nat
  BY CorosAssumption, FS_CardinalityType
<1>2. s \in [1 .. Len(s) -> Coros] /\ Len(s) \in Nat /\ DOMAIN s = 1 .. Len(s)
  BY LenProperties
<1>3. s \in Injection(1 .. Len(s), Coros)
  BY <1>2 DEF Injection, IsInjective
<1>4. IsFiniteSet(1 .. Len(s)) /\ Cardinality(1 .. Len(s)) = Len(s)
  <2>1. 1 \in Int /\ Len(s) \in Int /\ (IF 1 > Len(s) THEN 0 ELSE Len(s) - 1 + 1) = Len(s)
    BY <1>2, SMT
  <2> QED
    BY <2>1, FS_Interval
<1>5. Cardinality(1 .. Len(s)) <= Cardinality(Coros)
  BY <1>3, CorosAssumption, FS_Injection
<1> QED
  BY <1>1, <1>4, <1>5

\* Whoever walks along a list finds the nodes of its spine.
LEMMA ChainIs ==
  \A l \in Lists : \A s \in Seq(Coros) :
    WaitersType /\ Spine(s, head[l], next[l]) => Chain(l) = Members(s)
<1> SUFFICES ASSUME NEW l \in Lists, NEW s \in Seq(Coros),
                    WaitersType, Spine(s, head[l], next[l])
             PROVE  Chain(l) = Members(s)
  OBVIOUS
<1> DEFINE N == Cardinality(Coros)
           h == head[l]
           nx == next[l]
           reach[i \in 0 .. N] ==
             IF i = 0 THEN {h}
             ELSE reach[i - 1] \union {nx[c] : c \in reach[i - 1] \ {Null}}
           body(f, i) == IF i = 0 THEN {h}
                         ELSE f[i - 1] \union {nx[c] : c \in f[i - 1] \ {Null}}
           got == [i \in 0 .. N |-> {s[j] : j \in {k \in DOMAIN s : k <= i + 1}}
                                      \union (IF i >= Len(s) THEN {Null} ELSE {})]
<1>1. Chain(l) = reach[N] \ {Null}
  BY DEF Chain, ChainFrom
<1>2. Len(s) <= N /\ N \in Nat /\ Len(s) \in Nat /\ DOMAIN s = 1 .. Len(s)
  BY SpineLength, LenProperties DEF Spine
<1>3. \A i \in DOMAIN s : s[i] \in Coros /\ s[i] # Null
  BY <1>2, NamesAssumption, ElementOfSeq
<1>4. got = [i \in 0 .. N |-> body(got, i)]
  <2> SUFFICES ASSUME NEW i \in 0 .. N PROVE got[i] = body(got, i)
    BY Zenon
  <2>1. CASE i = 0
    <3>1. CASE s = <<>>
      BY <1>2, <2>1, <3>1, SMT DEF Spine
    <3>2. CASE s # <<>>
      <4>1. Len(s) >= 1 /\ {k \in DOMAIN s : k <= i + 1} = {1}
        BY <1>2, <2>1, <3>2, EmptySeq, SMT
      <4>2. got[i] = {s[1]}
        BY <2>1, <4>1, <1>2, SMT
      <4> QED
        BY <2>1, <3>2, <4>2 DEF Spine
    <3> QED
      BY <3>1, <3>2
  <2>2. CASE i # 0
    <3>1. i - 1 \in 0 .. N /\ i \in Nat
      BY <1>2, <2>2, SMT
    <3>2. ASSUME NEW c \in got[i - 1] \ {Null} PROVE nx[c] \in got[i]
      <4>1. PICK j \in DOMAIN s : j <= i - 1 + 1 /\ c = s[j]
        BY <3>1, <3>2
      <4>2. CASE j = Len(s)
        BY <1>2, <3>1, <4>1, <4>2, SMT DEF Spine
      <4>3. CASE j # Len(s)
        <5>1. j + 1 \in DOMAIN s /\ j + 1 <= i + 1
          BY <1>2, <3>1, <4>1, <4>3, SMT
        <5> QED
          BY <4>1, <4>3, <5>1 DEF Spine
      <4> QED
        BY <4>2, <4>3
    <3>3. got[i - 1] \subseteq got[i]
      BY <1>2, <3>1, SMT
    <3>4. ASSUME NEW e \in got[i], e \notin got[i - 1]
          PROVE  e \in {nx[c] : c \in got[i - 1] \ {Null}}
      <4>1. CASE e = Null
        <5>1. i >= Len(s) /\ ~(i - 1 >= Len(s))
          BY <1>3, <3>1, <3>4, <4>1, SMT
        <5>2. i = Len(s) /\ i \in DOMAIN s /\ i <= i - 1 + 1
          <6>1. i \in Nat /\ Len(s) \in Nat /\ i # 0
            BY <1>2, <2>2, <3>1
          <6>2. i = Len(s) /\ i \in 1 .. Len(s) /\ i <= i - 1 + 1
            BY <5>1, <6>1, SMT
          <6> QED
            BY <1>2, <6>2
        <5>3. s[i] \in got[i - 1] /\ s[i] # Null
          BY <1>3, <3>1, <5>2
        <5>4. nx[s[i]] = Null
          BY <5>2 DEF Spine
        <5> QED
          BY <4>1, <5>3, <5>4
      <4>2. CASE e # Null
        <5>1. PICK j \in DOMAIN s : j <= i + 1 /\ e = s[j]
          BY <3>4, <4>2
        <5>2. ~(j <= i - 1 + 1)
          BY <3>1, <3>4, <5>1
        <5>3. j = i + 1 /\ i \in DOMAIN s /\ i # Len(s) /\ i <= i - 1 + 1
          <6>1. i \in Nat /\ Len(s) \in Nat /\ i # 0 /\ j \in 1 .. Len(s) /\ j <= i + 1
            BY <1>2, <2>2, <3>1, <5>1
          <6>2. j = i + 1 /\ i \in 1 .. Len(s) /\ i # Len(s) /\ i <= i - 1 + 1
            BY <5>2, <6>1, SMT
          <6> QED
            BY <1>2, <6>2
        <5>4. nx[s[i]] = s[i + 1]
          BY <5>3 DEF Spine
        <5>5. s[i] \in got[i - 1] \ {Null}
          BY <1>3, <3>1, <5>3
        <5> QED
          BY <5>1, <5>3, <5>4, <5>5
      <4> QED
        BY <4>1, <4>2
    <3> HIDE DEF got
    <3>5. got[i] = got[i - 1] \union {nx[c] : c \in got[i - 1] \ {Null}}
      BY <3>2, <3>3, <3>4
    <3> QED
      BY <2>2, <3>5
  <2> QED
    BY <2>1, <2>2
<1>5. reach = [i \in 0 .. N |-> body(reach, i)]
  <2> HIDE DEF got
  <2>1. \E f : f = [i \in 0 .. N |-> body(f, i)]
    BY <1>4
  <2> QED
    BY <2>1 DEF reach
<1> HIDE DEF reach
<1>6. \A i \in 0 .. N : reach[i] = got[i]
  <2> DEFINE bad == {i \in 0 .. N : reach[i] # got[i]}
  <2> HIDE DEF got
  <2> SUFFICES ASSUME bad # {} PROVE FALSE
    OBVIOUS
  <2>1. bad \in SUBSET Nat
    BY <1>2, SMT
  <2>2. PICK i \in bad : \A j \in bad : i <= j
    BY <2>1, LeastNumber
  <2>3. CASE i = 0
    BY <1>4, <1>5, <2>2, <2>3
  <2>4. CASE i # 0
    <3>1. i \in 0 .. N /\ i - 1 \in 0 .. N /\ ~(i <= i - 1)
      BY <1>2, <2>2, <2>4, SMT
    <3>2. reach[i - 1] = got[i - 1]
      BY <2>2, <3>1
    <3>3. reach[i] = body(reach, i) /\ got[i] = body(got, i)
      BY <1>4, <1>5, <3>1, Zenon
    <3> QED
      BY <2>2, <2>4, <3>2, <3>3
  <2> QED
    BY <2>3, <2>4
<1>7. got[N] \ {Null} = Members(s)
  <2>1. {k \in DOMAIN s : k <= N + 1} = DOMAIN s /\ N \in 0 .. N
    BY <1>2, SMT
  <2> QED
    BY <1>3, <2>1 DEF Members
<1> HIDE DEF got
<1> QED
  BY <1>1, <1>2, <1>6, <1>7, SMT

\* The same after a step.
LEMMA ChainIsAfter ==
  \A l \in Lists : \A s \in Seq(Coros) :
    WaitersType' /\ Spine(s, head'[l], next'[l]) => Chain(l)' = Members(s)
<1>1. (\A l \in Lists : \A s \in Seq(Coros) :
         WaitersType /\ Spine(s, head[l], next[l]) => Chain(l) = Members(s))'
  BY ChainIs, PTL
<1> QED
  BY <1>1

\* A node that is pushed becomes the first.
LEMMA SpinePush ==
  ASSUME NEW nx \in [Coros -> Coros \union {Null}], NEW h, NEW s, Spine(s, h, nx),
         NEW c \in Coros, c \notin Members(s)
  PROVE  /\ Spine(<<c>> \o s, c, [nx EXCEPT ![c] = h])
         /\ Members(<<c>> \o s) = Members(s) \union {c}
<1> DEFINE t == <<c>> \o s
           n2 == [nx EXCEPT ![c] = h]
<1>1. s \in Seq(Coros) /\ Len(s) \in Nat /\ DOMAIN s = 1 .. Len(s)
  BY LenProperties DEF Spine
<1>2. t \in Seq(Coros) /\ Len(t) = Len(s) + 1 /\ t # <<>> /\ t[1] = c
  BY <1>1, SMT
<1>3. \A i \in DOMAIN s : i + 1 \in DOMAIN t /\ t[i + 1] = s[i]
  BY <1>1, SMT
<1>4. \A i \in DOMAIN t : i = 1 \/ (i - 1 \in DOMAIN s /\ t[i] = s[i - 1] /\ i - 1 + 1 = i)
  BY <1>1, SMT
<1>5. \A i \in DOMAIN s : s[i] # c
  BY DEF Members
<1>6. 1 \in DOMAIN t /\ DOMAIN t = 1 .. Len(t)
  BY <1>1, <1>2, SMT
<1> HIDE DEF t
<1>7. \A i, j \in DOMAIN t : t[i] = t[j] => i = j
  BY <1>1, <1>2, <1>4, <1>5, SMT DEF Spine
<1>8. \A i \in DOMAIN t : n2[t[i]] = IF i = Len(t) THEN Null ELSE t[i + 1]
  <2> SUFFICES ASSUME NEW i \in DOMAIN t
               PROVE  n2[t[i]] = IF i = Len(t) THEN Null ELSE t[i + 1]
    OBVIOUS
  <2>1. CASE i = 1
    <3>1. n2[t[i]] = h
      BY <1>2, <2>1
    <3>2. CASE s = <<>>
      <4>1. Len(s) = 0
        BY <3>2
      <4>2. i = Len(t)
        BY <1>2, <2>1, <4>1, SMT
      <4> QED
        BY <3>1, <3>2, <4>2 DEF Spine
    <3>3. CASE s # <<>>
      <4>1. 1 \in DOMAIN s
        BY <1>1, <3>3, EmptySeq, SMT
      <4>2. t[1 + 1] = s[1]
        BY <1>3, <4>1
      <4>3. i # Len(t)
        BY <1>1, <1>2, <2>1, <4>1, SMT
      <4> QED
        BY <2>1, <3>1, <3>3, <4>2, <4>3 DEF Spine
    <3> QED
      BY <3>2, <3>3
  <2>2. CASE i # 1
    <3>1. i - 1 \in DOMAIN s /\ t[i] = s[i - 1] /\ i - 1 + 1 = i
      BY <1>4, <2>2
    <3>2. s[i - 1] \in Coros /\ s[i - 1] # c
      BY <1>1, <1>5, <3>1, ElementOfSeq
    <3>3. n2[t[i]] = nx[s[i - 1]]
      BY <3>1, <3>2
    <3>4. nx[s[i - 1]] = IF i - 1 = Len(s) THEN Null ELSE s[i]
      BY <3>1 DEF Spine
    <3>5. i - 1 = Len(s) <=> i = Len(t)
      BY <1>1, <1>2, <1>6, SMT
    <3>6. i # Len(t) => i \in DOMAIN s
      BY <1>1, <1>2, <1>6, <3>1, SMT
    <3> QED
      BY <1>3, <3>3, <3>4, <3>5, <3>6
  <2> QED
    BY <2>1, <2>2
<1>9. Members(t) = Members(s) \union {c}
  BY <1>2, <1>3, <1>4, <1>6 DEF Members
<1> QED
  BY <1>2, <1>7, <1>8, <1>9 DEF Spine, t

\* Once the first is popped the others are left.
LEMMA SpinePop ==
  ASSUME NEW nx, NEW h, NEW s, Spine(s, h, nx), h # Null
  PROVE  /\ h \in Members(s)
         /\ Spine(Tail(s), nx[h], nx)
         /\ Members(Tail(s)) = Members(s) \ {h}
<1> DEFINE t == Tail(s)
<1>1. s \in Seq(Coros) /\ s # <<>> /\ h = s[1]
  BY DEF Spine
<1>2. Len(s) \in Nat \ {0} /\ DOMAIN s = 1 .. Len(s)
  BY <1>1, EmptySeq, LenProperties, SMT
<1>3. t \in Seq(Coros) /\ Len(t) = Len(s) - 1 /\ DOMAIN t = 1 .. Len(t)
  BY <1>1, <1>2, HeadTailProperties, LenProperties
<1>4. \A i \in DOMAIN t : i + 1 \in DOMAIN s /\ t[i] = s[i + 1] /\ i + 1 # 1
  BY <1>1, <1>2, <1>3, SMT
<1>5. \A i \in DOMAIN s : i = 1 \/ (i - 1 \in DOMAIN t /\ t[i - 1] = s[i])
  BY <1>1, <1>2, <1>3, SMT
<1> HIDE DEF t
<1>6. 1 \in DOMAIN s
  BY <1>2, SMT
<1>7. \A i, j \in DOMAIN s : s[i] = s[j] => i = j
  BY DEF Spine
<1>8. \A i, j \in DOMAIN t : t[i] = t[j] => i = j
  <2> SUFFICES ASSUME NEW i \in DOMAIN t, NEW j \in DOMAIN t, t[i] = t[j] PROVE i = j
    OBVIOUS
  <2>1. i + 1 = j + 1
    BY <1>4, <1>7
  <2> QED
    BY <1>2, <1>3, <2>1, SMT
<1>9. nx[h] = IF t = <<>> THEN Null ELSE t[1]
  <2>1. nx[h] = IF 1 = Len(s) THEN Null ELSE s[1 + 1]
    BY <1>1, <1>6 DEF Spine
  <2>2. CASE t = <<>>
    <3>1. Len(t) = 0
      BY <2>2
    <3>2. Len(s) \in Nat /\ Len(s) - 1 = 0
      BY <1>2, <1>3, <3>1
    <3>3. 1 = Len(s)
      BY <3>2, SMT
    <3> QED
      BY <2>1, <2>2, <3>3
  <2>3. CASE t # <<>>
    <3>1. 1 \in DOMAIN t /\ 1 # Len(s)
      <4>1. Len(t) # 0
        BY <1>3, <2>3, EmptySeq
      <4> QED
        BY <1>2, <1>3, <4>1, SMT
    <3> QED
      BY <1>4, <2>1, <2>3, <3>1
  <2> QED
    BY <2>2, <2>3
<1>10. \A i \in DOMAIN t : nx[t[i]] = IF i = Len(t) THEN Null ELSE t[i + 1]
  <2> SUFFICES ASSUME NEW i \in DOMAIN t
               PROVE  nx[t[i]] = IF i = Len(t) THEN Null ELSE t[i + 1]
    OBVIOUS
  <2>1. nx[t[i]] = IF i + 1 = Len(s) THEN Null ELSE s[i + 1 + 1]
    BY <1>4 DEF Spine
  <2>2. i + 1 = Len(s) <=> i = Len(t)
    BY <1>2, <1>3, SMT
  <2>3. i # Len(t) => i + 1 \in DOMAIN t
    BY <1>2, <1>3, SMT
  <2> QED
    BY <1>4, <2>1, <2>2, <2>3
<1>11. Members(t) = Members(s) \ {h}
  <2>1. \A i \in DOMAIN t : t[i] # h
    BY <1>1, <1>4, <1>6, <1>7
  <2> QED
    BY <1>1, <1>4, <1>5, <2>1 DEF Members
<1>12. h \in Members(s)
  BY <1>1, <1>6 DEF Members
<1> QED
  BY <1>3, <1>8, <1>9, <1>10, <1>11, <1>12 DEF Spine, t

-----------------------------------------------------------------------------
(* What becomes of a chain.                                                *)

\* Its nodes are coroutines, and the first is one of them.
LEMMA ChainFacts ==
  ASSUME WaitersType, ListsInv, NEW l \in Lists
  PROVE  /\ Chain(l) \subseteq Coros
         /\ head[l] # Null => head[l] \in Chain(l)
         /\ head[l] = Null => Chain(l) = {}
<1>1. PICK s \in Seq(Coros) : Spine(s, head[l], next[l])
  BY DEF ListsInv
<1>2. Chain(l) = Members(s)
  BY <1>1, ChainIs
<1>3. Members(s) \subseteq Coros
  BY ElementOfSeq DEF Members
<1>4. head[l] # Null => head[l] \in Members(s)
  BY <1>1, SpinePop
<1>5. head[l] = Null => Members(s) = {}
  <2> SUFFICES ASSUME head[l] = Null, s # <<>> PROVE FALSE
    BY DEF Members
  <2>1. s[1] = Null /\ 1 \in DOMAIN s
    BY <1>1, EmptySeq, LenProperties, SMT DEF Spine
  <2> QED
    BY <2>1, ElementOfSeq, NamesAssumption
<1> QED
  BY <1>2, <1>3, <1>4, <1>5

\* A list that nobody touches.
LEMMA ChainKept ==
  ASSUME WaitersType, WaitersType', ListsInv, NEW l \in Lists,
         head'[l] = head[l], next'[l] = next[l]
  PROVE  Chain(l)' = Chain(l) /\ \E s \in Seq(Coros) : Spine(s, head'[l], next'[l])
<1>1. PICK s \in Seq(Coros) : Spine(s, head[l], next[l])
  BY DEF ListsInv
<1>2. Spine(s, head'[l], next'[l])
  BY <1>1
<1> QED
  BY <1>1, <1>2, ChainIs, ChainIsAfter

\* add_waiter puts one node there, if it is not.
LEMMA Pushed ==
  ASSUME WaitersType, WaitersType', ListsInv, NEW c \in Coros, NEW l \in Lists,
         AddWaiter(c, l), c \notin Chain(l)
  PROVE  /\ ListsInv'
         /\ Chain(l)' = Chain(l) \union {c}
         /\ \A k \in Lists : k # l => Chain(k)' = Chain(k)
<1>1. /\ head' = [head EXCEPT ![l] = c] /\ next' = [next EXCEPT ![l][c] = head[l]]
      /\ next[l] \in [Coros -> Coros \union {Null}]
  BY DEF AddWaiter, WaitersType
<1>2. head'[l] = c /\ next'[l] = [next[l] EXCEPT ![c] = head[l]]
  BY <1>1 DEF WaitersType
<1>3. \A k \in Lists : k # l => head'[k] = head[k] /\ next'[k] = next[k]
  BY <1>1 DEF WaitersType
<1>4. PICK s \in Seq(Coros) : Spine(s, head[l], next[l])
  BY DEF ListsInv
<1>5. Chain(l) = Members(s)
  BY <1>4, ChainIs
<1>6. PICK t : t = <<c>> \o s
  OBVIOUS
<1>7. Spine(t, head'[l], next'[l]) /\ Members(t) = Chain(l) \union {c}
  BY <1>1, <1>2, <1>4, <1>5, <1>6, SpinePush
<1>8. t \in Seq(Coros)
  BY <1>7 DEF Spine
<1>9. Chain(l)' = Chain(l) \union {c}
  BY <1>7, <1>8, ChainIsAfter
<1> QED
  BY <1>3, <1>7, <1>8, <1>9, ChainKept DEF ListsInv

\* The compare-exchange of wake_one takes the first away.
LEMMA Popped ==
  ASSUME WaitersType, WaitersType', ListsInv, NEW l \in Lists, head[l] # Null,
         head' = [head EXCEPT ![l] = next[l][head[l]]], next' = next
  PROVE  /\ ListsInv'
         /\ Chain(l)' = Chain(l) \ {head[l]}
         /\ \A k \in Lists : k # l => Chain(k)' = Chain(k)
<1>1. head'[l] = next[l][head[l]] /\ \A k \in Lists : k # l => head'[k] = head[k]
  BY DEF WaitersType
<1>2. PICK s \in Seq(Coros) : Spine(s, head[l], next[l])
  BY DEF ListsInv
<1>3. Chain(l) = Members(s)
  BY <1>2, ChainIs
<1>4. PICK t : t = Tail(s)
  OBVIOUS
<1>5. Spine(t, head'[l], next'[l]) /\ Members(t) = Chain(l) \ {head[l]}
  BY <1>1, <1>2, <1>3, <1>4, SpinePop
<1>6. t \in Seq(Coros)
  BY <1>5 DEF Spine
<1>7. Chain(l)' = Chain(l) \ {head[l]}
  BY <1>5, <1>6, ChainIsAfter
<1> QED
  BY <1>1, <1>5, <1>6, <1>7, ChainKept DEF ListsInv

\* The exchange of wake_all takes all of them.
LEMMA Emptied ==
  ASSUME WaitersType, WaitersType', ListsInv, NEW l \in Lists,
         head' = [head EXCEPT ![l] = Null], next' = next
  PROVE  /\ ListsInv'
         /\ Chain(l)' = {}
         /\ \A k \in Lists : k # l => Chain(k)' = Chain(k)
<1>1. head'[l] = Null /\ \A k \in Lists : k # l => head'[k] = head[k]
  BY DEF WaitersType
<1>2. PICK s : s = <<>>
  OBVIOUS
<1>3. s \in Seq(Coros) /\ Members(s) = {} /\ \A i \in DOMAIN s : FALSE
  BY <1>2 DEF Members
<1>4. Spine(s, head'[l], next'[l])
  BY <1>1, <1>2, <1>3 DEF Spine
<1>5. Chain(l)' = {}
  BY <1>3, <1>4, ChainIsAfter
<1> QED
  BY <1>1, <1>3, <1>4, <1>5, ChainKept DEF ListsInv

-----------------------------------------------------------------------------
(* One step of whoever is at the lists, the gates or the coroutines.       *)

\* The same, and that whoever waits is in the lists that it uses.
Waiting(uses) == WaitersInv /\ LinkedIn(uses) /\ uses \in [Coros -> SUBSET Lists]

\* Nothing of d changes.
Same(d) == /\ gate'[d] = gate[d] /\ timer'[d] = timer[d] /\ st'[d] = st[d]
           /\ sus'[d] = sus[d] /\ awaits'[d] = awaits[d] /\ wakes'[d] = wakes[d]

\* A step that moves the coroutines of cs leaves the others where they are.
LEMMA Moves ==
  ASSUME NEW CONSTANT uses, Waiting(uses), WaitersType', ListsInv', NEW cs \in SUBSET Coros,
         \A d \in Coros \ cs : Same(d),
         \A l \in Lists : \A d \in Coros \ cs : d \in Chain(l)' <=> d \in Chain(l),
         \A l \in Lists : \A d \in Coros : ToCome(d, l) \/ next'[l][d] = next[l][d],
         \A a \in Actors : \/ wk'[a] = wk[a]
                           \/ /\ CallInv(a)'
                              /\ \/ wk'[a].node = Null
                                 \/ \E l \in Lists : wk'[a].node \in Chain(l),
         \A c \in cs : GateInv(c)' /\ NodeInv(c)',
         \A c \in cs : \A l \in Lists :
           ToCome(c, l)' => ToCome(c, l) \/ \A a \in Actors : wk[a].node # c,
         \A c \in cs : \A l \in uses[c] :
           st'[c] = "awaiting" /\ ~ToCome(c, l)' => c \in Chain(l)'
  PROVE  Waiting(uses)'
<1> USE DEF Waiting
<1>1. \A d \in Coros \ cs : \A l \in Lists : ToCome(d, l)' <=> ToCome(d, l)
  BY DEF Same, ToCome
<1>2. \A d \in Coros \ cs : GateInv(d)'
  <2> SUFFICES ASSUME NEW d \in Coros \ cs PROVE GateInv(d)'
    OBVIOUS
  <2>1. GateInv(d) /\ Same(d)
    BY DEF WaitersInv
  <2>2. Aside(d)' => Fresh(d)
    BY <2>1 DEF GateInv, Aside, Same
  <2>3. Fresh(d) => Fresh(d)'
    <3> SUFFICES ASSUME Fresh(d) PROVE Fresh(d)'
      OBVIOUS
    <3>1. \A l \in Lists : d \notin Chain(l)'
      BY DEF Fresh
    <3>2. \A a \in Actors : wk'[a].node # d
      <4> SUFFICES ASSUME NEW a \in Actors PROVE wk'[a].node # d
        OBVIOUS
      <4>1. CASE wk'[a] = wk[a]
        BY <4>1 DEF Fresh
      <4>2. CASE wk'[a].node = Null
        BY <4>2, NamesAssumption
      <4>3. CASE \E l \in Lists : wk'[a].node \in Chain(l)
        BY <4>3 DEF Fresh
      <4> QED
        BY <4>1, <4>2, <4>3
    <3> QED
      BY <2>1, <3>1, <3>2 DEF Fresh, Same
  <2> QED
    BY <2>1, <2>2, <2>3 DEF GateInv, Same
<1>3. \A d \in Coros \ cs : NodeInv(d)'
  <2> SUFFICES ASSUME NEW d \in Coros \ cs PROVE NodeInv(d)'
    OBVIOUS
  <2>1. NodeInv(d) /\ Same(d)
    BY DEF WaitersInv
  <2> QED
    BY <1>1, <2>1 DEF NodeInv, Same
<1>4. \A a \in Actors : CallInv(a)'
  <2> SUFFICES ASSUME NEW a \in Actors, wk'[a] = wk[a] PROVE CallInv(a)'
    OBVIOUS
  <2>1. CallInv(a) /\ wk[a] \in CallType
    BY DEF WaitersInv, WaitersType
  <2>2. ASSUME wk[a].at = "cas"
        PROVE  /\ next'[Head(wk[a].todo)][wk[a].node] = next[Head(wk[a].todo)][wk[a].node]
               /\ ~ToCome(wk[a].node, Head(wk[a].todo))'
    <3>1. PICK n, l : n = wk[a].node /\ l = Head(wk[a].todo)
      OBVIOUS
    <3>2. wk[a].todo \in Seq(Lists) /\ wk[a].todo # <<>> /\ n \in Coros
      BY <2>1, <2>2, <3>1 DEF CallInv, CallType
    <3>3. l \in Lists
      BY <3>1, <3>2, HeadTailProperties
    <3>4. ~ToCome(n, l)
      BY <2>1, <2>2, <3>1 DEF CallInv
    <3>5. next'[l][n] = next[l][n]
      BY <3>2, <3>3, <3>4
    <3>6. ~ToCome(n, l)'
      BY <1>1, <3>1, <3>2, <3>3, <3>4
    <3>7. n = wk'[a].node /\ l = Head(wk'[a].todo)
      BY <3>1
    <3>8. ToCome(wk[a].node, Head(wk[a].todo))' <=> ToCome(n, l)'
      BY <3>7 DEF ToCome
    <3> QED
      BY <3>1, <3>5, <3>6, <3>8
  <2> QED
    BY <2>1, <2>2 DEF CallInv
<1>5. LinkedIn(uses)'
  <2> SUFFICES ASSUME NEW d \in Coros, NEW l \in uses[d],
                      st'[d] = "awaiting", ~ToCome(d, l)'
               PROVE  d \in Chain(l)'
    BY DEF LinkedIn
  <2>1. CASE d \in cs
    BY <2>1
  <2>2. CASE d \notin cs
    <3>1. l \in Lists
      OBVIOUS
    <3>2. st[d] = "awaiting" /\ ~ToCome(d, l)
      BY <1>1, <2>2, <3>1 DEF Same
    <3> QED
      BY <2>2, <3>1, <3>2 DEF LinkedIn
  <2> QED
    BY <2>1, <2>2
<1> QED
  BY <1>2, <1>3, <1>4, <1>5 DEF WaitersInv

\* A step that moves one coroutine, and no list.
LEMMA OneMoves ==
  ASSUME NEW CONSTANT uses, Waiting(uses), WaitersType', NEW c \in Coros,
         UNCHANGED listVars,
         \A d \in Coros : d # c => Same(d),
         \A a \in Actors : \/ wk'[a] = wk[a]
                           \/ CallInv(a)' /\ wk'[a].node = Null,
         GateInv(c)',
         \A l \in Lists : c \in Chain(l) /\ gate'[c] = "none" =>
           st'[c] = "awaiting" /\ gate[c] = "none",
         \A l \in Lists : ToCome(c, l)' =>
           ToCome(c, l) \/ (c \notin Chain(l) /\ \A a \in Actors : wk[a].node # c),
         st'[c] = "awaiting" => \A l \in Lists :
           ToCome(c, l)' \/ (st[c] = "awaiting" /\ ~ToCome(c, l))
  PROVE  Waiting(uses)'
<1> USE DEF Waiting
<1>1. head' = head /\ next' = next
  BY DEF listVars
<1>2. WaitersType /\ ListsInv /\ NodeInv(c)
  BY DEF WaitersInv
<1>3. \A l \in Lists : Chain(l)' = Chain(l) /\ \E s \in Seq(Coros) : Spine(s, head'[l], next'[l])
  BY <1>1, <1>2, ChainKept
<1>4. ListsInv'
  BY <1>3 DEF ListsInv
<1>5. NodeInv(c)'
  <2>1. \A l \in Lists : ToCome(c, l)' => c \notin Chain(l)'
    BY <1>2, <1>3 DEF NodeInv
  <2>2. ASSUME NEW l \in Lists, c \in Chain(l)', gate'[c] = "none"
        PROVE  st'[c] = "awaiting" /\ \A k \in Lists : c \in Chain(k)' => k = l
    BY <1>2, <1>3, <2>2 DEF NodeInv
  <2> QED
    BY <2>1, <2>2 DEF NodeInv
<1>6. ASSUME NEW l \in uses[c], st'[c] = "awaiting", ~ToCome(c, l)' PROVE c \in Chain(l)'
  <2>1. l \in Lists
    OBVIOUS
  <2>2. st[c] = "awaiting" /\ ~ToCome(c, l)
    BY <1>6, <2>1
  <2>3. c \in Chain(l)
    BY <2>2 DEF LinkedIn
  <2> QED
    BY <1>3, <2>1, <2>3
<1> DEFINE cs == {c}
<1>7. /\ \A d \in Coros \ cs : Same(d)
      /\ \A l \in Lists : \A d \in Coros \ cs : d \in Chain(l)' <=> d \in Chain(l)
      /\ \A l \in Lists : \A d \in Coros : ToCome(d, l) \/ next'[l][d] = next[l][d]
  BY <1>1, <1>3
<1>8. \A x \in cs : \A l \in Lists :
        ToCome(x, l)' => ToCome(x, l) \/ \A a \in Actors : wk[a].node # x
  OBVIOUS
<1>9. \A x \in cs : GateInv(x)' /\ NodeInv(x)'
  BY <1>5
<1>10. \A x \in cs : \A l \in uses[x] : st'[x] = "awaiting" /\ ~ToCome(x, l)' => x \in Chain(l)'
  BY <1>6
<1>11. cs \in SUBSET Coros
  OBVIOUS
<1> HIDE DEF cs
<1> QED
  BY <1>4, <1>7, <1>8, <1>9, <1>10, <1>11, Moves

\* Who may await.
LEMMA MayAwaitFacts ==
  ASSUME WaitersInv, NEW c \in Coros, FreshNode(c), st[c] \in {"body", "done", "prepared"}
  PROVE  Fresh(c)
BY DEF FreshNode, Fresh, Linked

\* A fresh coroutine is in no list and nobody has its gate open.
LEMMA FreshFacts ==
  ASSUME WaitersInv, NEW c \in Coros, Fresh(c)
  PROVE  /\ gate[c] # "open" /\ wakes[c] <= awaits[c]
         /\ st[c] # "awaiting" /\ ~timer[c]
         /\ \A l \in Lists : c \notin Chain(l)
         /\ \A a \in Actors : wk[a].node # c
BY DEF WaitersInv, GateInv, Fresh

\* A coroutine goes on without being suspended.
LEMMA GoOnStep ==
  ASSUME NEW CONSTANT uses, Waiting(uses), NEW c \in Coros, Fresh(c), GoOn(c)
  PROVE  Waiting(uses)'
<1>1. WaitersInv /\ WaitersType
  BY DEF Waiting, WaitersInv
<1>2. /\ st' = [st EXCEPT ![c] = "runnable"] /\ sus' = [sus EXCEPT ![c] = "none"]
      /\ awaits' = [awaits EXCEPT ![c] = @ + 1] /\ wakes' = [wakes EXCEPT ![c] = @ + 1]
      /\ head' = head /\ next' = next /\ gate' = gate /\ timer' = timer
      /\ missed' = missed /\ wk' = wk
  BY DEF GoOn, listVars
<1>3. awaits[c] \in Nat /\ wakes[c] \in Nat
  BY <1>1 DEF WaitersType
<1>4. awaits[c] + 1 \in Nat /\ wakes[c] + 1 \in Nat
      /\ (wakes[c] <= awaits[c] => wakes[c] + 1 <= awaits[c] + 1)
  BY <1>3, SMT
<1>5. WaitersType'
  BY <1>1, <1>2, <1>4 DEF WaitersType, SusPoints
<1>6. \A d \in Coros : d # c => Same(d)
  BY <1>1, <1>2 DEF WaitersType, Same
<1>7. /\ st'[c] = "runnable" /\ sus'[c] = "none" /\ wakes'[c] = wakes[c] + 1
      /\ awaits'[c] = awaits[c] + 1 /\ gate'[c] = gate[c] /\ timer'[c] = timer[c]
  BY <1>1, <1>2 DEF WaitersType
<1>8. GateInv(c)'
  BY <1>1, <1>4, <1>7, FreshFacts DEF GateInv, Aside
<1>9. \A l \in Lists : ~ToCome(c, l)'
  BY <1>7 DEF ToCome
<1> QED
  BY <1>1, <1>2, <1>5, <1>6, <1>7, <1>8, <1>9, FreshFacts, OneMoves DEF listVars

\* A coroutine is suspended.
LEMMA SuspendStep ==
  ASSUME NEW CONSTANT uses, Waiting(uses), NEW c \in Coros, Fresh(c),
         NEW k \in {"none", "open"}, NEW p \in {"arm", "add"}, p = "arm" => k = "open",
         Suspend(c, k, p)
  PROVE  Waiting(uses)'
<1>1. WaitersInv /\ WaitersType
  BY DEF Waiting, WaitersInv
<1>2. /\ st' = [st EXCEPT ![c] = "awaiting"] /\ awaits' = [awaits EXCEPT ![c] = @ + 1]
      /\ gate' = [gate EXCEPT ![c] = k] /\ sus' = [sus EXCEPT ![c] = p]
      /\ missed' = [missed EXCEPT ![c] = FALSE]
      /\ head' = head /\ next' = next /\ timer' = timer /\ wakes' = wakes /\ wk' = wk
  BY DEF Suspend, listVars
<1>3. awaits[c] \in Nat /\ wakes[c] \in Nat
  BY <1>1 DEF WaitersType
<1>4. awaits[c] + 1 \in Nat /\ (wakes[c] <= awaits[c] => wakes[c] < awaits[c] + 1)
      /\ (wakes[c] <= awaits[c] => wakes[c] <= awaits[c] + 1)
  BY <1>3, SMT
<1>5. WaitersType'
  BY <1>1, <1>2, <1>4 DEF WaitersType, SusPoints
<1>6. \A d \in Coros : d # c => Same(d)
  BY <1>1, <1>2 DEF WaitersType, Same
<1>7. /\ st'[c] = "awaiting" /\ sus'[c] = p /\ wakes'[c] = wakes[c]
      /\ awaits'[c] = awaits[c] + 1 /\ gate'[c] = k /\ timer'[c] = timer[c]
  BY <1>1, <1>2 DEF WaitersType
<1>8. GateInv(c)'
  BY <1>1, <1>4, <1>7, FreshFacts DEF GateInv, Aside
<1>9. \A l \in Lists : ToCome(c, l)'
  BY <1>7 DEF ToCome
<1> QED
  BY <1>1, <1>2, <1>5, <1>6, <1>7, <1>8, <1>9, FreshFacts, OneMoves DEF listVars

\* A fresh coroutine prepares its await, and may have coroutines to wake.
LEMMA PrepareNodeStep ==
  ASSUME NEW CONSTANT uses, Waiting(uses), NEW c \in Coros, Fresh(c), sus[c] = "none",
         st' = [st EXCEPT ![c] = "prepared"],
         UNCHANGED <<listVars, frameVars, wakes, missed>>,
         NEW call \in CallType, call.at # "cas", call.node = Null, call.todo # <<>>,
         wk' = wk \/ wk' = [wk EXCEPT ![c] = call]
  PROVE  Waiting(uses)'
<1>1. WaitersInv /\ WaitersType
  BY DEF Waiting, WaitersInv
<1>2. /\ head' = head /\ next' = next /\ gate' = gate /\ timer' = timer /\ wakes' = wakes
      /\ awaits' = awaits /\ missed' = missed /\ sus' = sus
  BY DEF listVars, frameVars
<1>3. WaitersType'
  BY <1>1, <1>2 DEF WaitersType, Actors
<1>4. \A d \in Coros : d # c => Same(d)
  BY <1>1, <1>2 DEF WaitersType, Same
<1>5. /\ st'[c] = "prepared" /\ sus'[c] = "none" /\ wakes'[c] = wakes[c]
      /\ awaits'[c] = awaits[c] /\ gate'[c] = gate[c] /\ timer'[c] = timer[c]
  BY <1>1, <1>2 DEF WaitersType
<1>6. \A a \in Actors : wk'[a] = wk[a] \/ (CallInv(a)' /\ wk'[a].node = Null)
  BY <1>1 DEF WaitersType, CallInv
<1>7. \A l \in Lists : Chain(l)' = Chain(l)
  BY <1>1, <1>2, <1>3, ChainKept DEF WaitersInv
<1>8. Fresh(c)'
  <2>1. \A a \in Actors : wk'[a].node # c
    BY <1>1, <1>6, FreshFacts, NamesAssumption
  <2> QED
    BY <1>1, <1>5, <1>7, <2>1, FreshFacts DEF Fresh
<1>9. GateInv(c)'
  BY <1>1, <1>5, <1>8, FreshFacts DEF GateInv, Fresh
<1>10. \A l \in Lists : ~ToCome(c, l)'
  BY <1>5 DEF ToCome
<1> QED
  BY <1>1, <1>2, <1>3, <1>4, <1>5, <1>6, <1>9, <1>10, FreshFacts, OneMoves DEF listVars

\* select has found its first channel empty, and comes to the second.
LEMMA AsideStep ==
  ASSUME NEW CONSTANT uses, Waiting(uses), NEW c \in Coros, Fresh(c),
         SusGoto(c, "ready second"),
         UNCHANGED <<listVars, gate, timer, st, awaits, wakes, missed, wk>>
  PROVE  Waiting(uses)'
<1>1. WaitersInv /\ WaitersType
  BY DEF Waiting, WaitersInv
<1>2. /\ head' = head /\ next' = next /\ gate' = gate /\ timer' = timer /\ wakes' = wakes
      /\ awaits' = awaits /\ missed' = missed /\ st' = st /\ wk' = wk
      /\ sus' = [sus EXCEPT ![c] = "ready second"]
  BY DEF listVars, SusGoto
<1>3. WaitersType'
  BY <1>1, <1>2 DEF WaitersType, SusPoints
<1>4. \A d \in Coros : d # c => Same(d)
  BY <1>1, <1>2 DEF WaitersType, Same
<1>5. /\ st'[c] = st[c] /\ sus'[c] = "ready second" /\ wakes'[c] = wakes[c]
      /\ awaits'[c] = awaits[c] /\ gate'[c] = gate[c] /\ timer'[c] = timer[c]
  BY <1>1, <1>2 DEF WaitersType
<1>6. \A l \in Lists : Chain(l)' = Chain(l)
  BY <1>1, <1>2, <1>3, ChainKept DEF WaitersInv
<1>7. Fresh(c)'
  BY <1>1, <1>2, <1>5, <1>6, FreshFacts DEF Fresh
<1>8. GateInv(c)'
  BY <1>1, <1>5, <1>7, FreshFacts DEF GateInv, Fresh
<1> QED
  BY <1>1, <1>2, <1>3, <1>4, <1>5, <1>8, FreshFacts, OneMoves DEF listVars

\* The timer gets the gate.
LEMMA ArmStep ==
  ASSUME NEW CONSTANT uses, Waiting(uses), NEW c \in Coros, Arm(c)
  PROVE  Waiting(uses)'
<1>1. WaitersInv /\ WaitersType /\ GateInv(c)
  BY DEF Waiting, WaitersInv
<1>2. /\ head' = head /\ next' = next /\ gate' = gate /\ wakes' = wakes
      /\ awaits' = awaits /\ missed' = missed /\ st' = st /\ wk' = wk
      /\ sus[c] = "arm" /\ sus' = [sus EXCEPT ![c] = "add"] /\ timer' = [timer EXCEPT ![c] = TRUE]
  BY DEF listVars, SusGoto, Arm
<1>3. WaitersType'
  BY <1>1, <1>2 DEF WaitersType, SusPoints
<1>4. \A d \in Coros : d # c => Same(d)
  BY <1>1, <1>2 DEF WaitersType, Same
<1>5. /\ st'[c] = st[c] /\ sus'[c] = "add" /\ wakes'[c] = wakes[c]
      /\ awaits'[c] = awaits[c] /\ gate'[c] = gate[c] /\ timer'[c]
  BY <1>1, <1>2 DEF WaitersType
<1>6. ~Aside(c) /\ ~Aside(c)'
  BY <1>1, <1>2, <1>5 DEF GateInv, Aside, Fresh
<1>7. GateInv(c)'
  BY <1>1, <1>2, <1>5, <1>6 DEF GateInv
<1>8. \A l \in Lists : ToCome(c, l) /\ ToCome(c, l)' /\ c \notin Chain(l)
  BY <1>1, <1>2, <1>5 DEF ToCome, WaitersInv, NodeInv
<1> QED
  BY <1>1, <1>2, <1>3, <1>4, <1>5, <1>7, <1>8, OneMoves DEF listVars

\* suspend_impl goes on once its node is in the list.
LEMMA SusStep ==
  ASSUME NEW CONSTANT uses, Waiting(uses), NEW c \in Coros,
         NEW p \in {"none", "gate", "check second", "sent", "unsent"}, SusGoto(c, p),
         UNCHANGED <<listVars, gate, timer, st, awaits, wakes, missed, wk>>,
         \/ /\ sus[c] \in {"check", "check second", "sent", "unsent"}
            /\ p = "gate" => gate[c] # "none"
         \/ p = "none" /\ st[c] = "done"
  PROVE  Waiting(uses)'
<1>1. WaitersInv /\ WaitersType /\ GateInv(c)
  BY DEF Waiting, WaitersInv
<1>2. /\ head' = head /\ next' = next /\ gate' = gate /\ wakes' = wakes
      /\ awaits' = awaits /\ missed' = missed /\ st' = st /\ wk' = wk /\ timer' = timer
      /\ sus' = [sus EXCEPT ![c] = p]
  BY DEF listVars, SusGoto
<1>3. WaitersType'
  BY <1>1, <1>2 DEF WaitersType, SusPoints
<1>4. \A d \in Coros : d # c => Same(d)
  BY <1>1, <1>2 DEF WaitersType, Same
<1>5. /\ st'[c] = st[c] /\ sus'[c] = p /\ wakes'[c] = wakes[c]
      /\ awaits'[c] = awaits[c] /\ gate'[c] = gate[c] /\ timer'[c] = timer[c]
  BY <1>1, <1>2 DEF WaitersType
<1>6. ~Aside(c)'
  BY <1>1, <1>5 DEF GateInv, Aside, Fresh
<1>7. GateInv(c)'
  BY <1>1, <1>5, <1>6 DEF GateInv
<1>8. \A l \in Lists : ~ToCome(c, l)' /\ (st[c] = "awaiting" => ~ToCome(c, l))
  BY <1>5 DEF ToCome
<1>9. NodeInv(c)
  BY <1>1 DEF WaitersInv
<1>10. \A l \in Lists : c \in Chain(l) /\ gate'[c] = "none" =>
         st'[c] = "awaiting" /\ gate[c] = "none"
  BY <1>5, <1>9 DEF NodeInv
<1> QED
  BY <1>1, <1>2, <1>3, <1>4, <1>5, <1>7, <1>8, <1>10, OneMoves DEF listVars

\* A coroutine is resumed, and resume_impl may look twice.
LEMMA ResumeStep ==
  ASSUME NEW CONSTANT uses, Waiting(uses), NEW c \in Coros, NEW p \in {"done", "relook"},
         st[c] \in {"runnable", "relook"}, st' = [st EXCEPT ![c] = p],
         UNCHANGED <<listVars, frameVars, wakes, missed, wk>>
  PROVE  Waiting(uses)'
<1>1. WaitersInv /\ WaitersType /\ GateInv(c) /\ NodeInv(c)
  BY DEF Waiting, WaitersInv
<1>2. /\ head' = head /\ next' = next /\ gate' = gate /\ wakes' = wakes
      /\ awaits' = awaits /\ missed' = missed /\ wk' = wk /\ timer' = timer /\ sus' = sus
  BY DEF listVars, frameVars
<1>3. WaitersType'
  BY <1>1, <1>2 DEF WaitersType
<1>4. \A d \in Coros : d # c => Same(d)
  BY <1>1, <1>2 DEF WaitersType, Same
<1>5. /\ st'[c] = p /\ sus'[c] = sus[c] /\ wakes'[c] = wakes[c]
      /\ awaits'[c] = awaits[c] /\ gate'[c] = gate[c] /\ timer'[c] = timer[c]
  BY <1>1, <1>2 DEF WaitersType
<1>6. ~Aside(c) /\ ~Aside(c)'
  BY <1>1, <1>5 DEF GateInv, Aside, Fresh
<1>7. GateInv(c)'
  BY <1>1, <1>5, <1>6 DEF GateInv
<1>8. \A l \in Lists : ToCome(c, l)' => ToCome(c, l)
  BY <1>5 DEF ToCome
<1>9. \A l \in Lists : ~(c \in Chain(l) /\ gate'[c] = "none")
  BY <1>1, <1>5 DEF NodeInv
<1> QED
  BY <1>1, <1>2, <1>3, <1>4, <1>5, <1>7, <1>8, <1>9, OneMoves DEF listVars

\* A waker begins or goes on, and no node is in its hands.
LEMMA WakerCallStep ==
  ASSUME NEW CONSTANT uses, Waiting(uses), NEW a \in Actors, NEW call \in CallType,
         call.at # "cas", call.node = Null, call.at # "idle" => call.todo # <<>>,
         wk' = [wk EXCEPT ![a] = call],
         UNCHANGED <<listVars, frameVars, st, wakes>>, missed' \in [Coros -> BOOLEAN]
  PROVE  Waiting(uses)'
<1>1. WaitersInv /\ WaitersType
  BY DEF Waiting, WaitersInv
<1>2. /\ head' = head /\ next' = next /\ gate' = gate /\ wakes' = wakes
      /\ awaits' = awaits /\ timer' = timer /\ sus' = sus /\ st' = st
  BY DEF listVars, frameVars
<1>3. WaitersType'
  BY <1>1, <1>2 DEF WaitersType
<1>4. \A l \in Lists : Chain(l)' = Chain(l) /\ \E s \in Seq(Coros) : Spine(s, head'[l], next'[l])
  BY <1>1, <1>2, <1>3, ChainKept DEF WaitersInv
<1>5. ListsInv'
  BY <1>4 DEF ListsInv
<1>6. \A x \in Actors : wk'[x] = wk[x] \/ (CallInv(x)' /\ wk'[x].node = Null)
  BY <1>1 DEF WaitersType, CallInv
<1> DEFINE cs == {}
<1>7. /\ \A d \in Coros \ cs : Same(d)
      /\ \A l \in Lists : \A d \in Coros \ cs : d \in Chain(l)' <=> d \in Chain(l)
      /\ \A l \in Lists : \A d \in Coros : ToCome(d, l) \/ next'[l][d] = next[l][d]
  BY <1>2, <1>4 DEF Same
<1>8. cs \in SUBSET Coros /\ \A x \in cs : FALSE
  OBVIOUS
<1> HIDE DEF cs
<1> QED
  BY <1>3, <1>5, <1>6, <1>7, <1>8, Moves

\* What is left of a call once its first list is done.
LEMMA FollowingFacts ==
  ASSUME WaitersType, NEW a \in Actors, wk[a].todo # <<>>
  PROVE  /\ Following(a) \in CallType
         /\ Following(a).at # "cas" /\ Following(a).node = Null
         /\ Following(a).at # "idle" => Following(a).todo # <<>>
         /\ Following(a).todo = IF Len(wk[a].todo) = 1 THEN <<>> ELSE Tail(wk[a].todo)
         /\ Following(a).at \in {wk[a].at, "load", "idle"}
         /\ Len(wk[a].todo) # 1 /\ wk[a].at = "all" => Following(a).at = "all"
<1>1. wk[a] \in CallType
  BY DEF WaitersType
<1>2. PICK todo : todo = wk[a].todo
  OBVIOUS
<1>3. todo \in Seq(Lists) /\ Len(todo) \in Nat \ {0}
  BY <1>1, <1>2, EmptySeq, LenProperties, SMT DEF CallType
<1>4. CASE Len(todo) = 1
  <2>1. Following(a) = Idle
    BY <1>2, <1>4 DEF Following
  <2>2. <<>> \in Seq(Lists)
    OBVIOUS
  <2> QED
    BY <1>2, <1>4, <2>1, <2>2 DEF Idle, CallType
<1>5. CASE Len(todo) # 1
  <2>1. Tail(todo) \in Seq(Lists) /\ Len(Tail(todo)) = Len(todo) - 1
    BY <1>2, <1>3, HeadTailProperties
  <2>2. Len(Tail(todo)) # 0
    BY <1>3, <1>5, <2>1, SMT
  <2>3. Tail(todo) # <<>>
    BY <2>1, <2>2, EmptySeq
  <2>4. Following(a) = [wk[a] EXCEPT !.todo = Tail(@), !.node = Null, !.nx = Null,
                                     !.at = IF @ = "cas" THEN "load" ELSE @]
    BY <1>2, <1>5 DEF Following
  <2>5. /\ Following(a).todo = Tail(todo) /\ Following(a).node = Null
        /\ Following(a).at = (IF wk[a].at = "cas" THEN "load" ELSE wk[a].at)
        /\ Following(a) \in CallType
    BY <1>1, <1>2, <2>1, <2>4 DEF CallType
  <2> QED
    BY <1>2, <1>5, <2>3, <2>5
<1> QED
  BY <1>4, <1>5

\* A waker looks at the first node of a list.
LEMMA HoldStep ==
  ASSUME NEW CONSTANT uses, Waiting(uses), NEW a \in Actors, wk[a].at \in {"load", "cas"},
         NEW l \in Lists, l = Head(wk[a].todo), head[l] # Null,
         wk' = [wk EXCEPT ![a] = [wk[a] EXCEPT !.at = "cas", !.node = head[l],
                                               !.nx = next[l][head[l]]]],
         UNCHANGED <<listVars, frameVars, st, wakes, missed>>
  PROVE  Waiting(uses)'
<1>1. WaitersInv /\ WaitersType /\ ListsInv /\ wk[a] \in CallType /\ wk[a].todo # <<>>
  BY DEF Waiting, WaitersInv, WaitersType, CallInv
<1>2. /\ head' = head /\ next' = next /\ gate' = gate /\ wakes' = wakes /\ missed' = missed
      /\ awaits' = awaits /\ timer' = timer /\ sus' = sus /\ st' = st
  BY DEF listVars, frameVars
<1>3. PICK n : n = head[l]
  OBVIOUS
<1>4. n \in Coros /\ n \in Chain(l) /\ next[l][n] \in Coros \union {Null}
  BY <1>1, <1>3, ChainFacts DEF WaitersType
<1>5. ~ToCome(n, l)
  BY <1>1, <1>4 DEF WaitersInv, NodeInv
<1>6. PICK w : w = [wk[a] EXCEPT !.at = "cas", !.node = n, !.nx = next[l][n]]
  OBVIOUS
<1>7. w \in CallType /\ w.at = "cas" /\ w.node = n /\ w.nx = next[l][n] /\ w.todo = wk[a].todo
  BY <1>1, <1>4, <1>6 DEF CallType
<1>8. wk' = [wk EXCEPT ![a] = w]
  BY <1>3, <1>6
<1>9. WaitersType'
  BY <1>1, <1>2, <1>7, <1>8 DEF WaitersType
<1>10. \A k \in Lists : Chain(k)' = Chain(k) /\ \E s \in Seq(Coros) : Spine(s, head'[k], next'[k])
  BY <1>1, <1>2, <1>9, ChainKept
<1>11. ListsInv'
  BY <1>10 DEF ListsInv
<1>12. wk'[a] = w /\ \A x \in Actors : x # a => wk'[x] = wk[x]
  BY <1>1, <1>8 DEF WaitersType
<1>13. CallInv(a)'
  <2>1. ~ToCome(n, l)'
    BY <1>2, <1>5 DEF ToCome
  <2>2. ToCome(wk[a].node, Head(wk[a].todo))' <=> ToCome(n, l)'
    BY <1>7, <1>12 DEF ToCome
  <2> QED
    BY <1>1, <1>2, <1>4, <1>7, <1>12, <2>1, <2>2, NamesAssumption DEF CallInv
<1> DEFINE cs == {}
<1>14. /\ \A d \in Coros \ cs : Same(d)
       /\ \A k \in Lists : \A d \in Coros \ cs : d \in Chain(k)' <=> d \in Chain(k)
       /\ \A k \in Lists : \A d \in Coros : ToCome(d, k) \/ next'[k][d] = next[k][d]
  BY <1>2, <1>10 DEF Same
<1>15. cs \in SUBSET Coros /\ \A x \in cs : FALSE
  OBVIOUS
<1>16. \A x \in Actors : \/ wk'[x] = wk[x]
                         \/ CallInv(x)' /\ \E k \in Lists : wk'[x].node \in Chain(k)
  BY <1>4, <1>7, <1>12, <1>13
<1> HIDE DEF cs
<1> QED
  BY <1>9, <1>11, <1>14, <1>15, <1>16, Moves

\* add_waiter, from a point of suspend_impl where the node is still to come.
LEMMA RegisterStep ==
  ASSUME NEW CONSTANT uses, Waiting(uses), NEW c \in Coros, NEW l \in Lists,
         NEW p \in {"none", "add second", "check"}, Register(c, l, p),
         \/ /\ sus[c] = "add"
            /\ p = "add second" => l # Receivers(Second) /\ gate[c] # "none"
            /\ \A k \in uses[c] : k = l \/ (p = "add second" /\ k = Receivers(Second))
         \/ sus[c] = "add second" /\ l = Receivers(Second) /\ p = "check"
  PROVE  Waiting(uses)'
<1>1. WaitersInv /\ WaitersType /\ ListsInv /\ GateInv(c) /\ NodeInv(c)
  BY DEF Waiting, WaitersInv
<1>2. /\ gate' = gate /\ wakes' = wakes /\ missed' = missed /\ wk' = wk
      /\ awaits' = awaits /\ timer' = timer /\ st' = st
      /\ sus' = [sus EXCEPT ![c] = p] /\ AddWaiter(c, l)
  BY DEF Register, SusGoto
<1>3. /\ next' = [next EXCEPT ![l][c] = head[l]] /\ head' = [head EXCEPT ![l] = c]
      /\ head[l] \in Coros \union {Null}
  BY <1>1, <1>2 DEF AddWaiter, WaitersType
<1>4. WaitersType'
  BY <1>1, <1>2, <1>3 DEF WaitersType, SusPoints
<1>5. ToCome(c, l) /\ c \notin Chain(l)
  BY <1>1 DEF NodeInv, ToCome
<1>6. /\ ListsInv' /\ Chain(l)' = Chain(l) \union {c}
      /\ \A k \in Lists : k # l => Chain(k)' = Chain(k)
  BY <1>1, <1>2, <1>4, <1>5, Pushed
<1>7. /\ st'[c] = st[c] /\ sus'[c] = p /\ wakes'[c] = wakes[c]
      /\ awaits'[c] = awaits[c] /\ gate'[c] = gate[c] /\ timer'[c] = timer[c]
  BY <1>1, <1>2 DEF WaitersType
<1>8. ~Aside(c) /\ ~Aside(c)'
  BY <1>1, <1>7 DEF GateInv, Aside, Fresh
<1>9. GateInv(c)'
  BY <1>1, <1>7, <1>8 DEF GateInv
<1>10. \A k \in Lists : ToCome(c, k)' => ToCome(c, k) /\ c \notin Chain(k)'
  <2> SUFFICES ASSUME NEW k \in Lists, ToCome(c, k)'
               PROVE  ToCome(c, k) /\ c \notin Chain(k)'
    OBVIOUS
  <2>1. p = "add second" /\ k = Receivers(Second) /\ sus[c] = "add" /\ l # k
    BY <1>7 DEF ToCome, Receivers
  <2>2. ToCome(c, k) /\ c \notin Chain(k)
    BY <1>1, <2>1 DEF ToCome, NodeInv
  <2> QED
    BY <1>6, <2>1, <2>2
<1>11. ASSUME NEW k \in Lists, c \in Chain(k)', gate'[c] = "none"
       PROVE  st'[c] = "awaiting" /\ \A j \in Lists : c \in Chain(j)' => j = k
  <2>1. sus[c] = "add" /\ st[c] = "awaiting"
    BY <1>1, <1>7, <1>11 DEF GateInv
  <2>2. \A j \in Lists : c \notin Chain(j)
    BY <1>1, <2>1 DEF NodeInv, ToCome
  <2> QED
    BY <1>6, <1>7, <1>11, <2>1, <2>2
<1>12. NodeInv(c)'
  BY <1>10, <1>11 DEF NodeInv
<1>13. ASSUME NEW k \in uses[c], st'[c] = "awaiting", ~ToCome(c, k)' PROVE c \in Chain(k)'
  <2>1. k \in Lists
    BY DEF Waiting
  <2>2. CASE k = l
    BY <1>6, <2>2
  <2>3. CASE k # l
    <3>1. ~(p = "add second" /\ k = Receivers(Second))
      BY <1>7, <1>13 DEF ToCome, Receivers
    <3>2. sus[c] = "add second" /\ l = Receivers(Second)
      BY <2>3, <3>1
    <3>3. ~ToCome(c, k) /\ st[c] = "awaiting"
      BY <1>7, <1>13, <2>3, <3>2 DEF ToCome
    <3>4. c \in Chain(k)
      BY <3>3 DEF Waiting, LinkedIn
    <3> QED
      BY <1>6, <2>1, <2>3, <3>4
  <2> QED
    BY <2>2, <2>3
<1> DEFINE cs == {c}
<1>14. /\ \A d \in Coros \ cs : Same(d)
       /\ \A k \in Lists : \A d \in Coros \ cs : d \in Chain(k)' <=> d \in Chain(k)
  <2>1. \A d \in Coros \ cs : Same(d)
    BY <1>1, <1>2 DEF WaitersType, Same
  <2> QED
    BY <1>6, <2>1
<1>15. \A k \in Lists : \A d \in Coros : ToCome(d, k) \/ next'[k][d] = next[k][d]
  <2> SUFFICES ASSUME NEW k \in Lists, NEW d \in Coros, ~ToCome(d, k)
               PROVE  next'[k][d] = next[k][d]
    OBVIOUS
  <2>1. k # l \/ d # c
    BY <1>5
  <2> QED
    BY <1>1, <1>3, <2>1 DEF WaitersType
<1>16. \A x \in cs : GateInv(x)' /\ NodeInv(x)'
  BY <1>9, <1>12
<1>17. \A x \in cs : \A k \in Lists :
         ToCome(x, k)' => ToCome(x, k) \/ \A a \in Actors : wk[a].node # x
  BY <1>10
<1>18. \A x \in cs : \A k \in uses[x] : st'[x] = "awaiting" /\ ~ToCome(x, k)' => x \in Chain(k)'
  BY <1>13
<1>19. cs \in SUBSET Coros /\ \A a \in Actors : wk'[a] = wk[a]
  BY <1>2
<1> HIDE DEF cs
<1> QED
  BY <1>4, <1>6, <1>14, <1>15, <1>16, <1>17, <1>18, <1>19, Moves

-----------------------------------------------------------------------------
(* Waking.                                                                 *)

\* Who comes to c: the timer, the end of suspend_impl, or a waker.
Reached(c) == timer[c] \/ sus[c] = "gate" \/ \E l \in Lists : c \in Chain(l)

\* c is not fresh, and waits if it has no gate.
LEMMA ReachedFacts ==
  ASSUME WaitersInv, NEW c \in Coros, Reached(c)
  PROVE  /\ ~Aside(c)
         /\ gate[c] = "none" => st[c] = "awaiting" /\ sus[c] \notin {"arm", "add", "gate"}
<1>1. GateInv(c) /\ NodeInv(c)
  BY DEF WaitersInv
<1>2. ~Aside(c)
  BY <1>1 DEF GateInv, Fresh, Reached
<1>3. ASSUME gate[c] = "none"
      PROVE  st[c] = "awaiting" /\ sus[c] \notin {"arm", "add", "gate"}
  <2>1. PICK l \in Lists : c \in Chain(l)
    BY <1>1, <1>3 DEF GateInv, Reached
  <2> QED
    BY <1>1, <1>3, <2>1 DEF GateInv, NodeInv, ToCome
<1> QED
  BY <1>2, <1>3

\* Each coroutine that is reached is scheduled if the gate allows it.
LEMMA DeliverFacts ==
  ASSUME WaitersInv, NEW cs \in SUBSET Coros, \A c \in cs : Reached(c), Deliver(cs)
  PROVE  /\ st' \in [Coros -> {"body", "prepared", "awaiting", "runnable", "relook", "done"}]
         /\ gate' \in [Coros -> {"none", "open", "taken"}]
         /\ wakes' \in [Coros -> Nat]
         /\ \A d \in Coros \ cs : st'[d] = st[d] /\ gate'[d] = gate[d] /\ wakes'[d] = wakes[d]
         /\ \A c \in cs : /\ st'[c] # "awaiting" /\ wakes'[c] <= awaits[c]
                          /\ gate'[c] = IF gate[c] = "none" THEN "none" ELSE "taken"
                          /\ \/ st'[c] = st[c] /\ gate[c] = "taken"
                             \/ st'[c] = "runnable" /\ st[c] = "awaiting"
<1>1. WaitersType
  BY DEF WaitersInv
<1>2. \A c \in Coros : wakes[c] \in Nat /\ wakes[c] + 1 \in Nat
  BY <1>1, SMT DEF WaitersType
<1>3. /\ st' = [c \in Coros |-> IF c \in cs /\ gate[c] # "taken" THEN "runnable" ELSE st[c]]
      /\ wakes' = [c \in Coros |-> IF c \in cs /\ gate[c] # "taken"
                                   THEN wakes[c] + 1 ELSE wakes[c]]
      /\ gate' = [c \in Coros |-> IF c \in cs /\ gate[c] = "open" THEN "taken" ELSE gate[c]]
  BY DEF Deliver, Schedule
<1>4. ASSUME NEW c \in cs
      PROVE  /\ st'[c] # "awaiting" /\ wakes'[c] <= awaits[c]
             /\ gate'[c] = IF gate[c] = "none" THEN "none" ELSE "taken"
             /\ \/ st'[c] = st[c] /\ gate[c] = "taken"
                \/ st'[c] = "runnable" /\ st[c] = "awaiting"
  <2>1. GateInv(c) /\ c \in Coros /\ gate[c] \in {"none", "open", "taken"}
    BY <1>1 DEF WaitersInv, WaitersType
  <2>2. CASE gate[c] = "taken"
    BY <1>3, <2>1, <2>2 DEF GateInv
  <2>3. CASE gate[c] # "taken"
    <3>1. st[c] = "awaiting"
      BY <2>1, <2>3, ReachedFacts DEF GateInv
    <3>2. wakes[c] < awaits[c] /\ wakes[c] \in Nat /\ awaits[c] \in Nat
      BY <1>1, <2>1, <3>1 DEF GateInv, WaitersType
    <3>3. wakes[c] + 1 <= awaits[c]
      BY <3>2, SMT
    <3> QED
      BY <1>3, <2>1, <2>3, <3>1, <3>3
  <2> QED
    BY <2>2, <2>3
<1>5. \A d \in Coros \ cs : st'[d] = st[d] /\ gate'[d] = gate[d] /\ wakes'[d] = wakes[d]
  BY <1>3
<1>6. /\ st' \in [Coros -> {"body", "prepared", "awaiting", "runnable", "relook", "done"}]
      /\ gate' \in [Coros -> {"none", "open", "taken"}]
      /\ wakes' \in [Coros -> Nat]
  BY <1>1, <1>2, <1>3 DEF WaitersType
<1> QED
  BY <1>4, <1>5, <1>6

\* Those that are reached leave their lists, unless a gate keeps what is stale harmless.
LEMMA DeliverStep ==
  ASSUME NEW CONSTANT uses, Waiting(uses), WaitersType', ListsInv', next' = next,
         awaits' = awaits,
         NEW cs \in SUBSET Coros, \A c \in cs : Reached(c), Deliver(cs),
         \A d \in Coros : timer'[d] = timer[d] \/ (d \in cs /\ ~timer'[d]),
         \A d \in Coros : sus'[d] = sus[d] \/ (d \in cs /\ sus'[d] = "none" /\ sus[d] = "gate"),
         \A l \in Lists : \A d \in Coros : d \in Chain(l)' => d \in Chain(l),
         \A l \in Lists : \A d \in Coros \ cs : d \in Chain(l) => d \in Chain(l)',
         \A c \in cs : gate[c] = "none" => \A l \in Lists : c \notin Chain(l)',
         \A a \in Actors : wk'[a] = wk[a] \/ (CallInv(a)' /\ wk'[a].node = Null)
  PROVE  Waiting(uses)'
<1>1. WaitersInv /\ WaitersType
  BY DEF Waiting, WaitersInv
<1>2. \A d \in Coros \ cs : Same(d)
  BY <1>1, DeliverFacts DEF Same
<1>3. ASSUME NEW c \in cs PROVE GateInv(c)' /\ NodeInv(c)'
  <2>1. GateInv(c) /\ NodeInv(c) /\ ~Aside(c) /\ c \in Coros
    BY <1>1, ReachedFacts DEF WaitersInv
  <2>2. /\ gate[c] = "none" => sus[c] \notin {"arm", "add", "gate"}
        /\ gate[c] \in {"none", "open", "taken"}
    BY <1>1, <2>1, ReachedFacts DEF WaitersType
  <2>3. /\ st'[c] # "awaiting" /\ wakes'[c] <= awaits'[c]
        /\ gate'[c] = IF gate[c] = "none" THEN "none" ELSE "taken"
        /\ st'[c] = st[c] \/ st'[c] = "runnable"
    BY <1>1, DeliverFacts
  <2>4. ~Aside(c)'
    BY <2>1, <2>3 DEF Aside
  <2>5. /\ timer'[c] = timer[c] \/ ~timer'[c]
        /\ sus'[c] = sus[c] \/ sus'[c] = "none"
    BY <2>1
  <2>6. GateInv(c)'
    BY <2>1, <2>2, <2>3, <2>4, <2>5 DEF GateInv
  <2>7. NodeInv(c)'
    <3>1. \A l \in Lists : ToCome(c, l)' => ToCome(c, l)
      BY <2>5 DEF ToCome
    <3>2. \A l \in Lists : ToCome(c, l)' => c \notin Chain(l)'
      BY <2>1, <3>1 DEF NodeInv
    <3>3. \A l \in Lists : ~(c \in Chain(l)' /\ gate'[c] = "none")
      BY <2>3
    <3> QED
      BY <3>2, <3>3 DEF NodeInv
  <2> QED
    BY <2>6, <2>7
<1>4. \A c \in cs : \A l \in Lists : ToCome(c, l)' => ToCome(c, l)
  BY DEF ToCome
<1>5. \A c \in cs : \A l \in uses[c] : st'[c] # "awaiting"
  BY <1>1, DeliverFacts
<1>6. \A l \in Lists : \A d \in Coros \ cs : d \in Chain(l)' <=> d \in Chain(l)
  OBVIOUS
<1> QED
  BY <1>2, <1>3, <1>4, <1>5, <1>6, Moves

\* Where no list changes, and a gate decides.
LEMMA GatedStep ==
  ASSUME NEW CONSTANT uses, Waiting(uses), NEW c \in Coros, Deliver({c}),
         UNCHANGED <<listVars, awaits, missed, wk>>,
         \/ timer[c] /\ timer' = [timer EXCEPT ![c] = FALSE] /\ sus' = sus
         \/ sus[c] = "gate" /\ timer' = timer /\ SusGoto(c, "none")
  PROVE  Waiting(uses)'
<1>1. WaitersInv /\ WaitersType /\ GateInv(c)
  BY DEF Waiting, WaitersInv
<1>2. head' = head /\ next' = next /\ awaits' = awaits /\ missed' = missed /\ wk' = wk
  BY DEF listVars
<1> DEFINE cs == {c}
<1>3. cs \in SUBSET Coros /\ Deliver(cs) /\ \A x \in cs : Reached(x)
  BY DEF Reached
<1>4. gate[c] # "none"
  BY <1>1 DEF GateInv
<1>5. WaitersType'
  <2>1. timer' \in [Coros -> BOOLEAN] /\ sus' \in [Coros -> SusPoints]
    BY <1>1 DEF WaitersType, SusGoto, SusPoints
  <2> HIDE DEF cs
  <2> QED
    BY <1>1, <1>2, <1>3, <2>1, DeliverFacts DEF WaitersType
<1>6. /\ \A d \in Coros : timer'[d] = timer[d] \/ (d \in cs /\ ~timer'[d])
      /\ \A d \in Coros : sus'[d] = sus[d] \/ (d \in cs /\ sus'[d] = "none" /\ sus[d] = "gate")
  BY <1>1 DEF WaitersType, SusGoto
<1>7. \A l \in Lists : Chain(l)' = Chain(l) /\ \E s \in Seq(Coros) : Spine(s, head'[l], next'[l])
  BY <1>1, <1>2, <1>5, ChainKept DEF WaitersInv
<1>8. ListsInv'
  BY <1>7 DEF ListsInv
<1>9. \A x \in cs : gate[x] # "none"
  BY <1>4
<1> HIDE DEF cs
<1> QED
  BY <1>2, <1>3, <1>5, <1>6, <1>7, <1>8, <1>9, DeliverStep

\* What wake_one and wake_all do with the nodes that they take from list l.
LEMMA TakenStep ==
  ASSUME NEW CONSTANT uses, Waiting(uses), NEW a \in Actors, NEW l \in Lists,
         wk[a].todo # <<>>, NEW cs \in SUBSET Coros, Deliver(cs), cs \subseteq Chain(l),
         WaitersType, WaitersType' => /\ ListsInv' /\ Chain(l)' = Chain(l) \ cs
                         /\ \A k \in Lists : k # l => Chain(k)' = Chain(k),
         head' \in [Lists -> Coros \union {Null}], missed' \in [Coros -> BOOLEAN],
         wk' = [wk EXCEPT ![a] = Following(a)],
         UNCHANGED <<next, timer, sus, awaits>>
  PROVE  Waiting(uses)'
<1>1. WaitersInv /\ WaitersType
  BY DEF Waiting, WaitersInv
<1>2. \A x \in cs : Reached(x)
  BY DEF Reached
<1>3. WaitersType'
  BY <1>1, <1>2, DeliverFacts, FollowingFacts DEF WaitersType
<1>4. \A x \in Actors : wk'[x] = wk[x] \/ (CallInv(x)' /\ wk'[x].node = Null)
  <2> SUFFICES ASSUME NEW x \in Actors, x = a PROVE CallInv(x)' /\ wk'[x].node = Null
    BY <1>1 DEF WaitersType
  <2>1. wk'[x] = Following(a)
    BY <1>1 DEF WaitersType
  <2> QED
    BY <1>1, <2>1, FollowingFacts DEF CallInv
<1>5. ASSUME NEW x \in cs, gate[x] = "none", NEW k \in Lists PROVE x \notin Chain(k)'
  <2>1. NodeInv(x) /\ x \in Chain(l)
    BY <1>1 DEF WaitersInv
  <2>2. CASE k = l
    BY <1>3, <2>2
  <2>3. CASE k # l
    <3>1. x \notin Chain(k)
      BY <1>5, <2>1, <2>3 DEF NodeInv
    <3> QED
      BY <1>3, <2>3, <3>1
  <2> QED
    BY <2>2, <2>3
<1>6. \A k \in Lists : \A d \in Coros : d \in Chain(k)' => d \in Chain(k)
  BY <1>3
<1>7. \A k \in Lists : \A d \in Coros \ cs : d \in Chain(k) => d \in Chain(k)'
  BY <1>3
<1> QED
  BY <1>2, <1>3, <1>4, <1>5, <1>6, <1>7, DeliverStep

\* wake_one and wake_all, step by step.
LEMMA WakersStep ==
  ASSUME NEW CONSTANT uses, Waiting(uses), NEW a \in Actors, WakeStep(a)
  PROVE  Waiting(uses)'
<1>1. WaitersInv /\ WaitersType /\ ListsInv /\ CallInv(a) /\ wk[a] \in CallType
  BY DEF Waiting, WaitersInv, WaitersType
<1>2. wk[a].todo # <<>> /\ wk[a].todo \in Seq(Lists)
  BY <1>1 DEF CallInv, CallType, WakeStep, WakeLoad, WakeCas, WakeEach
<1>3. PICK l \in Lists : l = Head(wk[a].todo)
  BY <1>2, HeadTailProperties
<1>4. Idle \in CallType /\ Idle.at = "idle" /\ Idle.node = Null
  BY DEF Idle, CallType
<1>5. missed \in [Coros -> BOOLEAN]
  BY <1>1 DEF WaitersType
<1>6. CASE WakeLoad(a)
  <2>1. UNCHANGED <<listVars, frameVars, st, wakes, missed>> /\ wk[a].at = "load"
    BY <1>6 DEF WakeLoad
  <2>2. CASE head[l] = Null
    <3>1. wk' = [wk EXCEPT ![a] = Idle]
      BY <1>3, <1>6, <2>2 DEF WakeLoad, SetWake
    <3> QED
      BY <1>4, <1>5, <2>1, <3>1, WakerCallStep
  <2>3. CASE head[l] # Null
    <3>1. wk' = [wk EXCEPT ![a] = [wk[a] EXCEPT !.at = "cas", !.node = head[l],
                                                !.nx = next[l][head[l]]]]
      BY <1>3, <1>6, <2>3 DEF WakeLoad, SetWake
    <3> QED
      BY <1>3, <2>1, <2>3, <3>1, HoldStep
  <2> QED
    BY <2>2, <2>3
<1>7. CASE WakeCas(a) /\ Retry(a, Head(wk[a].todo))
  <2>1. UNCHANGED <<listVars, frameVars, st, wakes, missed>> /\ wk[a].at = "cas"
    BY <1>7 DEF WakeCas, Retry, listVars, frameVars
  <2>2. CASE head[l] = Null
    <3>1. wk' = [wk EXCEPT ![a] = Following(a)]
      BY <1>3, <1>7, <2>2 DEF Retry, SetWake
    <3> QED
      BY <1>1, <1>2, <1>5, <2>1, <3>1, FollowingFacts, WakerCallStep
  <2>3. CASE head[l] # Null
    <3>1. wk' = [wk EXCEPT ![a] = [wk[a] EXCEPT !.node = head[l], !.nx = next[l][head[l]]]]
      BY <1>3, <1>7, <2>3 DEF Retry, SetWake
    <3>2. [wk[a] EXCEPT !.node = head[l], !.nx = next[l][head[l]]]
            = [wk[a] EXCEPT !.at = "cas", !.node = head[l], !.nx = next[l][head[l]]]
      BY <1>1, <2>1 DEF CallType
    <3> QED
      BY <1>3, <2>1, <2>3, <3>1, <3>2, HoldStep
  <2> QED
    BY <2>2, <2>3
<1>8. CASE WakeCas(a) /\ Pop(a, Head(wk[a].todo))
  <2>1. /\ wk[a].at = "cas" /\ head[l] = wk[a].node /\ Deliver({wk[a].node})
        /\ head' = [head EXCEPT ![l] = wk[a].nx] /\ wk' = [wk EXCEPT ![a] = Following(a)]
        /\ UNCHANGED <<next, timer, sus, awaits, missed>>
    BY <1>3, <1>8 DEF WakeCas, Pop, SetWake
  <2>2. /\ head[l] # Null /\ wk[a].nx = next[l][head[l]] /\ wk[a].node \in Coros
        /\ wk[a].nx \in Coros \union {Null}
    BY <1>1, <1>3, <2>1 DEF CallInv, CallType
  <2>3. head' = [head EXCEPT ![l] = next[l][head[l]]]
    BY <2>1, <2>2
  <2>4. PICK cs : cs = {head[l]}
    OBVIOUS
  <2>5. cs \in SUBSET Coros /\ cs \subseteq Chain(l) /\ Deliver(cs)
    BY <1>1, <2>1, <2>2, <2>4, ChainFacts
  <2>6. head' \in [Lists -> Coros \union {Null}]
    BY <1>1, <2>1, <2>2 DEF WaitersType
  <2>7. WaitersType' => /\ ListsInv' /\ Chain(l)' = Chain(l) \ cs
                        /\ \A k \in Lists : k # l => Chain(k)' = Chain(k)
    BY <1>1, <2>1, <2>2, <2>3, <2>4, Popped
  <2> QED
    BY <1>1, <1>2, <1>5, <2>1, <2>5, <2>6, <2>7, TakenStep
<1>9. CASE WakeEach(a)
  <2>1. /\ Deliver(Chain(l)) /\ head' = [head EXCEPT ![l] = Null]
        /\ missed' = [c \in Coros |-> missed[c] \/ sus[c] \in {"arm", "add"}]
        /\ wk' = [wk EXCEPT ![a] = Following(a)]
        /\ UNCHANGED <<next, timer, sus, awaits>>
    BY <1>3, <1>9 DEF WakeEach, SetWake
  <2>2. PICK cs : cs = Chain(l)
    OBVIOUS
  <2>3. cs \in SUBSET Coros /\ cs \subseteq Chain(l) /\ Deliver(cs)
    BY <1>1, <2>1, <2>2, ChainFacts
  <2>4. head' \in [Lists -> Coros \union {Null}] /\ missed' \in [Coros -> BOOLEAN]
    BY <1>1, <2>1 DEF WaitersType
  <2>5. WaitersType' => /\ ListsInv' /\ Chain(l)' = Chain(l) \ cs
                        /\ \A k \in Lists : k # l => Chain(k)' = Chain(k)
    <3>1. Chain(l) \ cs = {}
      BY <2>2
    <3> QED
      BY <1>1, <2>1, <3>1, Emptied
  <2> QED
    BY <1>1, <1>2, <2>1, <2>3, <2>4, <2>5, TakenStep
<1> QED
  BY <1>6, <1>7, <1>8, <1>9 DEF WakeStep, WakeCas

\* The step of a waker delivers what it takes, or changes no more than its call.
LEMMA WakeDelivers ==
  ASSUME WaitersInv, NEW a \in Actors, WakeStep(a)
  PROVE  /\ UNCHANGED <<next, timer, sus, awaits>>
         /\ wk[a] \in CallType /\ wk[a].todo # <<>>
         /\ \/ /\ UNCHANGED <<head, gate, st, wakes, missed>>
               /\ wk[a].at \in {"load", "cas"}
               /\ \E call \in CallType : /\ wk' = [wk EXCEPT ![a] = call]
                                         /\ \/ call = Idle
                                            \/ call = Following(a)
                                            \/ call.at = "cas" /\ call.todo = wk[a].todo
            \/ \E l \in Lists : \E cs \in SUBSET Coros :
                 /\ l = Head(wk[a].todo) /\ cs \subseteq Chain(l)
                 /\ Deliver(cs) /\ \A x \in cs : Reached(x)
                 /\ wk' = [wk EXCEPT ![a] = Following(a)]
                 /\ \/ wk[a].at = "cas" /\ cs = {wk[a].node} /\ missed' = missed
                    \/ /\ wk[a].at = "all" /\ cs = Chain(l)
                       /\ missed' = [c \in Coros |-> missed[c] \/ sus[c] \in {"arm", "add"}]
<1>1. WaitersType /\ ListsInv /\ CallInv(a) /\ wk[a] \in CallType
  BY DEF WaitersInv, WaitersType
<1>2. wk[a].todo # <<>> /\ wk[a].todo \in Seq(Lists)
  BY <1>1 DEF CallInv, CallType, WakeStep, WakeLoad, WakeCas, WakeEach
<1>3. PICK l \in Lists : l = Head(wk[a].todo)
  BY <1>2, HeadTailProperties
<1>4. Idle \in CallType
  BY DEF Idle, CallType
<1>5. head[l] # Null => head[l] \in Coros /\ next[l][head[l]] \in Coros \union {Null}
  BY <1>1 DEF WaitersType
<1>6. CASE WakeLoad(a)
  <2>1. /\ UNCHANGED <<next, timer, sus, awaits, head, gate, st, wakes, missed>>
        /\ wk[a].at = "load"
    BY <1>6 DEF WakeLoad, listVars, frameVars
  <2>2. CASE head[l] = Null
    <3>1. wk' = [wk EXCEPT ![a] = Idle]
      BY <1>3, <1>6, <2>2 DEF WakeLoad, SetWake
    <3> QED
      BY <1>1, <1>2, <1>4, <2>1, <3>1
  <2>3. CASE head[l] # Null
    <3>1. PICK call : call = [wk[a] EXCEPT !.at = "cas", !.node = head[l],
                                               !.nx = next[l][head[l]]]
      OBVIOUS
    <3>2. wk' = [wk EXCEPT ![a] = call]
      BY <1>3, <1>6, <2>3, <3>1 DEF WakeLoad, SetWake
    <3>3. call \in CallType /\ call.at = "cas" /\ call.todo = wk[a].todo
      BY <1>1, <1>5, <2>3, <3>1 DEF CallType
    <3> QED
      BY <1>1, <1>2, <2>1, <3>2, <3>3
  <2> QED
    BY <2>2, <2>3
<1>7. CASE WakeCas(a) /\ Retry(a, Head(wk[a].todo))
  <2>1. /\ UNCHANGED <<next, timer, sus, awaits, head, gate, st, wakes, missed>>
        /\ wk[a].at = "cas"
    BY <1>7 DEF WakeCas, Retry
  <2>2. CASE head[l] = Null
    <3>1. wk' = [wk EXCEPT ![a] = Following(a)] /\ Following(a) \in CallType
      BY <1>1, <1>2, <1>3, <1>7, <2>2, FollowingFacts DEF Retry, SetWake
    <3> QED
      BY <1>1, <1>2, <2>1, <3>1
  <2>3. CASE head[l] # Null
    <3>1. PICK call : call = [wk[a] EXCEPT !.node = head[l], !.nx = next[l][head[l]]]
      OBVIOUS
    <3>2. wk' = [wk EXCEPT ![a] = call]
      BY <1>3, <1>7, <2>3, <3>1 DEF Retry, SetWake
    <3>3. call \in CallType /\ call.at = "cas" /\ call.todo = wk[a].todo
      BY <1>1, <1>5, <2>1, <2>3, <3>1 DEF CallType
    <3> QED
      BY <1>1, <1>2, <2>1, <3>2, <3>3
  <2> QED
    BY <2>2, <2>3
<1>8. CASE WakeCas(a) /\ Pop(a, Head(wk[a].todo))
  <2>1. /\ wk[a].at = "cas" /\ head[l] = wk[a].node /\ Deliver({wk[a].node})
        /\ wk' = [wk EXCEPT ![a] = Following(a)]
        /\ UNCHANGED <<next, timer, sus, awaits, missed>>
    BY <1>3, <1>8 DEF WakeCas, Pop, SetWake
  <2>2. head[l] # Null
    BY <1>1, <2>1 DEF CallInv
  <2>3. PICK cs : cs = {wk[a].node}
    OBVIOUS
  <2>4. cs \in SUBSET Coros /\ cs \subseteq Chain(l) /\ Deliver(cs)
    BY <1>1, <1>5, <2>1, <2>2, <2>3, ChainFacts
  <2>5. \A x \in cs : Reached(x)
    BY <2>4 DEF Reached
  <2> QED
    BY <1>1, <1>2, <1>3, <2>1, <2>3, <2>4, <2>5
<1>9. CASE WakeEach(a)
  <2>1. /\ wk[a].at = "all" /\ Deliver(Chain(l))
        /\ missed' = [c \in Coros |-> missed[c] \/ sus[c] \in {"arm", "add"}]
        /\ wk' = [wk EXCEPT ![a] = Following(a)]
        /\ UNCHANGED <<next, timer, sus, awaits>>
    BY <1>3, <1>9 DEF WakeEach, SetWake
  <2>2. Chain(l) \in SUBSET Coros /\ \A x \in Chain(l) : Reached(x)
    BY <1>1, ChainFacts DEF Reached
  <2> QED
    BY <1>1, <1>2, <1>3, <2>1, <2>2
<1> QED
  BY <1>6, <1>7, <1>8, <1>9 DEF WakeStep, WakeCas

\* Where nothing of the lists, the gates and the wakers changes.
LEMMA StillStep ==
  ASSUME NEW CONSTANT uses, Waiting(uses),
         UNCHANGED <<listVars, frameVars, st, wakes, wk>>, missed' \in [Coros -> BOOLEAN]
  PROVE  Waiting(uses)'
<1>1. WaitersInv /\ WaitersType
  BY DEF Waiting, WaitersInv
<1>2. /\ head' = head /\ next' = next /\ gate' = gate /\ wakes' = wakes
      /\ awaits' = awaits /\ timer' = timer /\ sus' = sus /\ st' = st /\ wk' = wk
  BY DEF listVars, frameVars
<1>3. WaitersType'
  BY <1>1, <1>2 DEF WaitersType
<1>4. \A l \in Lists : Chain(l)' = Chain(l) /\ \E s \in Seq(Coros) : Spine(s, head'[l], next'[l])
  BY <1>1, <1>2, <1>3, ChainKept DEF WaitersInv
<1>5. ListsInv'
  BY <1>4 DEF ListsInv
<1> DEFINE cs == {}
<1>6. /\ \A d \in Coros \ cs : Same(d)
      /\ \A l \in Lists : \A d \in Coros \ cs : d \in Chain(l)' <=> d \in Chain(l)
      /\ \A l \in Lists : \A d \in Coros : ToCome(d, l) \/ next'[l][d] = next[l][d]
  BY <1>2, <1>4 DEF Same
<1>7. cs \in SUBSET Coros /\ \A x \in cs : FALSE
  OBVIOUS
<1> HIDE DEF cs
<1> QED
  BY <1>2, <1>3, <1>5, <1>6, <1>7, Moves

\* At first there is nobody.
LEMMA WaitersBegin ==
  ASSUME NEW CONSTANT uses, uses \in [Coros -> SUBSET Lists], WaitersInit
  PROVE  Waiting(uses)
<1> USE DEF WaitersInit
<1>1. Idle \in CallType
  BY DEF Idle, CallType
<1>2. WaitersType
  <2>1. 0 \in Nat
    OBVIOUS
  <2> QED
    BY <1>1, <2>1 DEF WaitersType, SusPoints
<1>3. PICK s : s = <<>>
  OBVIOUS
<1>4. s \in Seq(Coros) /\ Members(s) = {} /\ \A i \in DOMAIN s : FALSE
  BY <1>3 DEF Members
<1>5. \A l \in Lists : head[l] = Null /\ Spine(s, head[l], next[l])
  BY <1>3, <1>4 DEF Spine
<1>6. ListsInv
  BY <1>4, <1>5 DEF ListsInv
<1>7. \A l \in Lists : Chain(l) = {}
  BY <1>2, <1>5, <1>6, ChainFacts
<1>8. \A c \in Coros : GateInv(c)
  <2>1. 0 <= 0
    OBVIOUS
  <2> QED
    BY <2>1 DEF GateInv, Aside
<1>9. \A c \in Coros : NodeInv(c)
  BY <1>7 DEF NodeInv
<1>10. \A a \in Actors : CallInv(a)
  BY DEF CallInv, Idle
<1>11. LinkedIn(uses)
  BY DEF LinkedIn
<1> QED
  BY <1>2, <1>6, <1>8, <1>9, <1>10, <1>11 DEF Waiting, WaitersInv

-----------------------------------------------------------------------------
(* The blocking calls of the primitives.                                   *)

\* The fields of the object.
ObjectType ==
  [kind : Kinds, permits : Nat, signaled : BOOLEAN, count : Nat, expected : Nat,
   phase : Nat, version : Nat, given : Nat, admitted : Nat]

\* Where a blocking call is.
ThreadStates == {"idle", "test", "wait", "woken", "late", "done"}

\* The types of the object and of those who block on it.
StateInv ==
  /\ obj \in ObjectType
  /\ obj.count <= obj.expected
  /\ token \in [Actors \union Threads -> Nat \union {Null}]
  /\ thr \in [Threads -> ThreadStates]

\* What is inductive of the blocking calls.
ThreadsInv == StateInv /\ ThreadWakeups

\* The kinds of event.
Events == {"auto_event", "manual_event"}

\* The threads that were woken and are on their way.
Awake == {t \in Threads : thr[t] = "woken"}

-----------------------------------------------------------------------------
(* Sets of threads.                                                        *)

\* There are finitely many.
LEMMA AwakeFinite ==
  /\ IsFiniteSet(Awake) /\ Cardinality(Awake) \in Nat
  /\ IsFiniteSet(AtWait) /\ Cardinality(AtWait) \in Nat
<1>1. Awake \in SUBSET Threads /\ AtWait \in SUBSET Threads
  BY DEF Awake, AtWait
<1>2. IsFiniteSet(Awake) /\ IsFiniteSet(AtWait)
  BY <1>1, ThreadsAssumption, FS_Subset
<1> QED
  BY <1>2, FS_CardinalityType

\* The same after a step.
LEMMA AwakeFiniteAfter == IsFiniteSet(Awake') /\ Cardinality(Awake') \in Nat
<1>1. Awake' \in SUBSET Threads
  BY DEF Awake
<1>2. IsFiniteSet(Awake')
  BY <1>1, ThreadsAssumption, FS_Subset
<1> QED
  BY <1>2, FS_CardinalityType

\* notify_one() n times wakes n threads, or everybody.
LEMMA NotifyWakes ==
  ASSUME StateInv, NEW n \in Nat, Notify(n)
  PROVE  \/ AtWait' = {}
         \/ /\ AtWait # {}
            /\ Cardinality(Awake') = Cardinality(Awake) + n
<1>1. PICK ts \in SUBSET AtWait :
        /\ Cardinality(ts) = IF n < Cardinality(AtWait) THEN n ELSE Cardinality(AtWait)
        /\ WakeThreads(ts)
  BY DEF Notify
<1>2. IsFiniteSet(ts)
  BY <1>1, AwakeFinite, FS_Subset
<1>3. CASE n < Cardinality(AtWait)
  <2>1. Awake' = Awake \union ts /\ Awake \intersect ts = {}
    BY <1>1 DEF Awake, AtWait, WakeThreads, StateInv
  <2>2. Cardinality(Awake') = Cardinality(Awake) + Cardinality(ts)
    <3>1. Cardinality(Awake \union ts)
            = Cardinality(Awake) + Cardinality(ts) - Cardinality(Awake \intersect ts)
      BY <1>2, AwakeFinite, FS_Union
    <3>2. Cardinality(Awake \intersect ts) = 0
      BY <2>1, FS_EmptySet
    <3>3. Cardinality(Awake) \in Nat /\ Cardinality(ts) \in Nat
      BY <1>2, AwakeFinite, FS_CardinalityType
    <3> QED
      BY <2>1, <3>1, <3>2, <3>3, SMT
  <2>3. AtWait # {}
    <3>1. Cardinality(AtWait) # 0
      BY <1>3, AwakeFinite, SMT
    <3> QED
      BY <3>1, FS_EmptySet
  <2> QED
    BY <1>1, <1>3, <2>2, <2>3
<1>4. CASE ~(n < Cardinality(AtWait))
  <2>1. ts = AtWait
    BY <1>1, <1>4, AwakeFinite, FS_Subset
  <2> QED
    BY <1>1, <2>1 DEF WakeThreads, AtWait
<1> QED
  BY <1>3, <1>4

-----------------------------------------------------------------------------
(* What one step does.                                                     *)

\* Nobody waits.
LEMMA NobodyWaits == ASSUME AtWait' = {} PROVE ThreadWakeups'
  BY DEF ThreadWakeups

\* notify_all()
LEMMA EverybodyWoken == ASSUME NotifyAll PROVE AtWait' = {}
  BY DEF NotifyAll, WakeThreads, AtWait

\* What the threads wait for is not there where it was not before.
LEMMA NothingNew ==
  ASSUME StateInv, StateInv', ThreadWakeups, thr' = thr,
         \A t \in Threads : token'[t] = token[t],
         obj'.kind = obj.kind, obj'.phase = obj.phase, obj'.version = obj.version,
         obj'.permits <= obj.permits, obj'.signaled => obj.signaled
  PROVE  ThreadWakeups'
<1>1. AtWait' = AtWait /\ Awake' = Awake
  BY DEF AtWait, Awake
<1>2. Broadcasts' => \A t \in AtWait' : ~Ready(t)'
  <2> SUFFICES ASSUME Broadcasts', NEW t \in AtWait, Ready(t)' PROVE FALSE
    BY <1>1
  <2>1. t \in Threads
    BY DEF AtWait
  <2>2. Ready(t)
    BY <2>1 DEF Ready, Is, SemaphoreReady, EventReady, BarrierReady, ValueReady, Broadcasts
  <2> QED
    BY <2>2 DEF ThreadWakeups, Broadcasts
<1>3. Is("semaphore")' /\ AtWait' # {} => obj'.permits <= Cardinality(Awake')
  <2> SUFFICES ASSUME Is("semaphore")', AtWait # {}
               PROVE  obj'.permits <= Cardinality(Awake)
    BY <1>1
  <2>1. obj.permits <= Cardinality(Awake)
    BY <1>1 DEF ThreadWakeups, Is, Awake
  <2> QED
    BY <2>1, AwakeFinite, SMT DEF StateInv, ObjectType
<1>4. Is("auto_event")' /\ AtWait' # {} /\ obj'.signaled => Cardinality(Awake') > 0
  BY <1>1 DEF ThreadWakeups, Is, Awake
<1> QED
  BY <1>2, <1>3, <1>4 DEF ThreadWakeups, Awake

\* What is taken leaves less.
LEMMA TakenFacts ==
  ASSUME StateInv, NEW x, Ready(x)
  PROVE  /\ Taken \in ObjectType
         /\ Taken.kind = obj.kind /\ Taken.phase = obj.phase /\ Taken.version = obj.version
         /\ Taken.count = obj.count /\ Taken.expected = obj.expected
         /\ Taken.permits = IF Is("semaphore") THEN obj.permits - 1 ELSE obj.permits
         /\ Is("semaphore") => obj.permits > 0
         /\ obj.kind \in Events => obj.signaled
         /\ Taken.signaled => obj.signaled
         /\ Is("auto_event") => ~Taken.signaled
<1> USE DEF StateInv, ObjectType, Is, Events
<1>1. CASE Is("semaphore")
  <2>1. obj.permits > 0
    BY <1>1 DEF Ready, SemaphoreReady
  <2>2. Taken = [obj EXCEPT !.permits = @ - 1]
    BY <1>1 DEF Taken, Acquired
  <2> QED
    BY <1>1, <2>1, <2>2
<1>2. CASE obj.kind \in Events
  <2>1. obj.signaled
    BY <1>2 DEF Ready, EventReady
  <2>2. Taken = [obj EXCEPT !.signaled = obj.kind = "manual_event"]
    BY <1>2 DEF Taken, Waited
  <2> QED
    BY <1>2, <2>1, <2>2
<1>3. CASE obj.kind \notin Events \union {"semaphore"}
  <2>1. Taken = obj
    BY <1>3 DEF Taken
  <2> QED
    BY <1>3, <2>1
<1> QED
  BY <1>1, <1>2, <1>3

\* A wait that ends leaves the same, but for the count.
LEMMA AdmitFacts ==
  ASSUME NEW o \in ObjectType, Admit(o)
  PROVE  /\ obj' \in ObjectType
         /\ obj'.kind = o.kind /\ obj'.phase = o.phase /\ obj'.version = o.version
         /\ obj'.count = o.count /\ obj'.expected = o.expected
         /\ obj'.permits = o.permits /\ obj'.signaled = o.signaled
  BY DEF Admit, ObjectType

\* An arrival, whose last one ends the phase; count stays within expected.
LEMMA CompletedFacts ==
  ASSUME NEW o \in ObjectType, o.count <= o.expected
  PROVE  /\ Completed(o) \in ObjectType /\ Completed(o).count <= Completed(o).expected
         /\ Completed(o).kind = o.kind
         /\ o.count # 0 => Completed(o) = o
<1>1. CASE o.count = 0
  <2>1. Completed(o) = [o EXCEPT !.count = o.expected, !.phase = @ + 1]
    BY <1>1 DEF Completed, CompletePhase
  <2>2. o.expected \in Nat /\ o.phase \in Nat /\ o.phase + 1 \in Nat
    BY SMT DEF ObjectType
  <2>3. Completed(o) \in ObjectType
    BY <2>1, <2>2 DEF ObjectType
  <2>4. Completed(o).count = o.expected /\ Completed(o).expected = o.expected
    BY <2>1 DEF ObjectType
  <2>5. Completed(o).kind = o.kind
    BY <2>1 DEF ObjectType
  <2>6. o.expected <= o.expected
    BY <2>2, SMT
  <2> QED
    BY <1>1, <2>3, <2>4, <2>5, <2>6
<1>2. CASE o.count # 0
  <2>1. Completed(o) = o
    BY <1>2 DEF Completed
  <2> QED
    BY <1>2, <2>1
<1> QED
  BY <1>1, <1>2

-----------------------------------------------------------------------------
(* Threads.                                                                *)

\* A blocking call; on a barrier it is an arrival, which may end the phase.
LEMMA CallStep ==
  ASSUME ThreadsInv, NEW t \in Threads, Call(t)
  PROVE  ThreadsInv'
<1> USE DEF ThreadsInv, StateInv
<1>1. CASE Is("barrier")
  <2> DEFINE o == [obj EXCEPT !.count = @ - 1]
  <2>1. /\ obj.count > 0 /\ obj' = Completed(o) /\ token' = [token EXCEPT ![t] = obj.phase]
        /\ thr' = [s \in Threads |-> IF s = t THEN "test"
                     ELSE IF o.count = 0 /\ thr[s] = "wait" THEN "woken" ELSE thr[s]]
    BY <1>1 DEF Call
  <2>2. o \in ObjectType /\ o.count = obj.count - 1 /\ o.expected = obj.expected
        /\ o.kind = obj.kind /\ o.phase = obj.phase
    BY <2>1 DEF ObjectType
  <2>3. StateInv'
    <3>1. obj' \in ObjectType /\ obj'.count <= obj'.expected
      <4>1. o.count <= o.expected
        BY <2>2, SMT DEF ObjectType
      <4> HIDE DEF o
      <4> QED
        BY <2>1, <2>2, <4>1, CompletedFacts
    <3>2. token' \in [Actors \union Threads -> Nat \union {Null}]
      BY <2>1 DEF ObjectType
    <3>3. thr' \in [Threads -> ThreadStates]
      BY <2>1 DEF ThreadStates
    <3> QED
      BY <3>1, <3>2, <3>3
  <2>4. CASE o.count = 0
    <3>1. AtWait' = {}
      BY <2>1, <2>4 DEF AtWait
    <3> QED
      BY <2>3, <3>1, NobodyWaits
  <2>5. CASE o.count # 0
    <3>1. obj' = o
      BY <2>1, <2>5 DEF Completed
    <3>2. \A s \in AtWait' : s # t /\ s \in AtWait /\ token'[s] = token[s]
      BY <2>1, <2>5 DEF AtWait
    <3>3. \A s \in AtWait' : ~Ready(s)'
      <4> SUFFICES ASSUME NEW s \in AtWait', Ready(s)' PROVE FALSE
        OBVIOUS
      <4>1. ~Ready(s)
        BY <1>1, <3>2 DEF ThreadWakeups, Broadcasts, Is
      <4> QED
        BY <1>1, <2>2, <3>1, <3>2, <4>1 DEF Ready, BarrierReady, Is
    <3> QED
      BY <1>1, <2>2, <2>3, <3>1, <3>3 DEF ThreadWakeups, Is
  <2> QED
    BY <2>4, <2>5
<1>2. CASE ~Is("barrier")
  <2>1. /\ thr' = [thr EXCEPT ![t] = "test"] /\ token' = [token EXCEPT ![t] = obj.version]
        /\ obj' = obj /\ thr[t] \in {"idle", "done"}
    BY <1>2 DEF Call
  <2>2. StateInv'
    BY <2>1 DEF ObjectType, ThreadStates
  <2>3. AtWait' = AtWait /\ Awake' = Awake /\ t \notin AtWait
    BY <2>1 DEF AtWait, Awake
  <2>4. \A s \in AtWait : Ready(s)' <=> Ready(s)
    <3>1. \A s \in AtWait : token'[s] = token[s]
      BY <2>1, <2>3 DEF AtWait
    <3> QED
      BY <2>1, <3>1 DEF Ready, Is, SemaphoreReady, EventReady, BarrierReady, ValueReady
  <2> QED
    BY <2>1, <2>2, <2>3, <2>4 DEF ThreadWakeups, Broadcasts, Is, Awake
<1> QED
  BY <1>1, <1>2

\* A thread that was on its way takes at most one.
LEMMA ThreadGetsStep ==
  ASSUME ThreadsInv, NEW t \in Threads, ThreadGets(t)
  PROVE  ThreadsInv'
<1> USE DEF ThreadsInv
<1>1. /\ thr[t] \in {"test", "woken", "late"} /\ Ready(t)
      /\ thr' = [thr EXCEPT ![t] = "done"] /\ token' = token
  BY DEF ThreadGets, ThrGoto
<1>2. /\ obj' \in ObjectType /\ obj'.kind = obj.kind /\ obj'.phase = obj.phase
      /\ obj'.version = obj.version /\ obj'.count = obj.count /\ obj'.expected = obj.expected
      /\ obj'.permits = IF Is("semaphore") THEN obj.permits - 1 ELSE obj.permits
      /\ Is("semaphore") => obj.permits > 0
      /\ obj'.signaled => obj.signaled
      /\ Is("auto_event") => ~obj'.signaled
  BY <1>1, TakenFacts, AdmitFacts DEF ThreadGets
<1>3. StateInv'
  BY <1>1, <1>2 DEF StateInv, ThreadStates
<1>4. AtWait' = AtWait /\ Awake' = Awake \ {t}
  BY <1>1 DEF AtWait, Awake, StateInv
<1>5. Broadcasts' => \A s \in AtWait' : ~Ready(s)'
  <2> SUFFICES ASSUME Broadcasts', NEW s \in AtWait, Ready(s)' PROVE FALSE
    BY <1>4
  <2>1. Ready(s)
    BY <1>1, <1>2 DEF Ready, Is, SemaphoreReady, EventReady, BarrierReady, ValueReady, Broadcasts
  <2> QED
    BY <1>2, <2>1 DEF ThreadWakeups, Broadcasts
<1>6. Is("semaphore")' /\ AtWait' # {} => obj'.permits <= Cardinality(Awake')
  <2> SUFFICES ASSUME Is("semaphore"), AtWait # {}
               PROVE  obj'.permits <= Cardinality(Awake')
    BY <1>2, <1>4 DEF Is
  <2>1. obj.permits <= Cardinality(Awake)
    BY DEF ThreadWakeups, Awake
  <2>2. Cardinality(Awake') \in {Cardinality(Awake), Cardinality(Awake) - 1}
    BY <1>4, AwakeFinite, FS_RemoveElement
  <2> QED
    BY <1>2, <2>1, <2>2, AwakeFinite, AwakeFiniteAfter, SMT DEF StateInv, ObjectType
<1> QED
  BY <1>2, <1>3, <1>5, <1>6 DEF ThreadWakeups, Awake, Is

\* A thread waits, or gives up, where nothing is there.
LEMMA ThreadWaitsStep ==
  ASSUME ThreadsInv, NEW t \in Threads, ThreadWaits(t)
  PROVE  ThreadsInv'
<1> USE DEF ThreadsInv
<1>1. /\ thr[t] \in {"test", "woken", "late"} /\ ~Ready(t) /\ obj' = obj /\ token' = token
      /\ \E p \in {"done", "wait"} : thr' = [thr EXCEPT ![t] = p]
  BY DEF ThreadWaits, ThrGoto
<1>2. StateInv'
  BY <1>1 DEF StateInv, ThreadStates
<1>3. AtWait' \subseteq AtWait \union {t}
  BY <1>1 DEF AtWait, StateInv
<1>4. \A s \in Threads : Ready(s)' <=> Ready(s)
  BY <1>1 DEF Ready, Is, SemaphoreReady, EventReady, BarrierReady, ValueReady
<1>5. Broadcasts' => \A s \in AtWait' : ~Ready(s)'
  BY <1>1, <1>3, <1>4 DEF ThreadWakeups, Broadcasts, AtWait
<1>6. Is("semaphore")' => obj'.permits <= Cardinality(Awake')
  <2>1. Is("semaphore")' => obj'.permits = 0
    BY <1>1, SMT DEF Ready, SemaphoreReady, Is, StateInv, ObjectType
  <2> QED
    BY <2>1, AwakeFiniteAfter, SMT
<1>7. ~(Is("auto_event")' /\ obj'.signaled)
  BY <1>1 DEF Ready, EventReady, Is
<1> QED
  BY <1>2, <1>5, <1>6, <1>7 DEF ThreadWakeups, Awake

\* A timeout, or a wake-up for no reason.
LEMMA ThreadWakesStep ==
  ASSUME ThreadsInv, NEW t \in Threads, ThreadWakes(t)
  PROVE  ThreadsInv'
<1> USE DEF ThreadsInv
<1>1. /\ thr[t] = "wait" /\ obj' = obj /\ token' = token
      /\ \E p \in {"late", "woken"} : thr' = [thr EXCEPT ![t] = p]
  BY DEF ThreadWakes, ThrGoto
<1>2. StateInv'
  BY <1>1 DEF StateInv, ThreadStates
<1>3. AtWait' \subseteq AtWait /\ Awake' \in {Awake, Awake \union {t}} /\ t \notin Awake
  BY <1>1 DEF AtWait, Awake, StateInv
<1>4. \A s \in Threads : Ready(s)' <=> Ready(s)
  BY <1>1 DEF Ready, Is, SemaphoreReady, EventReady, BarrierReady, ValueReady
<1>5. Broadcasts' => \A s \in AtWait' : ~Ready(s)'
  BY <1>1, <1>3, <1>4 DEF ThreadWakeups, Broadcasts, AtWait
<1>6. Cardinality(Awake') \in {Cardinality(Awake), Cardinality(Awake) + 1}
  BY <1>3, AwakeFinite, FS_AddElement
<1>7. Is("semaphore")' /\ AtWait' # {} => obj'.permits <= Cardinality(Awake')
  <2> SUFFICES ASSUME Is("semaphore"), AtWait # {}
               PROVE  obj.permits <= Cardinality(Awake')
    BY <1>1, <1>3 DEF Is
  <2>1. obj.permits <= Cardinality(Awake)
    BY DEF ThreadWakeups, Awake
  <2> QED
    BY <1>6, <2>1, AwakeFinite, AwakeFiniteAfter, SMT DEF StateInv, ObjectType
<1>8. Is("auto_event")' /\ AtWait' # {} /\ obj'.signaled => Cardinality(Awake') > 0
  <2> SUFFICES ASSUME Is("auto_event"), AtWait # {}, obj.signaled
               PROVE  Cardinality(Awake') > 0
    BY <1>1, <1>3 DEF Is
  <2>1. Cardinality(Awake) > 0
    BY DEF ThreadWakeups, Awake
  <2> QED
    BY <1>6, <2>1, AwakeFinite, AwakeFiniteAfter, SMT
<1> QED
  BY <1>2, <1>5, <1>7, <1>8 DEF ThreadWakeups, Awake

-----------------------------------------------------------------------------
(* Operations.                                                             *)

\* n permits, n notifications.
LEMMA ReleaseStep ==
  ASSUME ThreadsInv, NEW w \in Wakers, NEW n \in 1 .. 2, Release(w, n)
  PROVE  ThreadsInv'
<1> USE DEF ThreadsInv
<1>1. /\ Is("semaphore") /\ obj' = [obj EXCEPT !.permits = @ + n, !.given = @ + n]
      /\ Notify(n) /\ token' = token
  BY DEF Release
<1>2. n \in Nat
  BY SMT
<1>3. /\ obj' \in ObjectType /\ obj'.kind = obj.kind /\ obj'.count = obj.count
      /\ obj'.expected = obj.expected /\ obj'.permits = obj.permits + n
  <2>1. obj \in ObjectType
    BY DEF StateInv
  <2>2. obj.permits + n \in Nat /\ obj.given + n \in Nat
    BY <1>2, <2>1, SMT DEF ObjectType
  <2> QED
    BY <1>1, <2>1, <2>2 DEF ObjectType
<1>4. StateInv'
  BY <1>1, <1>3 DEF StateInv, ThreadStates, Notify, WakeThreads
<1>5. CASE AtWait' = {}
  BY <1>4, <1>5, NobodyWaits
<1>6. CASE AtWait # {} /\ Cardinality(Awake') = Cardinality(Awake) + n
  <2>1. obj.permits <= Cardinality(Awake)
    BY <1>1, <1>6 DEF ThreadWakeups, Awake
  <2>2. obj'.permits <= Cardinality(Awake')
    BY <1>2, <1>3, <1>6, <2>1, AwakeFinite, SMT DEF StateInv, ObjectType
  <2> QED
    BY <1>1, <1>3, <1>4, <2>2 DEF ThreadWakeups, Is, Broadcasts, Awake
<1> QED
  BY <1>1, <1>2, <1>5, <1>6, NotifyWakes

\* The signal of an automatic event is one notification, of the other it is for everybody.
LEMMA SetStep ==
  ASSUME ThreadsInv, NEW w \in Wakers, Set(w)
  PROVE  ThreadsInv'
<1> USE DEF ThreadsInv
<1>1. /\ obj' = [obj EXCEPT !.signaled = TRUE, !.given = @ + 1] /\ token' = token
      /\ (Is("auto_event") /\ Notify(1)) \/ (Is("manual_event") /\ NotifyAll)
  BY DEF Set
<1>2. /\ obj' \in ObjectType /\ obj'.kind = obj.kind /\ obj'.count = obj.count
      /\ obj'.expected = obj.expected
  <2>1. obj \in ObjectType
    BY DEF StateInv
  <2>2. obj.given + 1 \in Nat
    BY <2>1, SMT DEF ObjectType
  <2> QED
    BY <1>1, <2>1, <2>2 DEF ObjectType
<1>3. StateInv'
  BY <1>1, <1>2 DEF StateInv, ThreadStates, Notify, NotifyAll, WakeThreads
<1>4. CASE AtWait' = {}
  BY <1>3, <1>4, NobodyWaits
<1>5. CASE Is("auto_event") /\ Cardinality(Awake') = Cardinality(Awake) + 1
  <2>1. Cardinality(Awake') > 0
    BY <1>5, AwakeFinite, SMT
  <2> QED
    BY <1>2, <1>3, <1>5, <2>1 DEF ThreadWakeups, Is, Broadcasts, Awake
<1> QED
  BY <1>1, <1>4, <1>5, EverybodyWoken, NotifyWakes

\* The last arrival notifies everybody, the others change nothing that is waited for.
LEMMA ArrivalStep ==
  ASSUME ThreadsInv, Is("barrier"), NEW x \in Actors, token' = [token EXCEPT ![x] = obj.phase],
         NEW o \in ObjectType, o.kind = obj.kind, o.phase = obj.phase, o.count <= o.expected,
         obj' = Completed(o), NotifyPhase(o)
  PROVE  ThreadsInv'
<1> USE DEF ThreadsInv
<1>1. obj' \in ObjectType /\ obj'.count <= obj'.expected /\ obj'.kind = obj.kind
  BY CompletedFacts
<1>2. \A t \in Threads : t # x /\ token'[t] = token[t]
  BY ThreadsAssumption DEF StateInv
<1>3. StateInv'
  BY <1>1 DEF StateInv, ObjectType, ThreadStates, NotifyPhase, NotifyAll, WakeThreads
<1>4. CASE o.count = 0
  <2>1. AtWait' = {}
    BY <1>4, EverybodyWoken DEF NotifyPhase
  <2> QED
    BY <1>3, <2>1, NobodyWaits
<1>5. CASE o.count # 0
  <2>1. obj' = o /\ thr' = thr
    BY <1>5 DEF Completed, NotifyPhase
  <2>2. AtWait' = AtWait
    BY <2>1 DEF AtWait
  <2>3. \A t \in AtWait : Ready(t)' => Ready(t)
    BY <1>2, <2>1 DEF Ready, BarrierReady, Is, AtWait
  <2> QED
    BY <1>1, <1>3, <2>2, <2>3 DEF ThreadWakeups, Is, Broadcasts
<1> QED
  BY <1>4, <1>5

\* A party arrives: it waits as a coroutine, does not wait, or leaves for good.
LEMMA ArriveStep ==
  ASSUME ThreadsInv, NEW x \in Actors, Arrive(x) \/ ArriveAndDrop(x)
  PROVE  ThreadsInv'
<1>1. obj \in ObjectType /\ obj.count <= obj.expected /\ obj.count > 0 /\ Is("barrier")
  BY DEF ThreadsInv, StateInv, Arrive, ArriveAndDrop
<1>2. CASE Arrive(x)
  <2> DEFINE o == [obj EXCEPT !.count = @ - 1]
  <2>1. obj.count - 1 \in Nat /\ obj.count - 1 <= obj.expected
    BY <1>1, SMT DEF ObjectType
  <2>2. /\ o \in ObjectType /\ o.kind = obj.kind /\ o.phase = obj.phase
        /\ o.count = obj.count - 1 /\ o.expected = obj.expected
    BY <1>1, <2>1 DEF ObjectType
  <2>3. obj' = Completed(o) /\ NotifyPhase(o) /\ token' = [token EXCEPT ![x] = obj.phase]
    BY <1>2 DEF Arrive
  <2> HIDE DEF o
  <2> QED
    BY <1>1, <2>1, <2>2, <2>3, ArrivalStep
<1>3. CASE ArriveAndDrop(x)
  <2> DEFINE o == [obj EXCEPT !.expected = @ - 1, !.count = @ - 1]
  <2>1. /\ obj.count - 1 \in Nat /\ obj.expected - 1 \in Nat
        /\ obj.count - 1 <= obj.expected - 1
    BY <1>1, SMT DEF ObjectType
  <2>2. /\ o \in ObjectType /\ o.kind = obj.kind /\ o.phase = obj.phase
        /\ o.count = obj.count - 1 /\ o.expected = obj.expected - 1
    BY <1>1, <2>1 DEF ObjectType
  <2>3. obj' = Completed(o) /\ NotifyPhase(o) /\ token' = [token EXCEPT ![x] = obj.phase]
    BY <1>3 DEF ArriveAndDrop
  <2> HIDE DEF o
  <2> QED
    BY <1>1, <2>1, <2>2, <2>3, ArrivalStep
<1> QED
  BY <1>2, <1>3

\* A new value notifies everybody.
LEMMA NewVersionStep ==
  ASSUME ThreadsInv, NewVersion, token' = token
  PROVE  ThreadsInv'
<1> USE DEF ThreadsInv
<1>1. obj \in ObjectType /\ obj' = [obj EXCEPT !.version = @ + 1] /\ NotifyAll
  BY DEF NewVersion, StateInv
<1>2. obj.version + 1 \in Nat
  BY <1>1, SMT DEF ObjectType
<1>3. obj' \in ObjectType /\ obj'.count = obj.count /\ obj'.expected = obj.expected
  BY <1>1, <1>2 DEF ObjectType
<1>4. StateInv'
  BY <1>1, <1>3 DEF StateInv, ThreadStates, NotifyAll, WakeThreads
<1> QED
  BY <1>1, <1>4, EverybodyWoken, NobodyWaits

-----------------------------------------------------------------------------
(* Coroutines, and the specification.                                      *)

\* Nothing is given, and no thread moves.
LEMMA QuietStep ==
  ASSUME ThreadsInv, thr' = thr, token' \in [Actors \union Threads -> Nat \union {Null}],
         \A t \in Threads : token'[t] = token[t],
         obj' \in ObjectType, obj'.kind = obj.kind, obj'.phase = obj.phase,
         obj'.version = obj.version, obj'.count = obj.count, obj'.expected = obj.expected,
         obj'.permits <= obj.permits, obj'.signaled => obj.signaled
  PROVE  ThreadsInv'
<1>1. StateInv'
  BY DEF ThreadsInv, StateInv
<1> QED
  BY <1>1, NothingNew DEF ThreadsInv

\* What a coroutine takes, in ready_impl, at the end of suspend_impl or in resume_impl, a
\* thread does not wait for: it takes away, and gives nothing back.
LEMMA CoroutineStep ==
  ASSUME ThreadsInv, NEW c \in Coros,
         \/ AwaitReady(c) \/ AwaitTooLate(c) \/ AwaitSuspend(c) \/ RegisterNode(c)
         \/ Recheck(c) \/ ResumePlain(c) \/ ResumeTimed(c) \/ Relook(c)
  PROVE  ThreadsInv'
<1> USE DEF ThreadsInv
<1>1. thr' = thr /\ token' = token
  BY DEF AwaitReady, AwaitTooLate, AwaitSuspend, RegisterNode, Recheck, ResumePlain,
     ResumeTimed, Relook, primitiveVars
<1>2. \/ obj' = obj
      \/ Ready(c) /\ (obj' = Taken \/ Admit(Taken))
      \/ Admit(obj)
      \/ obj' = [obj EXCEPT !.admitted = IF obj.signaled THEN @ + 1 ELSE @]
  BY DEF AwaitReady, AwaitTooLate, AwaitSuspend, RegisterNode, Recheck, ResumePlain,
     ResumeTimed, Relook, primitiveVars
<1>3. obj \in ObjectType /\ obj.permits \in Nat /\ obj.permits <= obj.permits
  BY SMT DEF StateInv, ObjectType
<1>4. /\ obj' \in ObjectType /\ obj'.kind = obj.kind /\ obj'.phase = obj.phase
      /\ obj'.version = obj.version /\ obj'.count = obj.count /\ obj'.expected = obj.expected
      /\ obj'.permits <= obj.permits
      /\ obj'.signaled => obj.signaled
  <2>1. CASE obj' = obj
    BY <1>3, <2>1
  <2>2. CASE Ready(c) /\ (obj' = Taken \/ Admit(Taken))
    <3>1. Taken.permits <= obj.permits
      BY <1>3, <2>2, TakenFacts, SMT
    <3> QED
      BY <2>2, <3>1, TakenFacts, AdmitFacts
  <2>3. CASE Admit(obj)
    BY <1>3, <2>3, AdmitFacts
  <2>4. CASE obj' = [obj EXCEPT !.admitted = IF obj.signaled THEN @ + 1 ELSE @]
    <3>1. obj.admitted \in Nat /\ obj.admitted + 1 \in Nat
      BY <1>3, SMT DEF ObjectType
    <3> QED
      BY <1>3, <2>4, <3>1 DEF ObjectType
  <2> QED
    BY <1>2, <2>1, <2>2, <2>3, <2>4
<1> QED
  BY <1>1, <1>4, QuietStep DEF StateInv

\* arrive() before the co_await, or version().
LEMMA PrepareStep ==
  ASSUME ThreadsInv, NEW c \in Coros, Prepare(c)
  PROVE  ThreadsInv'
<1>1. c \in Actors /\ c \notin Threads
  BY ThreadsAssumption DEF Actors
<1>2. CASE Arrive(c)
  BY <1>1, <1>2, ArriveStep
<1>3. CASE thr' = thr /\ obj' = obj /\ token' = [token EXCEPT ![c] = obj.version]
  <2>1. /\ obj \in ObjectType /\ obj.version \in Nat /\ obj.permits \in Nat
        /\ obj.permits <= obj.permits
    BY SMT DEF ThreadsInv, StateInv, ObjectType
  <2>2. token' \in [Actors \union Threads -> Nat \union {Null}]
    BY <1>3, <2>1 DEF ThreadsInv, StateInv
  <2>3. \A t \in Threads : token'[t] = token[t]
    BY <1>1, <1>3 DEF ThreadsInv, StateInv
  <2> QED
    BY <1>3, <2>1, <2>2, <2>3, QuietStep
<1> QED
  BY <1>2, <1>3 DEF Prepare

\* reset() takes the signal away.
LEMMA ResetStep ==
  ASSUME ThreadsInv, NEW w \in Wakers, Reset(w)
  PROVE  ThreadsInv'
<1>1. obj' = [obj EXCEPT !.signaled = FALSE] /\ thr' = thr /\ token' = token
  BY DEF Reset
<1>2. obj \in ObjectType /\ obj.permits \in Nat /\ obj.permits <= obj.permits
  BY SMT DEF ThreadsInv, StateInv, ObjectType
<1>3. /\ obj' \in ObjectType /\ obj'.kind = obj.kind /\ obj'.phase = obj.phase
      /\ obj'.version = obj.version /\ obj'.count = obj.count /\ obj'.expected = obj.expected
      /\ obj'.permits = obj.permits /\ ~obj'.signaled
  BY <1>1, <1>2 DEF ObjectType
<1> QED
  BY <1>1, <1>2, <1>3, QuietStep DEF ThreadsInv, StateInv

\* Where the object and the threads stay, the invariant does.
LEMMA UnchangedStep ==
  ASSUME ThreadsInv, UNCHANGED primitiveVars
  PROVE  ThreadsInv'
<1>1. obj \in ObjectType /\ obj.permits \in Nat /\ obj.permits <= obj.permits
  BY SMT DEF ThreadsInv, StateInv, ObjectType
<1> QED
  BY <1>1, QuietStep DEF primitiveVars, ThreadsInv, StateInv

\* Every operation of every primitive keeps the invariant.
LEMMA ThreadsStep ==
  ThreadsInv /\ [PrimitivesNext]_<<waiterVars, primitiveVars>> => ThreadsInv'
<1>1. ASSUME ThreadsInv, NEW t \in Threads,
             Call(t) \/ ThreadGets(t) \/ ThreadWaits(t) \/ ThreadWakes(t)
      PROVE  ThreadsInv'
  BY <1>1, CallStep, ThreadGetsStep, ThreadWaitsStep, ThreadWakesStep
<1>2. ASSUME ThreadsInv, NEW w \in Wakers, PrimitivesOp(w) PROVE ThreadsInv'
  <2>1. w \in Actors
    BY DEF Actors
  <2>2. CASE ArriveOnly(w) \/ ArriveAndDrop(w)
    BY <1>2, <2>1, <2>2, ArriveStep DEF ArriveOnly
  <2>3. CASE Store(w) \/ ModifyAndGet(w)
    BY <1>2, <2>3, NewVersionStep DEF Store, ModifyAndGet
  <2>4. CASE (\E n \in 1 .. 2 : Release(w, n)) \/ Set(w) \/ Reset(w)
    BY <1>2, <2>4, ReleaseStep, SetStep, ResetStep
  <2> QED
    BY <1>2, <2>2, <2>3, <2>4 DEF PrimitivesOp
<1>3. ASSUME ThreadsInv, NEW c \in Coros,
             \/ Prepare(c) \/ AwaitReady(c) \/ AwaitTooLate(c) \/ AwaitSuspend(c)
             \/ PrimitivesCoro(c)
      PROVE  ThreadsInv'
  BY <1>3, PrepareStep, CoroutineStep DEF PrimitivesCoro
<1>4. ASSUME ThreadsInv, NEW a \in Actors, AfterArrive(a) PROVE ThreadsInv'
  BY <1>4, UnchangedStep DEF AfterArrive, primitiveVars
<1> QED
  BY <1>1, <1>2, <1>3, <1>4, UnchangedStep DEF PrimitivesNext

\* An object begins with nothing given and nobody waiting.
LEMMA ThreadsBegin == PrimitivesInit => ThreadsInv
<1> SUFFICES ASSUME PrimitivesInit PROVE ThreadsInv
  OBVIOUS
<1>1. PICK k \in Kinds, n \in Nat : obj = Object(k, n)
  <2>1. \A k \in Kinds : (IF k = "barrier" THEN Parties ELSE {0}) \subseteq Nat
    BY PartiesAssumption
  <2> QED
    BY <2>1 DEF PrimitivesInit
<1>2. obj \in ObjectType /\ obj.count = n /\ obj.expected = n
  BY <1>1 DEF Object, ObjectType
<1>3. n <= n
  BY SMT
<1>4. StateInv
  BY <1>2, <1>3 DEF PrimitivesInit, StateInv, ThreadStates
<1>5. AtWait = {}
  BY DEF PrimitivesInit, AtWait
<1> QED
  BY <1>4, <1>5 DEF ThreadsInv, ThreadWakeups

\* The blocking calls of semaphore, event, barrier and shared value lose no notification:
\* release(n) notifies n times, set() of an automatic event once, the others everybody, and
\* that is enough whatever coroutines, timeouts and spurious wake-ups come between.
THEOREM NoNotificationLost == PrimitivesSpec => []ThreadWakeups
<1>1. ThreadsInv => ThreadWakeups
  BY DEF ThreadsInv
<1> QED
  BY <1>1, ThreadsBegin, ThreadsStep, PTL DEF PrimitivesSpec

-----------------------------------------------------------------------------
(* Coroutines at the primitives.                                            *)

\* The lists that each coroutine uses: the object's.
PrimitiveUses == [c \in Coros |-> {Waiters}]

\* A wake_all is to come.
Announced(l) == \E a \in Actors :
  /\ wk[a].at = "all" /\ \E i \in DOMAIN wk[a].todo : wk[a].todo[i] = l
\* A party that ended the phase has yet to wake the coroutines.
PhaseAnnounced == \E a \in Actors : wk[a].at = "arrived" /\ token[a] # obj.phase

\* Somebody has yet to wake everybody.
Coming == Announced(Waiters) \/ PhaseAnnounced

\* What the calls of the wakers are about.
PrimitiveCalls ==
  /\ \A a \in Actors : /\ wk[a].todo \in Seq({Waiters})
                       /\ wk[a].at = "arrived" => Is("barrier") /\ token[a] \in 0 .. obj.phase

\* Which awaiters have a gate, and that their timer is there.
TimedInv(c) ==
  /\ timer[c] \/ sus[c] \in {"arm", "gate"} => IsTimed(c)
  /\ st[c] = "awaiting" \/ sus[c] # "none" => (gate[c] = "none" <=> ~IsTimed(c))
  /\ st[c] = "awaiting" /\ IsTimed(c) => timer[c] \/ sus[c] = "arm"
  /\ sus[c] \in {"none", "arm", "add", "check", "gate"}

\* Why a coroutine is suspended although what it waits for is there.
GapInv(c) ==
  Broadcasts /\ Ready(c) /\ st[c] = "awaiting" =>
    /\ missed[c] \/ Coming
    /\ gate[c] # "none" /\ sus[c] = "none" => Coming

\* The plain coroutines that go on with a permit.
Granted == {c \in Coros \ Timed : st[c] = "runnable"}
\* The calls of wake_one that remain.
Owed == {p \in Actors \X (1 .. 2) : p[2] <= Len(wk[p[1]].todo)}
\* Each permit that was given stands for two of these at most: somebody admitted, a permit
\* in permits_, a coroutine granted one, a wake_one owed.
PermitInv ==
  Is("semaphore") =>
    /\ obj.admitted + obj.permits + Cardinality(Granted) + Cardinality(Owed) <= 2 * obj.given
    /\ ~obj.signaled
    /\ \A a \in Actors : wk[a].at \in {"idle", "load", "cas"} /\ Len(wk[a].todo) <= 2

\* The coroutines that have taken a permit and not gone on.
Holders == {c \in Coros : found[c]}
\* When a coroutine has found what it awaits, and that no permit disappears.
LedgerInv ==
  /\ found \in [Coros -> BOOLEAN] /\ lost \in Nat
  /\ \A c \in Coros : found[c] => StillAwaits(c) /\ sus[c] \in {"none", "gate"}
  /\ Is("semaphore") =>
       obj.given <= obj.permits + obj.admitted + lost + Cardinality(Holders)

\* The lists, gates and timers of a primitive's coroutines.
AwaitersInv == Waiting(PrimitiveUses) /\ \A c \in Coros : TimedInv(c)

\* The one list of a primitive.
LEMMA PrimitiveUsesType ==
  /\ PrimitiveUses \in [Coros -> SUBSET Lists] /\ Waiters \in Lists
  /\ \A c \in Coros : PrimitiveUses[c] = {Waiters}
BY ObjAssumption DEF PrimitiveUses, Waiters, Lists

\* The calls that a waker begins.
LEMMA CallTypes ==
  /\ Idle \in CallType
  /\ \A l \in Lists : /\ WakeOne(<<l>>) \in CallType /\ WakeAll(<<l>>) \in CallType
                      /\ [WakeAll(<<l>>) EXCEPT !.at = "arrived"] \in CallType
                      /\ <<l>> # <<>>
  /\ \A l \in Lists : \A n \in 1 .. 2 : /\ WakeOne([i \in 1 .. n |-> l]) \in CallType
                                        /\ [i \in 1 .. n |-> l] # <<>>
                                        /\ [i \in 1 .. n |-> l] \in Seq({l})
                                        /\ Len([i \in 1 .. n |-> l]) = n
<1>1. Idle \in CallType
  BY DEF Idle, CallType
<1>2. ASSUME NEW l \in Lists
      PROVE  /\ WakeOne(<<l>>) \in CallType /\ WakeAll(<<l>>) \in CallType
             /\ [WakeAll(<<l>>) EXCEPT !.at = "arrived"] \in CallType
             /\ <<l>> # <<>>
  <2>1. PICK s : s = <<l>>
    OBVIOUS
  <2>2. s \in Seq(Lists) /\ s # <<>>
    BY <2>1
  <2>3. /\ WakeOne(s) \in CallType /\ WakeAll(s) \in CallType
        /\ [WakeAll(s) EXCEPT !.at = "arrived"] \in CallType
    BY <2>2 DEF WakeOne, WakeAll, CallType
  <2> QED
    BY <2>1, <2>2, <2>3
<1>3. ASSUME NEW l \in Lists, NEW n \in 1 .. 2
      PROVE  /\ WakeOne([i \in 1 .. n |-> l]) \in CallType
             /\ [i \in 1 .. n |-> l] # <<>>
             /\ [i \in 1 .. n |-> l] \in Seq({l})
             /\ Len([i \in 1 .. n |-> l]) = n
  <2>1. PICK s : s = [i \in 1 .. n |-> l]
    OBVIOUS
  <2>2. n \in Nat \ {0}
    BY SMT
  <2>3. s \in [1 .. n -> {l}] /\ s \in [1 .. n -> Lists]
    BY <2>1
  <2>4. s \in Seq({l}) /\ s \in Seq(Lists)
    BY <2>2, <2>3, SeqDef
  <2>5. Len(s) = n
    BY <2>1, <2>2, SMT
  <2>6. s # <<>>
    BY <2>2, <2>4, <2>5, EmptySeq
  <2>7. WakeOne(s) \in CallType
    BY <2>4 DEF WakeOne, CallType
  <2> QED
    BY <2>1, <2>4, <2>5, <2>6, <2>7
<1> QED
  BY <1>1, <1>2, <1>3

\* A primitive stays of its kind.
LEMMA KindKept ==
  ASSUME StateInv, [PrimitivesNext]_<<waiterVars, primitiveVars>>
  PROVE  obj'.kind = obj.kind
<1>1. obj \in ObjectType
  BY DEF StateInv
<1>2. \A o \in ObjectType : Completed(o).kind = o.kind
  BY DEF Completed, CompletePhase, ObjectType
<1>3. Taken.kind = obj.kind /\ [Taken EXCEPT !.admitted = @ + 1].kind = obj.kind
  BY <1>1 DEF Taken, Acquired, Waited, ObjectType
<1>4. CASE UNCHANGED primitiveVars
  BY <1>4 DEF primitiveVars
<1>5. ASSUME NEW x, Is("barrier"), obj.count > 0
      PROVE  /\ [obj EXCEPT !.count = @ - 1].kind = obj.kind
             /\ Completed([obj EXCEPT !.count = @ - 1]).kind = obj.kind
             /\ Completed([obj EXCEPT !.expected = @ - 1, !.count = @ - 1]).kind = obj.kind
  BY <1>1 DEF Completed, CompletePhase, ObjectType
<1>6. ASSUME NEW c \in Coros,
             \/ Prepare(c) \/ AwaitReady(c) \/ AwaitTooLate(c) \/ AwaitSuspend(c)
             \/ PrimitivesCoro(c)
      PROVE  obj'.kind = obj.kind
  <2>1. CASE Prepare(c)
    BY <1>5, <2>1 DEF Prepare, Arrive
  <2>2. CASE AwaitReady(c) \/ AwaitTooLate(c) \/ AwaitSuspend(c) \/ RegisterNode(c)
    BY <1>3, <2>2 DEF AwaitReady, AwaitTooLate, AwaitSuspend, RegisterNode, primitiveVars
  <2>3. CASE Recheck(c) \/ ResumePlain(c) \/ ResumeTimed(c) \/ Relook(c)
    BY <1>1, <1>3, <2>3 DEF Recheck, ResumePlain, ResumeTimed, Relook, Admit, ObjectType
  <2> QED
    BY <1>6, <2>1, <2>2, <2>3 DEF PrimitivesCoro
<1>7. ASSUME NEW t \in Threads, Call(t) \/ ThreadGets(t) \/ ThreadWaits(t) \/ ThreadWakes(t)
      PROVE  obj'.kind = obj.kind
  BY <1>3, <1>5, <1>7 DEF Call, ThreadGets, ThreadWaits, ThreadWakes, Admit
<1>8. ASSUME NEW w \in Wakers, PrimitivesOp(w) PROVE obj'.kind = obj.kind
  <2>1. CASE ArriveOnly(w) \/ ArriveAndDrop(w)
    BY <1>5, <2>1 DEF ArriveOnly, ArriveAndDrop, Arrive
  <2>2. CASE (\E n \in 1 .. 2 : Release(w, n)) \/ Set(w) \/ Reset(w)
    BY <1>1, <2>2 DEF Release, Set, Reset, ObjectType
  <2>3. CASE Store(w) \/ ModifyAndGet(w)
    BY <1>1, <2>3 DEF Store, ModifyAndGet, NewVersion, ObjectType
  <2> QED
    BY <1>8, <2>1, <2>2, <2>3 DEF PrimitivesOp
<1>9. ASSUME NEW a \in Actors, AfterArrive(a) PROVE obj'.kind = obj.kind
  BY <1>9 DEF AfterArrive, primitiveVars
<1> QED
  BY <1>4, <1>6, <1>7, <1>8, <1>9 DEF PrimitivesNext, primitiveVars

\* What comes before co_await leaves the coroutine fresh.
LEMMA BeginsFresh ==
  ASSUME WaitersInv, NEW c \in Coros, BeginsAwait(c) \/ MayAwait(c)
  PROVE  Fresh(c) /\ (MayAwait(c) => sus[c] = "none")
<1>1. CASE MayAwait(c)
  BY <1>1, MayAwaitFacts DEF MayAwait, FreshNode
<1>2. CASE ~MayAwait(c)
  BY <1>2 DEF BeginsAwait, WaitersInv, GateInv, Aside
<1> QED
  BY <1>1, <1>2

\* The lists, gates and wakers under the operations of a primitive.
LEMMA PrimitiveWaiting ==
  ASSUME AwaitersInv, [PrimitivesNext]_<<waiterVars, primitiveVars>>
  PROVE  Waiting(PrimitiveUses)'
<1> DEFINE uses == PrimitiveUses
<1>1. Waiting(uses) /\ WaitersInv /\ WaitersType /\ \A c \in Coros : TimedInv(c)
  BY DEF AwaitersInv, Waiting, WaitersInv
<1>2. missed \in [Coros -> BOOLEAN] /\ (Unannounced => missed' \in [Coros -> BOOLEAN])
  BY <1>1 DEF WaitersType, Unannounced
<1>3. CASE UNCHANGED <<listVars, frameVars, st, wakes, wk, missed>>
  BY <1>1, <1>2, <1>3, StillStep
<1>4. ASSUME NEW t \in Threads, Call(t) \/ ThreadGets(t) \/ ThreadWaits(t) \/ ThreadWakes(t)
      PROVE  Waiting(uses)'
  <2>1. CASE Call(t)
    BY <1>1, <1>2, <2>1, StillStep DEF Call
  <2>2. CASE ThreadGets(t) \/ ThreadWaits(t) \/ ThreadWakes(t)
    BY <1>3, <2>2 DEF ThreadGets, ThreadWaits, ThreadWakes, ThrGoto, waiterVars, listVars,
                          frameVars
  <2> QED
    BY <1>4, <2>1, <2>2
<1>5. ASSUME NEW a \in Actors, NEW call \in CallType, SetWake(a, call), call.at # "cas",
             call.node = Null, call.at # "idle" => call.todo # <<>>,
             UNCHANGED <<listVars, frameVars, st, wakes, missed>>
      PROVE  Waiting(uses)'
  BY <1>1, <1>2, <1>5, WakerCallStep DEF SetWake
<1>6. ASSUME NEW w \in Wakers, PrimitivesOp(w) PROVE Waiting(uses)'
  <2>1. w \in Actors
    BY DEF Actors
  <2>2. CASE Reset(w) \/ ModifyAndGet(w) \/ ArriveAndDrop(w)
    BY <1>1, <1>2, <2>2, StillStep DEF Reset, ModifyAndGet, ArriveAndDrop, Operate
  <2>3. ASSUME NEW n \in 1 .. 2, Release(w, n) PROVE Waiting(uses)'
    <3>1. PICK call : call = WakeOne([i \in 1 .. n |-> Waiters])
      OBVIOUS
    <3>2. call \in CallType /\ call.at = "load" /\ call.node = Null /\ call.todo # <<>>
      BY <3>1, CallTypes, PrimitiveUsesType DEF WakeOne
    <3>3. SetWake(w, call) /\ UNCHANGED <<listVars, frameVars, st, wakes, missed>>
      BY <2>3, <3>1 DEF Release, Operate
    <3> QED
      BY <1>5, <2>1, <3>2, <3>3
  <2>4. CASE Set(w) \/ Store(w) \/ ArriveOnly(w)
    <3>1. PICK call \in {WakeOne(<<Waiters>>), WakeAll(<<Waiters>>),
                         [WakeAll(<<Waiters>>) EXCEPT !.at = "arrived"]} : SetWake(w, call)
      BY <2>4 DEF Set, Store, ArriveOnly
    <3>2. call \in CallType /\ call.at # "cas" /\ call.node = Null /\ call.todo # <<>>
      <4>1. call \in CallType
        BY CallTypes, PrimitiveUsesType
      <4>2. call.at # "cas" /\ call.node = Null /\ call.todo = <<Waiters>>
        BY DEF WakeOne, WakeAll
      <4> QED
        BY <4>1, <4>2, CallTypes, PrimitiveUsesType
    <3>3. UNCHANGED <<listVars, frameVars, st, wakes, missed>>
      BY <2>4 DEF Set, Store, ArriveOnly, Operate
    <3> QED
      BY <1>5, <2>1, <3>1, <3>2, <3>3
  <2> QED
    BY <1>6, <2>2, <2>3, <2>4 DEF PrimitivesOp
<1>7. ASSUME NEW a \in Actors, AfterArrive(a) PROVE Waiting(uses)'
  <2>1. PICK call \in {WakeAll(<<Waiters>>), Idle} : SetWake(a, call)
    BY <1>7 DEF AfterArrive
  <2>2. /\ call \in CallType /\ call.at # "cas" /\ call.node = Null
        /\ call.at # "idle" => call.todo # <<>>
    <3>1. call \in CallType
      BY CallTypes, PrimitiveUsesType
    <3>2. /\ call.at # "cas" /\ call.node = Null
          /\ call.at # "idle" => call.todo = <<Waiters>>
      BY DEF Idle, WakeAll
    <3> QED
      BY <3>1, <3>2, CallTypes, PrimitiveUsesType
  <2>3. UNCHANGED <<listVars, frameVars, st, wakes, missed>>
    BY <1>7 DEF AfterArrive
  <2> QED
    BY <1>5, <2>1, <2>2, <2>3
<1>8. ASSUME NEW c \in Coros,
             \/ Prepare(c) \/ AwaitReady(c) \/ AwaitTooLate(c) \/ AwaitSuspend(c)
      PROVE  Waiting(uses)'
  <2>1. Fresh(c) /\ (MayAwait(c) => sus[c] = "none")
    BY <1>1, <1>8, BeginsFresh DEF Prepare, AwaitReady, AwaitTooLate, AwaitSuspend
  <2>2. CASE Prepare(c)
    <3>1. PICK call : call = [WakeAll(<<Waiters>>) EXCEPT !.at = "arrived"]
      OBVIOUS
    <3>2. call \in CallType /\ call.at = "arrived" /\ call.node = Null /\ call.todo # <<>>
      BY <3>1, CallTypes, PrimitiveUsesType DEF WakeAll
    <3>3. /\ st' = [st EXCEPT ![c] = "prepared"]
          /\ UNCHANGED <<listVars, frameVars, wakes, missed>>
          /\ wk' = wk \/ wk' = [wk EXCEPT ![c] = call]
          /\ sus[c] = "none"
      BY <2>1, <2>2, <3>1 DEF Prepare, SetWake
    <3> QED
      BY <1>1, <2>1, <3>2, <3>3, PrepareNodeStep
  <2>3. CASE GoOn(c)
    BY <1>1, <2>1, <2>3, GoOnStep
  <2>4. CASE AwaitSuspend(c)
    <3>1. PICK k \in {"none", "open"}, p \in {"arm", "add"} :
            Suspend(c, k, p) /\ (p = "arm" => k = "open")
      BY <2>4 DEF AwaitSuspend
    <3> QED
      BY <1>1, <2>1, <3>1, SuspendStep
  <2> QED
    BY <1>8, <2>2, <2>3, <2>4 DEF AwaitReady, AwaitTooLate
<1>9. ASSUME NEW c \in Coros, PrimitivesCoro(c) \/ Abandon(c) PROVE Waiting(uses)'
  <2>1. CASE RegisterNode(c)
    <3>1. sus[c] = "add" /\ Register(c, Waiters, "check") /\ \A k \in uses[c] : k = Waiters
      BY <2>1, PrimitiveUsesType DEF RegisterNode
    <3> HIDE DEF uses
    <3> QED
      BY <1>1, <3>1, PrimitiveUsesType, RegisterStep
  <2>2. CASE Recheck(c)
    <3>1. /\ sus[c] = "check"
          /\ UNCHANGED <<listVars, gate, timer, st, awaits, wakes, missed, wk>>
          /\ \/ SusGoto(c, "none")
             \/ SusGoto(c, "gate") /\ IsTimed(c)
      BY <2>2 DEF Recheck
    <3>2. IsTimed(c) => gate[c] # "none"
      BY <1>1, <3>1 DEF TimedInv
    <3> QED
      BY <1>1, <3>1, <3>2, SusStep
  <2>3. CASE Abandon(c)
    BY <1>1, <2>3, SusStep DEF Abandon, Gone
  <2>4. CASE ResumePlain(c) \/ ResumeTimed(c) \/ Relook(c)
    <3>1. PICK p \in {"done", "relook"} :
            /\ st[c] \in {"runnable", "relook"} /\ st' = [st EXCEPT ![c] = p]
            /\ UNCHANGED <<listVars, frameVars, wakes, missed, wk>>
      BY <2>4 DEF ResumePlain, ResumeTimed, Relook, Resume, ResumeAt
    <3> QED
      BY <1>1, <3>1, ResumeStep
  <2> QED
    BY <1>9, <2>1, <2>2, <2>3, <2>4 DEF PrimitivesCoro
<1>10. ASSUME NEW c \in Coros, Arm(c) \/ TakeGate(c) \/ TimerFires(c) PROVE Waiting(uses)'
  BY <1>1, <1>10, ArmStep, GatedStep DEF TakeGate, TimerFires
<1>11. ASSUME NEW a \in Actors, WakeStep(a) PROVE Waiting(uses)'
  BY <1>1, <1>11, WakersStep
<1>12. CASE UNCHANGED <<waiterVars, primitiveVars>>
  BY <1>3, <1>12 DEF waiterVars, listVars, frameVars
<1> QED
  BY <1>4, <1>6, <1>7, <1>8, <1>9, <1>10, <1>11, <1>12 DEF PrimitivesNext

\* Which gate a coroutine has, and its timer.
LEMMA TimedStep ==
  ASSUME AwaitersInv, StateInv, [PrimitivesNext]_<<waiterVars, primitiveVars>>,
         NEW c \in Coros
  PROVE  TimedInv(c)'
<1>1. WaitersInv /\ WaitersType /\ TimedInv(c) /\ GateInv(c)
  BY DEF AwaitersInv, Waiting, WaitersInv
<1>2. IsTimed(c)' <=> IsTimed(c)
  BY KindKept DEF IsTimed, HasTimedAwaiter
<1>3. CASE /\ gate'[c] = gate[c] /\ timer'[c] = timer[c] /\ sus'[c] = sus[c]
           /\ st'[c] = "awaiting" => st[c] = "awaiting"
  BY <1>1, <1>2, <1>3 DEF TimedInv
<1>4. CASE UNCHANGED <<frameVars, st>>
  BY <1>3, <1>4 DEF frameVars
<1>5. ASSUME NEW d \in Coros,
             \/ Prepare(d) \/ ResumePlain(d) \/ ResumeTimed(d) \/ Relook(d)
      PROVE  TimedInv(c)'
  <2>1. \E p \in {"prepared", "done", "relook"} : st' = [st EXCEPT ![d] = p]
    BY <1>5 DEF Prepare, ResumePlain, ResumeTimed, Relook, Resume, ResumeAt
  <2>2. UNCHANGED frameVars
    BY <1>5 DEF Prepare, ResumePlain, ResumeTimed, Relook, Resume, ResumeAt
  <2>3. st'[c] = "awaiting" => st[c] = "awaiting"
    BY <1>1, <2>1 DEF WaitersType
  <2> QED
    BY <1>3, <2>2, <2>3 DEF frameVars
<1>6. ASSUME NEW d \in Coros, AwaitReady(d) \/ AwaitTooLate(d) \/ AwaitSuspend(d)
      PROVE  TimedInv(c)'
  <2>1. Fresh(d) /\ ~timer[d]
    BY <1>1, <1>6, BeginsFresh, FreshFacts DEF AwaitReady, AwaitTooLate, AwaitSuspend
  <2>2. CASE GoOn(d)
    <3>1. /\ st' = [st EXCEPT ![d] = "runnable"] /\ sus' = [sus EXCEPT ![d] = "none"]
          /\ gate' = gate /\ timer' = timer
      BY <2>2 DEF GoOn
    <3>2. CASE c = d
      <4>1. st'[c] = "runnable" /\ sus'[c] = "none" /\ ~timer'[c]
        BY <1>1, <2>1, <3>1, <3>2 DEF WaitersType
      <4> QED
        BY <4>1 DEF TimedInv
    <3>3. CASE c # d
      <4>1. st'[c] = st[c] /\ sus'[c] = sus[c]
        BY <1>1, <3>1, <3>3 DEF WaitersType
      <4> QED
        BY <1>3, <3>1, <4>1
    <3> QED
      BY <3>2, <3>3
  <2>3. CASE AwaitSuspend(d)
    <3>1. PICK k \in {"none", "open"}, p \in {"arm", "add"} :
            /\ Suspend(d, k, p)
            /\ IsTimed(d) => k = "open" /\ p = "arm"
            /\ ~IsTimed(d) => k = "none" /\ p = "add"
      BY <2>3 DEF AwaitSuspend
    <3>2. /\ st' = [st EXCEPT ![d] = "awaiting"] /\ sus' = [sus EXCEPT ![d] = p]
          /\ gate' = [gate EXCEPT ![d] = k] /\ timer' = timer
      BY <3>1 DEF Suspend
    <3>3. CASE c = d
      <4>1. st'[c] = "awaiting" /\ sus'[c] = p /\ gate'[c] = k /\ ~timer'[c]
        BY <1>1, <2>1, <3>2, <3>3 DEF WaitersType
      <4> QED
        BY <1>2, <3>1, <3>3, <4>1 DEF TimedInv
    <3>4. CASE c # d
      <4>1. st'[c] = st[c] /\ sus'[c] = sus[c] /\ gate'[c] = gate[c]
        BY <1>1, <3>2, <3>4 DEF WaitersType
      <4> QED
        BY <1>3, <3>2, <4>1
    <3> QED
      BY <3>3, <3>4
  <2> QED
    BY <1>6, <2>2, <2>3 DEF AwaitReady, AwaitTooLate
<1>7. ASSUME NEW d \in Coros, RegisterNode(d) \/ Recheck(d) \/ Abandon(d) \/ Arm(d)
      PROVE  TimedInv(c)'
  <2>1. TimedInv(d) /\ sus \in [Coros -> SusPoints]
    BY <1>1 DEF AwaitersInv, WaitersType
  <2>2. /\ gate' = gate /\ st' = st
        /\ \/ timer' = timer
           \/ timer' = [timer EXCEPT ![d] = TRUE] /\ sus[d] = "arm"
        /\ \E p \in {"none", "add", "check", "gate"} :
             /\ sus' = [sus EXCEPT ![d] = p]
             /\ p = "gate" => IsTimed(d)
             /\ sus[d] # "none" \/ sus[d] = p
             /\ st[d] = "awaiting" /\ IsTimed(d) => timer'[d]
    <3>1. CASE RegisterNode(d)
      BY <2>1, <3>1 DEF RegisterNode, Register, SusGoto, TimedInv
    <3>2. CASE Recheck(d)
      BY <2>1, <3>2 DEF Recheck, SusGoto, TimedInv
    <3>3. CASE Abandon(d)
      <4>1. /\ st[d] = "done" /\ sus[d] # "none" /\ sus' = [sus EXCEPT ![d] = "none"]
            /\ timer' = timer /\ gate' = gate /\ st' = st
        BY <3>3 DEF Abandon, Gone, SusGoto
      <4> QED
        BY <2>1, <4>1 DEF TimedInv
    <3>4. CASE Arm(d)
      BY <1>1, <2>1, <3>4 DEF Arm, SusGoto, TimedInv, WaitersType
    <3> QED
      BY <1>7, <3>1, <3>2, <3>3, <3>4
  <2>3. CASE c = d
    BY <1>1, <1>2, <2>1, <2>2, <2>3 DEF TimedInv, WaitersType
  <2>4. CASE c # d
    <3>1. sus'[c] = sus[c] /\ timer'[c] = timer[c] /\ gate'[c] = gate[c] /\ st'[c] = st[c]
      BY <1>1, <2>2, <2>4 DEF WaitersType
    <3> QED
      BY <1>3, <3>1
  <2> QED
    BY <2>3, <2>4
<1>8. ASSUME NEW cs \in SUBSET Coros, Deliver(cs), \A x \in cs : Reached(x),
             timer'[c] = timer[c] \/ (c \in cs /\ ~timer'[c]),
             sus'[c] = sus[c] \/ (c \in cs /\ sus'[c] = "none")
      PROVE  TimedInv(c)'
  <2>1. CASE c \in cs
    <3>1. /\ st'[c] # "awaiting"
          /\ gate'[c] = IF gate[c] = "none" THEN "none" ELSE "taken"
      BY <1>1, <1>8, <2>1, DeliverFacts
    <3> QED
      BY <1>1, <1>2, <1>8, <3>1 DEF TimedInv
  <2>2. CASE c \notin cs
    <3>1. st'[c] = st[c] /\ gate'[c] = gate[c]
      BY <1>1, <1>8, <2>2, DeliverFacts
    <3> QED
      BY <1>3, <1>8, <2>2, <3>1
  <2> QED
    BY <2>1, <2>2
<1>9. ASSUME NEW d \in Coros, TakeGate(d) \/ TimerFires(d) PROVE TimedInv(c)'
  <2>1. PICK cs : cs = {d}
    OBVIOUS
  <2>2. cs \in SUBSET Coros /\ Deliver(cs) /\ \A x \in cs : Reached(x)
    BY <1>9, <2>1 DEF TakeGate, TimerFires, Reached
  <2>3. timer'[c] = timer[c] \/ (c \in cs /\ ~timer'[c])
    BY <1>1, <1>9, <2>1 DEF TakeGate, TimerFires, WaitersType
  <2>4. sus'[c] = sus[c] \/ (c \in cs /\ sus'[c] = "none")
    BY <1>1, <1>9, <2>1 DEF TakeGate, TimerFires, WaitersType, SusGoto
  <2> QED
    BY <1>8, <2>2, <2>3, <2>4
<1>10. ASSUME NEW a \in Actors, WakeStep(a) PROVE TimedInv(c)'
  <2>1. timer' = timer /\ sus' = sus
    BY <1>1, <1>10, WakeDelivers
  <2>2. CASE gate' = gate /\ st' = st
    BY <1>3, <2>1, <2>2
  <2>3. ASSUME NEW cs \in SUBSET Coros, Deliver(cs), \A x \in cs : Reached(x)
        PROVE  TimedInv(c)'
    BY <1>8, <2>1, <2>3
  <2> QED
    BY <1>1, <1>10, <2>2, <2>3, WakeDelivers
<1>11. ASSUME NEW t \in Threads, Call(t) \/ ThreadGets(t) \/ ThreadWaits(t) \/ ThreadWakes(t)
       PROVE  TimedInv(c)'
  BY <1>4, <1>11 DEF Call, ThreadGets, ThreadWaits, ThreadWakes, ThrGoto, waiterVars, frameVars
<1>12. ASSUME NEW w \in Wakers, PrimitivesOp(w) PROVE TimedInv(c)'
  BY <1>4, <1>12
     DEF PrimitivesOp, Release, Set, Reset, ArriveOnly, ArriveAndDrop, Store, ModifyAndGet,
         Operate
<1>13. ASSUME NEW a \in Actors, AfterArrive(a) PROVE TimedInv(c)'
  BY <1>4, <1>13 DEF AfterArrive
<1>14. CASE UNCHANGED <<waiterVars, primitiveVars>>
  BY <1>4, <1>14 DEF waiterVars, frameVars
<1> QED
  BY <1>5, <1>6, <1>7, <1>9, <1>10, <1>11, <1>12, <1>13, <1>14
     DEF PrimitivesNext, PrimitivesCoro

-----------------------------------------------------------------------------
(* Permits.                                                                *)

\* There are finitely many who may be owed or granted a permit.
LEMMA ActorsFinite == IsFiniteSet(Coros) /\ IsFiniteSet(Actors \X (1 .. 2))
<1>1. IsFiniteSet(Actors)
  BY CorosAssumption, FS_Union DEF Actors
<1>2. IsFiniteSet(1 .. 2)
  <2>1. 1 \in Int /\ 2 \in Int
    OBVIOUS
  <2> QED
    BY <2>1, FS_Interval
<1> QED
  BY <1>1, <1>2, CorosAssumption, FS_Product

\* The accounts of the permits can be counted.
LEMMA AccountsFinite ==
  /\ IsFiniteSet(Granted) /\ Cardinality(Granted) \in Nat
  /\ IsFiniteSet(Owed) /\ Cardinality(Owed) \in Nat
<1>1. Granted \in SUBSET Coros /\ Owed \in SUBSET (Actors \X (1 .. 2))
  BY DEF Granted, Owed
<1>2. IsFiniteSet(Granted) /\ IsFiniteSet(Owed)
  BY <1>1, ActorsFinite, FS_Subset
<1> QED
  BY <1>2, FS_CardinalityType

\* The same after a step.
LEMMA AccountsFiniteAfter ==
  /\ IsFiniteSet(Granted') /\ Cardinality(Granted') \in Nat
  /\ IsFiniteSet(Owed') /\ Cardinality(Owed') \in Nat
<1>1. Granted' \in SUBSET Coros /\ Owed' \in SUBSET (Actors \X (1 .. 2))
  BY DEF Granted, Owed
<1>2. IsFiniteSet(Granted') /\ IsFiniteSet(Owed')
  BY <1>1, ActorsFinite, FS_Subset
<1> QED
  BY <1>2, FS_CardinalityType

\* A set that gains at most one element, or loses one.
LEMMA OneOrLess ==
  ASSUME NEW S, IsFiniteSet(S), NEW T, NEW x
  PROVE  /\ T \subseteq S => Cardinality(T) <= Cardinality(S)
         /\ T \subseteq S \union {x} => Cardinality(T) <= Cardinality(S) + 1
         /\ x \in S /\ T \subseteq S \ {x} => Cardinality(T) <= Cardinality(S) - 1
<1>1. Cardinality(S) \in Nat
  BY FS_CardinalityType
<1>2. T \subseteq S => Cardinality(T) <= Cardinality(S)
  BY FS_Subset
<1>3. ASSUME T \subseteq S \union {x} PROVE Cardinality(T) <= Cardinality(S) + 1
  <2>1. /\ IsFiniteSet(S \union {x})
        /\ Cardinality(S \union {x}) \in {Cardinality(S), Cardinality(S) + 1}
    BY FS_AddElement
  <2>2. Cardinality(T) <= Cardinality(S \union {x}) /\ IsFiniteSet(T)
    BY <1>3, <2>1, FS_Subset
  <2>3. Cardinality(T) \in Nat
    BY <2>2, FS_CardinalityType
  <2> QED
    BY <1>1, <2>1, <2>2, <2>3, SMT
<1>4. ASSUME x \in S, T \subseteq S \ {x} PROVE Cardinality(T) <= Cardinality(S) - 1
  <2>1. IsFiniteSet(S \ {x}) /\ Cardinality(S \ {x}) = Cardinality(S) - 1
    BY <1>4, FS_RemoveElement
  <2> QED
    BY <1>4, <2>1, FS_Subset
<1> QED
  BY <1>2, <1>3, <1>4

\* What is admitted, left, granted and owed is covered by what was given.
Balanced(ad, pe, gr, ow, gi) ==
  /\ ad \in Nat /\ pe \in Nat /\ gr \in Nat /\ ow \in Nat /\ gi \in Nat
  /\ ad + pe + gr + ow <= 2 * gi

\* It grows by no more than twice what is given.
Posted(ad, pe, gr, ow, gi, adn, pen, grn, own, gin) ==
  /\ adn \in Nat /\ pen \in Nat /\ grn \in Nat /\ own \in Nat /\ gin \in Nat
  /\ \E g, o \in Int, n \in Nat :
       /\ grn <= gr + g
       /\ own <= ow + o
       /\ gin = gi + n
       /\ adn + pen + g + o <= ad + pe + 2 * n

\* The books after a step.
LEMMA PermitCount ==
  ASSUME NEW g \in Int, NEW o \in Int, NEW n \in Nat
  PROVE  /\ StateInv /\ StateInv' /\ PermitInv /\ Is("semaphore") /\ ~obj'.signaled
         /\ Cardinality(Granted') <= Cardinality(Granted) + g
         /\ Cardinality(Owed') <= Cardinality(Owed) + o
         /\ obj'.given = obj.given + n
         /\ obj'.admitted + obj'.permits + g + o <= obj.admitted + obj.permits + 2 * n
         /\ \A a \in Actors : wk'[a].at \in {"idle", "load", "cas"} /\ Len(wk'[a].todo) <= 2
         => PermitInv'
<1>1. ASSUME StateInv, StateInv'
      PROVE  /\ obj.admitted \in Nat /\ obj.permits \in Nat /\ obj.given \in Nat
             /\ obj'.admitted \in Nat /\ obj'.permits \in Nat /\ obj'.given \in Nat
  BY <1>1 DEF StateInv, ObjectType
<1>2. /\ Cardinality(Granted) \in Nat /\ Cardinality(Owed) \in Nat
      /\ Cardinality(Granted') \in Nat /\ Cardinality(Owed') \in Nat
  BY AccountsFinite, AccountsFiniteAfter
<1>3. ASSUME StateInv, StateInv', PermitInv, Is("semaphore")
      PROVE  Balanced(obj.admitted, obj.permits, Cardinality(Granted), Cardinality(Owed), obj.given)
  BY <1>1, <1>2, <1>3 DEF PermitInv, Balanced
<1>4. ASSUME StateInv, StateInv',
             Cardinality(Granted') <= Cardinality(Granted) + g,
             Cardinality(Owed') <= Cardinality(Owed) + o,
             obj'.given = obj.given + n,
             obj'.admitted + obj'.permits + g + o <= obj.admitted + obj.permits + 2 * n
      PROVE  Posted(obj.admitted, obj.permits, Cardinality(Granted), Cardinality(Owed), obj.given,
               obj'.admitted, obj'.permits, Cardinality(Granted'), Cardinality(Owed'), obj'.given)
  BY <1>1, <1>2, <1>4 DEF Posted
<1>5. ASSUME NEW ad, NEW pe, NEW gr, NEW ow, NEW gi,
             NEW adn, NEW pen, NEW grn, NEW own, NEW gin,
             Balanced(ad, pe, gr, ow, gi), Posted(ad, pe, gr, ow, gi, adn, pen, grn, own, gin)
      PROVE  adn + pen + grn + own <= 2 * gin
  BY <1>5 DEF Balanced, Posted
<1>6. ASSUME Balanced(obj.admitted, obj.permits, Cardinality(Granted), Cardinality(Owed),
               obj.given),
             Posted(obj.admitted, obj.permits, Cardinality(Granted), Cardinality(Owed), obj.given,
               obj'.admitted, obj'.permits, Cardinality(Granted'), Cardinality(Owed'), obj'.given)
      PROVE  obj'.admitted + obj'.permits + Cardinality(Granted') + Cardinality(Owed')
               <= 2 * obj'.given
  BY <1>5, <1>6, Zenon
<1> QED
  BY <1>3, <1>4, <1>6 DEF PermitInv

\* Nobody is scheduled and no call begins.
LEMMA PermitsStay ==
  ASSUME StateInv, StateInv', WaitersType, PermitInv, Is("semaphore"), wk' = wk,
         \A c \in Coros : st'[c] = "runnable" => st[c] = "runnable" \/ c \in Timed,
         ~obj'.signaled, obj'.given = obj.given,
         obj'.admitted + obj'.permits <= obj.admitted + obj.permits
  PROVE  PermitInv'
<1>1. Granted' \subseteq Granted /\ Owed' = Owed
  BY DEF Granted, Owed
<1>2. Cardinality(Granted') <= Cardinality(Granted) /\ Cardinality(Owed') = Cardinality(Owed)
  BY <1>1, AccountsFinite, OneOrLess
<1>3. /\ obj.admitted \in Nat /\ obj.permits \in Nat /\ obj.given \in Nat
      /\ obj'.admitted \in Nat /\ obj'.permits \in Nat
  BY DEF StateInv, ObjectType
<1>4. /\ Cardinality(Granted') <= Cardinality(Granted) + 0
      /\ Cardinality(Owed') <= Cardinality(Owed) + 0
      /\ obj'.given = obj.given + 0 /\ 0 \in Nat /\ 0 \in Int
      /\ obj'.admitted + obj'.permits + 0 + 0 <= obj.admitted + obj.permits + 2 * 0
  BY <1>2, <1>3, AccountsFinite, AccountsFiniteAfter, SMT
<1>5. \A a \in Actors : wk'[a].at \in {"idle", "load", "cas"} /\ Len(wk'[a].todo) <= 2
  BY DEF PermitInv
<1> QED
  BY <1>4, <1>5, PermitCount

\* release takes one or two permits.
LEMMA SmallNumbers ==
  /\ \A k \in Nat : k # 0 /\ k <= 2 => k \in 1 .. 2
  /\ \A i, n \in 1 .. 2 : i <= n => i = 1 \/ (i = 2 /\ n = 2)
  /\ \A k \in Nat : \A n \in 1 .. 2 : k <= n => k <= 2
BY SMT

\* The number of permits under way before and after a step.
LEMMA PermitTypes ==
  ASSUME StateInv, StateInv'
  PROVE  /\ obj.admitted \in Nat /\ obj.permits \in Nat /\ obj.given \in Nat
         /\ obj'.admitted \in Nat /\ obj'.permits \in Nat /\ obj'.given \in Nat
         /\ Cardinality(Granted) \in Nat /\ Cardinality(Owed) \in Nat
         /\ IsFiniteSet(Granted) /\ IsFiniteSet(Owed)
BY AccountsFinite DEF StateInv, ObjectType

\* What somebody takes from a semaphore, and what an end of its wait counts.
LEMMA SemaphoreTaken ==
  ASSUME StateInv, Is("semaphore"), NEW x, Ready(x)
  PROVE  /\ Taken.permits + 1 = obj.permits /\ Taken.admitted = obj.admitted
         /\ Taken.given = obj.given /\ Taken.signaled = obj.signaled
<1>1. obj.permits \in Nat /\ obj \in ObjectType
  BY DEF StateInv, ObjectType
<1>2. Taken = [obj EXCEPT !.permits = @ - 1]
  BY DEF Taken, Acquired, Is
<1>3. obj.permits - 1 + 1 = obj.permits
  BY <1>1, SMT
<1> QED
  BY <1>1, <1>2, <1>3 DEF ObjectType

\* A thread or coroutine looks, takes, or ends its wait.
LEMMA LookFacts ==
  ASSUME StateInv, StateInv', Is("semaphore"), ~obj.signaled, NEW x,
         \/ obj' = obj
         \/ Ready(x) /\ (obj' = Taken \/ Admit(Taken))
  PROVE  /\ ~obj'.signaled /\ obj'.given = obj.given
         /\ obj'.admitted + obj'.permits <= obj.admitted + obj.permits
<1>1. /\ obj.admitted \in Nat /\ obj.permits \in Nat
      /\ obj'.admitted \in Nat /\ obj'.permits \in Nat
  BY DEF StateInv, ObjectType
<1>2. CASE obj' = obj
  BY <1>1, <1>2, SMT
<1>3. ASSUME Ready(x), obj' = Taken PROVE /\ ~obj'.signaled /\ obj'.given = obj.given
         /\ obj'.admitted + obj'.permits <= obj.admitted + obj.permits
  <2>1. obj'.permits + 1 = obj.permits /\ obj'.admitted = obj.admitted
    BY <1>3, SemaphoreTaken
  <2>2. obj'.admitted + obj'.permits <= obj.admitted + obj.permits
    BY <1>1, <2>1, SMT
  <2> QED
    BY <1>3, <2>2, SemaphoreTaken
<1>4. ASSUME Ready(x), Admit(Taken) PROVE /\ ~obj'.signaled /\ obj'.given = obj.given
         /\ obj'.admitted + obj'.permits <= obj.admitted + obj.permits
  <2>1. Taken \in ObjectType
    BY <1>4, TakenFacts
  <2>2. /\ obj'.admitted = Taken.admitted + 1 /\ obj'.permits = Taken.permits
        /\ obj'.given = Taken.given /\ obj'.signaled = Taken.signaled
    BY <1>4, <2>1 DEF Admit, ObjectType
  <2>3. obj'.permits + 1 = obj.permits /\ obj'.admitted = obj.admitted + 1
    BY <1>4, <2>2, SemaphoreTaken
  <2>4. obj'.admitted + obj'.permits <= obj.admitted + obj.permits
    BY <1>1, <2>3, SMT
  <2> QED
    BY <1>4, <2>2, <2>4, SemaphoreTaken
<1> QED
  BY <1>2, <1>3, <1>4

\* A coroutine that goes on at once takes its permit along.
LEMMA PermitAwaitReady ==
  ASSUME StateInv, StateInv', WaitersType, PermitInv, Is("semaphore"),
         NEW c \in Coros, AwaitReady(c)
  PROVE  PermitInv'
<1>1. Ready(c) /\ obj' = Taken /\ st' = [st EXCEPT ![c] = "runnable"] /\ wk' = wk
  BY DEF AwaitReady, GoOn
<1>2. Granted' \subseteq Granted \union {c} /\ Owed' = Owed
  BY <1>1 DEF Granted, Owed, WaitersType
<1>3. /\ Cardinality(Granted') <= Cardinality(Granted) + 1
      /\ Cardinality(Owed') <= Cardinality(Owed) + 0
  <2>1. Cardinality(Owed) <= Cardinality(Owed) + 0
    BY PermitTypes, SMT
  <2> QED
    BY <1>2, <2>1, PermitTypes, OneOrLess
<1>4. /\ obj'.permits + 1 = obj.permits /\ obj'.admitted = obj.admitted
      /\ obj'.given = obj.given /\ ~obj'.signaled
  BY <1>1, SemaphoreTaken DEF PermitInv
<1>5. /\ obj'.given = obj.given + 0
      /\ obj'.admitted + obj'.permits + 1 + 0 <= obj.admitted + obj.permits + 2 * 0
  BY <1>4, PermitTypes, SMT
<1>6. 0 \in Int /\ 1 \in Int /\ 0 \in Nat
  OBVIOUS
<1>7. \A a \in Actors : wk'[a].at \in {"idle", "load", "cas"} /\ Len(wk'[a].todo) <= 2
  BY <1>1 DEF PermitInv
<1> QED
  BY <1>3, <1>4, <1>5, <1>6, <1>7, PermitCount

\* resume_impl of a plain coroutine ends its wait.
LEMMA PermitResumePlain ==
  ASSUME StateInv, StateInv', WaitersType, PermitInv, Is("semaphore"),
         NEW c \in Coros, ResumePlain(c)
  PROVE  PermitInv'
<1>1. /\ c \notin Timed /\ st[c] = "runnable" /\ st' = [st EXCEPT ![c] = "done"]
      /\ wk' = wk /\ obj' = [obj EXCEPT !.admitted = @ + 1]
  BY DEF ResumePlain, Resume, ResumeAt, IsTimed, HasTimedAwaiter, Is, Admit
<1>2. c \in Granted /\ Granted' \subseteq Granted \ {c} /\ Owed' = Owed
  BY <1>1 DEF Granted, Owed, WaitersType
<1>3. /\ Cardinality(Granted') <= Cardinality(Granted) + (-1)
      /\ Cardinality(Owed') <= Cardinality(Owed) + 0
  <2>1. Cardinality(Granted') <= Cardinality(Granted) - 1
    BY <1>2, PermitTypes, OneOrLess
  <2>2. Cardinality(Granted) - 1 = Cardinality(Granted) + (-1)
    BY PermitTypes, SMT
  <2>3. Cardinality(Owed) <= Cardinality(Owed) + 0
    BY PermitTypes, SMT
  <2> QED
    BY <1>2, <2>1, <2>2, <2>3
<1>4. /\ obj'.permits = obj.permits /\ obj'.admitted = obj.admitted + 1
      /\ obj'.given = obj.given /\ ~obj'.signaled
  BY <1>1 DEF PermitInv, StateInv, ObjectType
<1>5. /\ obj'.given = obj.given + 0
      /\ obj'.admitted + obj'.permits + (-1) + 0 <= obj.admitted + obj.permits + 2 * 0
  BY <1>4, PermitTypes, SMT
<1>6. 0 \in Int /\ -1 \in Int /\ 0 \in Nat
  OBVIOUS
<1>7. \A a \in Actors : wk'[a].at \in {"idle", "load", "cas"} /\ Len(wk'[a].todo) <= 2
  BY <1>1 DEF PermitInv
<1> QED
  BY <1>3, <1>4, <1>5, <1>6, <1>7, PermitCount

\* release(n): n permits, and n calls of wake_one.
LEMMA PermitRelease ==
  ASSUME StateInv, StateInv', WaitersType, PermitInv, Is("semaphore"),
         NEW w \in Wakers, NEW n \in 1 .. 2, Release(w, n)
  PROVE  PermitInv'
<1>1. w \in Actors /\ Waiters \in Lists /\ n \in Nat
  BY PrimitiveUsesType DEF Actors
<1>2. PICK call : call = WakeOne([i \in 1 .. n |-> Waiters])
  OBVIOUS
<1>3. call \in CallType /\ call.at = "load" /\ Len(call.todo) = n
  BY <1>1, <1>2, CallTypes DEF WakeOne
<1>4. /\ wk[w] = Idle /\ wk' = [wk EXCEPT ![w] = call] /\ st' = st
      /\ obj' = [obj EXCEPT !.permits = @ + n, !.given = @ + n]
  BY <1>2 DEF Release, Operate, SetWake
<1>5. wk'[w] = call /\ \A a \in Actors : a # w => wk'[a] = wk[a]
  BY <1>1, <1>4 DEF WaitersType
<1>6. Granted' = Granted
  BY <1>4 DEF Granted
<1>7. Cardinality(Owed') <= Cardinality(Owed) + n
  <2>1. \A p \in Owed' : p \in Owed \/ p = <<w, 1>> \/ (p = <<w, 2>> /\ n = 2)
    <3> SUFFICES ASSUME NEW p \in Owed'
                 PROVE  p \in Owed \/ p = <<w, 1>> \/ (p = <<w, 2>> /\ n = 2)
      OBVIOUS
    <3>0. p \in Actors \X (1 .. 2) /\ p[2] <= Len(wk'[p[1]].todo)
      BY DEF Owed
    <3> DEFINE a == p[1]
               i == p[2]
    <3>1. a \in Actors /\ i \in 1 .. 2 /\ p = <<a, i>> /\ i <= Len(wk'[a].todo)
      BY <3>0
    <3>2. CASE a # w
      <4>1. p \in Actors \X (1 .. 2) /\ wk'[p[1]] = wk[p[1]] /\ p[2] <= Len(wk'[p[1]].todo)
        BY <1>5, <3>0, <3>2
      <4> QED
        BY <4>1 DEF Owed
    <3>3. CASE a = w
      <4>1. i <= n
        BY <1>3, <1>5, <3>1, <3>3
      <4>2. i \in 1 .. 2
        BY <3>1
      <4>3. i = 1 \/ (i = 2 /\ n = 2)
        BY <4>1, <4>2, SmallNumbers
      <4> QED
        BY <3>1, <3>3, <4>3
    <3> QED
      BY <3>2, <3>3
  <2> DEFINE one == Owed \union {<<w, 1>>}
  <2>2. /\ IsFiniteSet(one) /\ Cardinality(one) \in Nat
        /\ Cardinality(one) <= Cardinality(Owed) + 1
    <3>1. IsFiniteSet(one)
      BY PermitTypes, FS_AddElement
    <3> QED
      BY <3>1, PermitTypes, OneOrLess, FS_CardinalityType
  <2>3. Cardinality(Owed') \in Nat
    BY AccountsFiniteAfter
  <2>4. CASE n = 1
    <3>1. Owed' \subseteq one
      BY <2>1, <2>4
    <3> HIDE DEF one
    <3>2. Cardinality(Owed') <= Cardinality(one)
      BY <2>2, <3>1, OneOrLess
    <3> QED
      BY <2>2, <2>3, <2>4, <3>2, PermitTypes, SMT
  <2>5. CASE n = 2
    <3>1. Owed' \subseteq one \union {<<w, 2>>}
      BY <2>1, <2>5
    <3> HIDE DEF one
    <3>2. Cardinality(Owed') <= Cardinality(one) + 1
      BY <2>2, <3>1, OneOrLess
    <3> QED
      BY <2>2, <2>3, <2>5, <3>2, PermitTypes, SMT
  <2> QED
    BY <2>4, <2>5
<1>8. /\ obj'.permits = obj.permits + n /\ obj'.admitted = obj.admitted
      /\ obj'.given = obj.given + n /\ ~obj'.signaled
  BY <1>4 DEF PermitInv, StateInv, ObjectType
<1>9. obj'.admitted + obj'.permits + 0 + n <= obj.admitted + obj.permits + 2 * n
  BY <1>1, <1>8, PermitTypes, SMT
<1>10. \A a \in Actors : wk'[a].at \in {"idle", "load", "cas"} /\ Len(wk'[a].todo) <= 2
  BY <1>3, <1>5 DEF PermitInv
<1>11. Cardinality(Granted') <= Cardinality(Granted) + 0
  BY <1>6, PermitTypes, SMT
<1>12. 0 \in Int /\ n \in Int /\ n \in Nat
  BY <1>1
<1> QED
  BY <1>7, <1>8, <1>9, <1>10, <1>11, <1>12, PermitCount

\* A waker has woken one coroutine, which goes on with a permit that the call owed, or it
\* has found none, and the call is over.
LEMMA PermitWake ==
  ASSUME StateInv, StateInv', WaitersInv, PermitInv, Is("semaphore"), obj' = obj,
         NEW a \in Actors, WakeStep(a)
  PROVE  PermitInv'
<1>1. WaitersType /\ wk[a] \in CallType /\ wk[a].todo # <<>> /\ wk[a].todo \in Seq(Lists)
  BY WakeDelivers DEF WaitersInv, CallType
<1>2. PICK len \in Nat : len = Len(wk[a].todo) /\ len \in 1 .. 2
  <2>1. Len(wk[a].todo) \in Nat /\ Len(wk[a].todo) # 0 /\ Len(wk[a].todo) <= 2
    BY <1>1, EmptySeq, LenProperties DEF PermitInv
  <2>2. Len(wk[a].todo) \in 1 .. 2
    BY <2>1, SmallNumbers
  <2> QED
    BY <2>1, <2>2
<1>3. /\ Following(a).at \in {"idle", "load"}
      /\ Len(Following(a).todo) = len - 1
  <2>1. wk[a].at \in {"idle", "load", "cas"}
    BY DEF PermitInv
  <2>2. CASE len = 1
    <3>1. Following(a) = Idle
      BY <1>2, <2>2 DEF Following
    <3> QED
      BY <2>2, <3>1, EmptySeq DEF Idle
  <2>3. CASE len # 1
    <3>1. Following(a) = [wk[a] EXCEPT !.todo = Tail(@), !.node = Null, !.nx = Null,
                                       !.at = IF @ = "cas" THEN "load" ELSE @]
      BY <1>2, <2>3 DEF Following
    <3>2. /\ Following(a).at \in {"idle", "load"} /\ Following(a).todo = Tail(wk[a].todo)
      BY <1>1, <2>1, <3>1 DEF CallType
    <3> QED
      BY <1>1, <1>2, <3>2, HeadTailProperties
  <2> QED
    BY <2>2, <2>3
<1>4. PICK call \in CallType :
        /\ wk' = [wk EXCEPT ![a] = call]
        /\ call.at \in {"idle", "load", "cas"} /\ Len(call.todo) <= len
        /\ \/ st' = st
           \/ /\ Len(call.todo) = len - 1
              /\ \E n \in Coros : \A d \in Coros \ {n} : st'[d] = st[d]
  <2>1. CASE /\ UNCHANGED <<head, gate, st, wakes, missed>>
             /\ wk[a].at \in {"load", "cas"}
             /\ \E call \in CallType : /\ wk' = [wk EXCEPT ![a] = call]
                                       /\ \/ call = Idle
                                          \/ call = Following(a)
                                          \/ call.at = "cas" /\ call.todo = wk[a].todo
    <3>1. PICK call \in CallType : /\ wk' = [wk EXCEPT ![a] = call]
                                   /\ \/ call = Idle
                                      \/ call = Following(a)
                                      \/ call.at = "cas" /\ call.todo = wk[a].todo
      BY <2>1
    <3>2. Idle.at = "idle" /\ Len(Idle.todo) = 0
      BY EmptySeq DEF Idle
    <3>3. len - 1 <= len /\ 0 <= len /\ len <= len
      BY SMT
    <3>4. call.at \in {"idle", "load", "cas"} /\ Len(call.todo) <= len
      BY <1>2, <1>3, <3>1, <3>2, <3>3
    <3> QED
      BY <2>1, <3>1, <3>4
  <2>2. ASSUME NEW l \in Lists, NEW cs \in SUBSET Coros, Deliver(cs), \A x \in cs : Reached(x),
               wk' = [wk EXCEPT ![a] = Following(a)], wk[a].at = "cas", cs = {wk[a].node}
        PROVE  \E call \in CallType :
                 /\ wk' = [wk EXCEPT ![a] = call]
                 /\ call.at \in {"idle", "load", "cas"} /\ Len(call.todo) <= len
                 /\ \/ st' = st
                    \/ /\ Len(call.todo) = len - 1
                       /\ \E n \in Coros : \A d \in Coros \ {n} : st'[d] = st[d]
    <3>1. PICK n \in Coros : n = wk[a].node
      BY <2>2
    <3>2. \A d \in Coros \ {n} : st'[d] = st[d]
      BY <2>2, <3>1, DeliverFacts
    <3>3. Following(a) \in CallType
      BY <1>1, FollowingFacts
    <3>4. len - 1 <= len
      BY SMT
    <3> QED
      BY <1>3, <2>2, <3>2, <3>3, <3>4
  <2>3. wk[a].at # "all"
    BY DEF PermitInv
  <2> QED
    BY <2>1, <2>2, <2>3, WakeDelivers
<1>5. wk'[a] = call /\ \A x \in Actors : x # a => wk'[x] = wk[x]
  BY <1>1, <1>4 DEF WaitersType
<1>6. \A x \in Actors : wk'[x].at \in {"idle", "load", "cas"} /\ Len(wk'[x].todo) <= 2
  <2>1. Len(call.todo) \in Nat
    BY LenProperties DEF CallType
  <2>2. Len(call.todo) <= 2
    BY <1>2, <1>4, <2>1, SmallNumbers
  <2> QED
    BY <1>4, <1>5, <2>2 DEF PermitInv
<1>7. \A p \in Owed' : p \in Owed /\ (p[1] = a => p[2] <= Len(call.todo))
  <2> SUFFICES ASSUME NEW p \in Owed' PROVE p \in Owed /\ (p[1] = a => p[2] <= Len(call.todo))
    OBVIOUS
  <2>1. p \in Actors \X (1 .. 2) /\ p[2] <= Len(wk'[p[1]].todo)
    BY DEF Owed
  <2>2. p[1] \in Actors /\ p[2] \in Nat
    BY <2>1
  <2>3. CASE p[1] = a
    <3>1. p[2] <= Len(call.todo)
      BY <1>5, <2>1, <2>3
    <3>2. Len(call.todo) \in Nat
      BY LenProperties DEF CallType
    <3>3. p[2] <= len
      BY <1>4, <2>2, <3>1, <3>2, SMT
    <3>4. p[2] <= Len(wk[p[1]].todo)
      BY <1>2, <2>3, <3>3
    <3> QED
      BY <2>1, <3>1, <3>4 DEF Owed
  <2>4. CASE p[1] # a
    <3>1. wk'[p[1]] = wk[p[1]]
      BY <1>5, <2>2, <2>4
    <3> QED
      BY <2>1, <2>4, <3>1 DEF Owed
  <2> QED
    BY <2>3, <2>4
<1>8. obj'.given = obj.given /\ ~obj'.signaled
  BY DEF PermitInv
<1>9. 0 \in Int /\ 1 \in Int /\ -1 \in Int /\ 0 \in Nat
  OBVIOUS
<1>10. CASE st' = st
  <2>1. Granted' = Granted /\ Owed' \subseteq Owed
    BY <1>7, <1>10 DEF Granted
  <2>2. Cardinality(Owed') <= Cardinality(Owed)
    BY <2>1, PermitTypes, OneOrLess
  <2>3. /\ Cardinality(Granted') <= Cardinality(Granted) + 0
        /\ Cardinality(Owed') <= Cardinality(Owed) + 0
    BY <2>1, <2>2, PermitTypes, SMT
  <2>4. /\ obj'.given = obj.given + 0
        /\ obj'.admitted + obj'.permits + 0 + 0 <= obj.admitted + obj.permits + 2 * 0
    BY PermitTypes, SMT
  <2> QED
    BY <1>6, <1>8, <1>9, <2>3, <2>4, PermitCount
<1>11. ASSUME NEW n \in Coros, \A d \in Coros \ {n} : st'[d] = st[d], Len(call.todo) = len - 1
       PROVE  PermitInv'
  <2>1. Granted' \subseteq Granted \union {n}
    BY <1>11 DEF Granted
  <2>2. Cardinality(Granted') <= Cardinality(Granted) + 1
    BY <2>1, PermitTypes, OneOrLess
  <2>3. PICK last : last = <<a, len>>
    OBVIOUS
  <2>4. last \in Owed
    <3>1. last \in Actors \X (1 .. 2) /\ last[1] = a /\ last[2] = len
      BY <1>2, <2>3
    <3>2. len <= Len(wk[a].todo)
      BY <1>2, SMT
    <3> QED
      BY <3>1, <3>2 DEF Owed
  <2>5. last \notin Owed'
    <3>1. last[1] = a /\ last[2] = len /\ ~(len <= len - 1)
      BY <2>3, SMT
    <3> QED
      BY <1>7, <1>11, <3>1
  <2>6. Cardinality(Owed') <= Cardinality(Owed) - 1
    <3>1. Owed' \subseteq Owed \ {last}
      BY <1>7, <2>5
    <3> QED
      BY <2>4, <3>1, PermitTypes, OneOrLess
  <2>7. Cardinality(Owed') <= Cardinality(Owed) + (-1)
    <3>1. Cardinality(Owed) - 1 = Cardinality(Owed) + (-1)
      BY PermitTypes, SMT
    <3> QED
      BY <2>6, <3>1
  <2>8. /\ obj'.given = obj.given + 0
        /\ obj'.admitted + obj'.permits + 1 + (-1) <= obj.admitted + obj.permits + 2 * 0
    BY PermitTypes, SMT
  <2> QED
    BY <1>6, <1>8, <1>9, <2>2, <2>7, <2>8, PermitCount
<1> QED
  BY <1>4, <1>10, <1>11

\* The accounts of a semaphore's permits, whatever happens to it.
LEMMA PermitStep ==
  ASSUME StateInv, StateInv', AwaitersInv, PermitInv,
         [PrimitivesNext]_<<waiterVars, primitiveVars>>
  PROVE  PermitInv'
<1> SUFFICES ASSUME Is("semaphore") PROVE PermitInv'
  BY KindKept DEF PermitInv, Is
<1>1. /\ WaitersInv /\ WaitersType /\ \A c \in Coros : TimedInv(c)
      /\ ~obj.signaled /\ \A a \in Actors : wk[a].at # "arrived"
  BY DEF AwaitersInv, Waiting, WaitersInv, PermitInv
<1>2. ASSUME NEW x, wk' = wk,
             \A d \in Coros : st'[d] = "runnable" => st[d] = "runnable" \/ d \in Timed,
             \/ obj' = obj
             \/ Ready(x) /\ (obj' = Taken \/ Admit(Taken))
      PROVE  PermitInv'
  BY <1>1, <1>2, LookFacts, PermitsStay
<1>3. ASSUME NEW t \in Threads, Call(t) \/ ThreadGets(t) \/ ThreadWaits(t) \/ ThreadWakes(t)
      PROVE  PermitInv'
  <2>1. st' = st /\ wk' = wk
    BY <1>3 DEF Call, ThreadGets, ThreadWaits, ThreadWakes, ThrGoto, waiterVars
  <2>2. obj' = obj \/ (Ready(t) /\ Admit(Taken))
    BY <1>3 DEF Call, ThreadGets, ThreadWaits, ThreadWakes, Is
  <2> QED
    BY <1>2, <2>1, <2>2
<1>4. ASSUME NEW w \in Wakers, PrimitivesOp(w) PROVE PermitInv'
  BY <1>1, <1>4, PermitRelease
     DEF PrimitivesOp, Set, Reset, ArriveOnly, ArriveAndDrop, Arrive, Store, ModifyAndGet, Is
<1>5. ASSUME NEW a \in Actors, AfterArrive(a) PROVE PermitInv'
  BY <1>1, <1>5 DEF AfterArrive
<1>6. ASSUME NEW a \in Actors, WakeStep(a), UNCHANGED primitiveVars PROVE PermitInv'
  BY <1>1, <1>6, PermitWake DEF primitiveVars
<1>7. ASSUME NEW c \in Coros, AwaitReady(c) \/ ResumePlain(c) PROVE PermitInv'
  BY <1>1, <1>7, PermitAwaitReady, PermitResumePlain
<1>8. ASSUME NEW c \in Coros, AwaitTooLate(c) \/ AwaitSuspend(c) PROVE PermitInv'
  <2>1. obj' = obj /\ wk' = wk
    BY <1>8 DEF AwaitTooLate, AwaitSuspend, GoOn, Suspend, primitiveVars
  <2>2. \/ st' = [st EXCEPT ![c] = "runnable"] /\ c \in Timed
        \/ st' = [st EXCEPT ![c] = "awaiting"]
    BY <1>8 DEF AwaitTooLate, AwaitSuspend, GoOn, Suspend, IsTimed
  <2>3. \A d \in Coros : st'[d] = "runnable" => st[d] = "runnable" \/ d \in Timed
    BY <1>1, <2>2 DEF WaitersType
  <2> QED
    BY <1>2, <2>1, <2>3
<1>9. ASSUME NEW c \in Coros, \/ RegisterNode(c) \/ Recheck(c)
                              \/ (Arm(c) \/ Abandon(c)) /\ UNCHANGED primitiveVars
      PROVE  PermitInv'
  <2>1. st' = st /\ wk' = wk
    BY <1>9 DEF RegisterNode, Register, Recheck, Arm, Abandon
  <2>2. obj' = obj \/ (Ready(c) /\ obj' = Taken)
    BY <1>9 DEF RegisterNode, Recheck, primitiveVars
  <2> QED
    BY <1>2, <2>1, <2>2
<1>10. ASSUME NEW c \in Coros, ResumeTimed(c) \/ Relook(c) PROVE PermitInv'
  <2>1. wk' = wk /\ \E p \in {"done", "relook"} : st' = [st EXCEPT ![c] = p]
    BY <1>10 DEF ResumeTimed, Relook, Resume, ResumeAt
  <2>2. obj' = obj \/ (Ready(c) /\ Admit(Taken))
    <3>1. obj \in ObjectType
      BY DEF StateInv
    <3>2. [obj EXCEPT !.admitted = IF obj.signaled THEN @ + 1 ELSE @] = obj
      BY <1>1, <3>1 DEF ObjectType
    <3>3. CASE ResumeTimed(c)
      BY <3>3 DEF ResumeTimed
    <3>4. CASE Relook(c)
      BY <3>2, <3>4 DEF Relook
    <3> QED
      BY <1>10, <3>3, <3>4
  <2>3. \A d \in Coros : st'[d] = "runnable" => st[d] = "runnable" \/ d \in Timed
    BY <1>1, <2>1 DEF WaitersType
  <2> QED
    BY <1>2, <2>1, <2>2, <2>3
<1>11. ASSUME NEW c \in Coros, TakeGate(c) \/ TimerFires(c), UNCHANGED primitiveVars
       PROVE  PermitInv'
  <2>1. PICK cs : cs = {c}
    OBVIOUS
  <2>2. cs \in SUBSET Coros /\ Deliver(cs) /\ \A x \in cs : Reached(x)
    BY <1>11, <2>1 DEF TakeGate, TimerFires, Reached
  <2>3. wk' = wk /\ obj' = obj
    BY <1>11 DEF TakeGate, TimerFires, primitiveVars
  <2>4. c \in Timed
    BY <1>1, <1>11 DEF TakeGate, TimerFires, TimedInv, IsTimed
  <2>5. \A d \in Coros : st'[d] = "runnable" => st[d] = "runnable" \/ d \in Timed
    BY <1>1, <2>1, <2>2, <2>4, DeliverFacts
  <2> QED
    BY <1>2, <2>3, <2>5
<1>12. ASSUME NEW c \in Coros, Prepare(c) PROVE PermitInv'
  BY <1>12 DEF Prepare, Arrive, Is
<1>13. CASE UNCHANGED <<waiterVars, primitiveVars>>
  BY <1>2, <1>13 DEF waiterVars, primitiveVars
<1> QED
  BY <1>3, <1>4, <1>5, <1>6, <1>7, <1>8, <1>9, <1>10, <1>11, <1>12, <1>13
     DEF PrimitivesNext, PrimitivesCoro

-----------------------------------------------------------------------------
(* No permit disappears.                                                   *)

\* The coroutines that hold a permit can be counted.
LEMMA HoldersFinite ==
  /\ IsFiniteSet(Holders) /\ Cardinality(Holders) \in Nat
  /\ IsFiniteSet(Holders') /\ Cardinality(Holders') \in Nat
<1>1. Holders \in SUBSET Coros /\ Holders' \in SUBSET Coros
  BY DEF Holders
<1>2. IsFiniteSet(Holders) /\ IsFiniteSet(Holders')
  BY <1>1, ActorsFinite, FS_Subset
<1> QED
  BY <1>2, FS_CardinalityType

\* The books after a step: what is given is in count_, admitted, lost or held.
LEMMA LedgerCount ==
  ASSUME StateInv, StateInv', lost \in Nat, lost' \in Nat, NEW g \in {-1, 0, 1},
         obj.given <= obj.permits + obj.admitted + lost + Cardinality(Holders),
         Cardinality(Holders) + g <= Cardinality(Holders'),
         obj'.given + obj.permits + obj.admitted + lost
           <= obj.given + obj'.permits + obj'.admitted + lost' + g
  PROVE  obj'.given <= obj'.permits + obj'.admitted + lost' + Cardinality(Holders')
<1>1. /\ obj.admitted \in Nat /\ obj.permits \in Nat /\ obj.given \in Nat
      /\ obj'.admitted \in Nat /\ obj'.permits \in Nat /\ obj'.given \in Nat
  BY DEF StateInv, ObjectType
<1>2. Cardinality(Holders) \in Nat /\ Cardinality(Holders') \in Nat
  BY HoldersFinite
<1>3. ASSUME NEW ad \in Nat, NEW pe \in Nat, NEW gi \in Nat, NEW lo \in Nat, NEW ho \in Nat,
             NEW adn \in Nat, NEW pen \in Nat, NEW gin \in Nat, NEW lon \in Nat, NEW hon \in Nat,
             gi <= pe + ad + lo + ho, ho + g <= hon,
             gin + pe + ad + lo <= gi + pen + adn + lon + g
      PROVE  gin <= pen + adn + lon + hon
  BY <1>3, SMT
<1> QED
  BY <1>1, <1>2, <1>3

\* What holds of found and lost while a step leaves them as they are.
LEMMA LedgerKept ==
  ASSUME StateInv, StateInv', LedgerInv, found' = found, lost' = lost,
         \A c \in Coros : found[c] => StillAwaits(c)' /\ sus'[c] \in {"none", "gate"},
         Is("semaphore") =>
           obj'.given + obj.permits + obj.admitted <= obj.given + obj'.permits + obj'.admitted,
         obj'.kind = obj.kind
  PROVE  LedgerInv'
<1>1. Holders' = Holders /\ lost \in Nat
  BY DEF Holders, LedgerInv
<1>2. Is("semaphore")' => Is("semaphore")
  BY DEF Is
<1>3. ASSUME Is("semaphore")
      PROVE  obj'.given <= obj'.permits + obj'.admitted + lost' + Cardinality(Holders')
  <2>1. /\ obj.admitted \in Nat /\ obj.permits \in Nat /\ obj.given \in Nat
        /\ obj'.admitted \in Nat /\ obj'.permits \in Nat /\ obj'.given \in Nat
    BY DEF StateInv, ObjectType
  <2>2. obj'.given + obj.permits + obj.admitted + lost
          <= obj.given + obj'.permits + obj'.admitted + lost' + 0
    BY <1>1, <1>3, <2>1, SMT
  <2>3. Cardinality(Holders) + 0 <= Cardinality(Holders') /\ 0 \in {-1, 0, 1}
    BY <1>1, HoldersFinite, SMT
  <2> QED
    BY <1>1, <1>3, <2>2, <2>3, LedgerCount DEF LedgerInv
<1> QED
  BY <1>2, <1>3 DEF LedgerInv

\* A look at the object takes one permit and lets somebody go on, or leaves both.
LEMMA LookBalances ==
  ASSUME StateInv, StateInv', Is("semaphore"), NEW x,
         obj' = obj \/ (Ready(x) /\ Admit(Taken))
  PROVE  obj'.given + obj.permits + obj.admitted <= obj.given + obj'.permits + obj'.admitted
<1>1. /\ obj.admitted \in Nat /\ obj.permits \in Nat /\ obj.given \in Nat
      /\ obj'.admitted \in Nat /\ obj'.permits \in Nat
  BY DEF StateInv, ObjectType
<1>2. CASE obj' = obj
  BY <1>1, <1>2, SMT
<1>3. CASE Ready(x) /\ Admit(Taken)
  <2>1. Taken \in ObjectType
    BY <1>3, TakenFacts
  <2>2. /\ obj'.admitted = Taken.admitted + 1 /\ obj'.permits = Taken.permits
        /\ obj'.given = Taken.given
    BY <1>3, <2>1 DEF Admit, ObjectType
  <2>3. /\ obj'.permits + 1 = obj.permits /\ obj'.admitted = obj.admitted + 1
        /\ obj'.given = obj.given
    BY <1>3, <2>2, SemaphoreTaken
  <2> QED
    BY <1>1, <2>3, SMT
<1> QED
  BY <1>2, <1>3

\* ready_impl, or the check at the end of suspend_impl, takes a permit: it is held, or lost.
LEMMA LedgerTakes ==
  ASSUME StateInv, StateInv', LedgerInv, NEW c \in Coros, ~found[c], Ready(c), obj' = Taken,
         NEW keeps \in BOOLEAN, Finds(c, keeps), Loses(~keeps)
  PROVE  /\ found' \in [Coros -> BOOLEAN] /\ lost' \in Nat
         /\ Is("semaphore") =>
              obj'.given <= obj'.permits + obj'.admitted + lost' + Cardinality(Holders')
<1>1. /\ found' = [found EXCEPT ![c] = keeps] /\ found \in [Coros -> BOOLEAN] /\ lost \in Nat
      /\ lost' = IF ~keeps /\ Is("semaphore") THEN lost + 1 ELSE lost
  BY DEF Finds, Loses, LedgerInv
<1>2. found' \in [Coros -> BOOLEAN] /\ lost' \in Nat
  BY <1>1
<1>3. ASSUME Is("semaphore")
      PROVE  obj'.given <= obj'.permits + obj'.admitted + lost' + Cardinality(Holders')
  <2>1. /\ obj'.permits + 1 = obj.permits /\ obj'.admitted = obj.admitted
        /\ obj'.given = obj.given
    BY <1>3, SemaphoreTaken
  <2>2. /\ obj.admitted \in Nat /\ obj.permits \in Nat /\ obj.given \in Nat
        /\ obj'.permits \in Nat
    BY DEF StateInv, ObjectType
  <2>3. PICK n \in Nat : n = Cardinality(Holders)
    BY HoldersFinite
  <2>4. PICK m \in Nat : m = Cardinality(Holders')
    BY HoldersFinite
  <2>5. CASE keeps
    <3>1. lost' = lost
      BY <1>1, <2>5
    <3>2. c \in Holders' /\ Holders \subseteq Holders' \ {c}
      BY <1>1, <2>5 DEF Holders
    <3>3. n <= m - 1
      BY <2>3, <2>4, <3>2, HoldersFinite, OneOrLess
    <3>4. n + 1 <= m
      BY <3>3, SMT
    <3>5. obj'.given + obj.permits + obj.admitted + lost
            <= obj.given + obj'.permits + obj'.admitted + lost' + 1
      BY <1>1, <2>1, <2>2, <3>1, SMT
    <3> QED
      BY <1>1, <1>2, <1>3, <2>3, <2>4, <3>4, <3>5, LedgerCount DEF LedgerInv
  <2>6. CASE ~keeps
    <3>1. lost' = lost + 1
      BY <1>1, <1>3, <2>6
    <3>2. Holders' = Holders
      BY <1>1, <2>6 DEF Holders
    <3>3. n + 0 <= m
      BY <2>3, <2>4, <3>2, SMT
    <3>4. obj'.given + obj.permits + obj.admitted + lost
            <= obj.given + obj'.permits + obj'.admitted + lost' + 0
      BY <1>1, <2>1, <2>2, <3>1, SMT
    <3> QED
      BY <1>1, <1>2, <1>3, <2>3, <2>4, <3>3, <3>4, LedgerCount DEF LedgerInv
  <2> QED
    BY <2>5, <2>6
<1> QED
  BY <1>2, <1>3

\* resume_impl: what the coroutine keeps lets it go on, or is lost.
LEMMA LedgerResumes ==
  ASSUME StateInv, StateInv', LedgerInv, NEW c \in Coros, Finds(c, FALSE),
         \/ Admit(obj) /\ lost' = lost
         \/ (obj' = obj \/ (Ready(c) /\ Admit(Taken))) /\ Loses(found[c])
  PROVE  /\ found' \in [Coros -> BOOLEAN] /\ lost' \in Nat
         /\ Is("semaphore") =>
              obj'.given <= obj'.permits + obj'.admitted + lost' + Cardinality(Holders')
<1>1. /\ found' = [found EXCEPT ![c] = FALSE] /\ found \in [Coros -> BOOLEAN] /\ lost \in Nat
  BY DEF Finds, LedgerInv
<1>2. found' \in [Coros -> BOOLEAN] /\ lost' \in Nat
  BY <1>1 DEF Loses
<1>3. ASSUME Is("semaphore")
      PROVE  obj'.given <= obj'.permits + obj'.admitted + lost' + Cardinality(Holders')
  <2>1. /\ obj.admitted \in Nat /\ obj.permits \in Nat /\ obj.given \in Nat
        /\ obj'.admitted \in Nat /\ obj'.permits \in Nat /\ obj'.given \in Nat
    BY DEF StateInv, ObjectType
  <2>2. PICK n \in Nat : n = Cardinality(Holders)
    BY HoldersFinite
  <2>3. PICK m \in Nat : m = Cardinality(Holders')
    BY HoldersFinite
  <2>4. CASE found[c]
    <3>1. Holders \subseteq Holders' \union {c}
      BY <1>1 DEF Holders
    <3>2. n <= m + 1
      BY <2>2, <2>3, <3>1, HoldersFinite, OneOrLess
    <3>3. n + (-1) <= m
      BY <3>2, SMT
    <3>4. obj'.given + obj.permits + obj.admitted + lost
            <= obj.given + obj'.permits + obj'.admitted + lost' + (-1)
      <4>1. CASE Admit(obj) /\ lost' = lost
        <5>1. /\ obj'.admitted = obj.admitted + 1 /\ obj'.permits = obj.permits
              /\ obj'.given = obj.given
          BY <4>1 DEF Admit, StateInv, ObjectType
        <5> QED
          BY <1>1, <2>1, <4>1, <5>1, SMT
      <4>2. CASE (obj' = obj \/ (Ready(c) /\ Admit(Taken))) /\ Loses(found[c])
        <5>1. lost' = lost + 1
          BY <1>3, <2>4, <4>2 DEF Loses
        <5>2. obj'.given + obj.permits + obj.admitted
                <= obj.given + obj'.permits + obj'.admitted
          BY <1>3, <4>2, LookBalances
        <5> QED
          BY <1>1, <2>1, <5>1, <5>2, SMT
      <4> QED
        BY <4>1, <4>2
    <3>5. -1 \in {-1, 0, 1}
      OBVIOUS
    <3> QED
      BY <1>1, <1>2, <1>3, <2>2, <2>3, <3>3, <3>4, <3>5, LedgerCount DEF LedgerInv
  <2>5. CASE ~found[c]
    <3>1. Holders' = Holders
      BY <1>1, <2>5 DEF Holders
    <3>2. n + 0 <= m /\ 0 \in {-1, 0, 1}
      BY <2>2, <2>3, <3>1, SMT
    <3>3. obj'.given + obj.permits + obj.admitted + lost
            <= obj.given + obj'.permits + obj'.admitted + lost' + 0
      <4>1. CASE Admit(obj) /\ lost' = lost
        <5>1. /\ obj'.admitted = obj.admitted + 1 /\ obj'.permits = obj.permits
              /\ obj'.given = obj.given
          BY <4>1 DEF Admit, StateInv, ObjectType
        <5> QED
          BY <1>1, <2>1, <4>1, <5>1, SMT
      <4>2. CASE (obj' = obj \/ (Ready(c) /\ Admit(Taken))) /\ Loses(found[c])
        <5>1. lost' = lost
          BY <2>5, <4>2 DEF Loses
        <5>2. obj'.given + obj.permits + obj.admitted
                <= obj.given + obj'.permits + obj'.admitted
          BY <1>3, <4>2, LookBalances
        <5> QED
          BY <1>1, <2>1, <5>1, <5>2, SMT
      <4> QED
        BY <4>1, <4>2
    <3> QED
      BY <1>1, <1>2, <1>3, <2>2, <2>3, <3>2, <3>3, LedgerCount DEF LedgerInv
  <2> QED
    BY <2>4, <2>5
<1> QED
  BY <1>2, <1>3

\* The ledger, whatever happens to the object.
LEMMA LedgerStep ==
  ASSUME StateInv, StateInv', AwaitersInv, PermitInv, LedgerInv,
         [PrimitivesNext]_<<waiterVars, primitiveVars>>
  PROVE  LedgerInv'
<1>1. /\ WaitersInv /\ WaitersType /\ obj'.kind = obj.kind
      /\ \A c \in Coros : found[c] => StillAwaits(c) /\ sus[c] \in {"none", "gate"}
      /\ Is("semaphore") => ~obj.signaled /\ \A a \in Actors : wk[a].at # "arrived"
  BY KindKept DEF AwaitersInv, Waiting, WaitersInv, PermitInv, LedgerInv
<1>2. Is("semaphore")' <=> Is("semaphore")
  BY <1>1 DEF Is
<1>3. ASSUME found' = found, lost' = lost, st' = st, sus' = sus,
             Is("semaphore") => obj'.given + obj.permits + obj.admitted
                                  <= obj.given + obj'.permits + obj'.admitted
      PROVE  LedgerInv'
  BY <1>1, <1>3, LedgerKept DEF StillAwaits
<1>4. Is("semaphore") /\ obj' = obj =>
        obj'.given + obj.permits + obj.admitted <= obj.given + obj'.permits + obj'.admitted
  BY LookBalances
<1>5. ASSUME NEW t \in Threads, Call(t) \/ ThreadGets(t) \/ ThreadWaits(t) \/ ThreadWakes(t)
      PROVE  LedgerInv'
  <2>1. st' = st /\ sus' = sus /\ found' = found /\ lost' = lost
    BY <1>5 DEF Call, ThreadGets, ThreadWaits, ThreadWakes, ThrGoto, waiterVars, frameVars
  <2>2. Is("semaphore") => obj' = obj \/ (Ready(t) /\ Admit(Taken))
    BY <1>5 DEF Call, ThreadGets, ThreadWaits, ThreadWakes, Is
  <2>3. Is("semaphore") => obj'.given + obj.permits + obj.admitted
                             <= obj.given + obj'.permits + obj'.admitted
    BY <2>2, LookBalances
  <2> QED
    BY <1>3, <2>1, <2>3
<1>6. ASSUME NEW w \in Wakers, PrimitivesOp(w) PROVE LedgerInv'
  <2>1. st' = st /\ sus' = sus /\ found' = found /\ lost' = lost
    BY <1>6 DEF PrimitivesOp, Release, Set, Reset, ArriveOnly, ArriveAndDrop, Store,
                ModifyAndGet, Operate, frameVars
  <2>2. ASSUME NEW n \in 1 .. 2, Release(w, n)
        PROVE  obj'.given + obj.permits + obj.admitted
                 <= obj.given + obj'.permits + obj'.admitted
    <3>1. /\ obj'.permits = obj.permits + n /\ obj'.admitted = obj.admitted
          /\ obj'.given = obj.given + n
      BY <2>2 DEF Release, StateInv, ObjectType
    <3>2. obj.admitted \in Nat /\ obj.permits \in Nat /\ obj.given \in Nat /\ n \in Nat
      BY DEF StateInv, ObjectType
    <3> QED
      BY <3>1, <3>2, SMT
  <2>3. CASE ~Is("semaphore")
    BY <1>3, <2>1, <2>3
  <2>4. CASE Is("semaphore")
    <3>1. \/ \E n \in 1 .. 2 : Release(w, n)
          \/ FALSE
      BY <1>6, <2>4 DEF PrimitivesOp, Set, Reset, ArriveOnly, ArriveAndDrop, Arrive, Store,
                        ModifyAndGet, Is
    <3> QED
      BY <1>3, <2>1, <2>2, <3>1
  <2> QED
    BY <2>3, <2>4
<1>7. ASSUME NEW a \in Actors, AfterArrive(a) \/ (WakeStep(a) /\ UNCHANGED primitiveVars)
      PROVE  LedgerInv'
  <2>1. obj' = obj /\ found' = found /\ lost' = lost
    BY <1>7 DEF AfterArrive, primitiveVars
  <2>2. CASE st' = st /\ sus' = sus
    BY <1>3, <1>4, <2>1, <2>2
  <2>3. CASE WakeStep(a)
    <3>1. sus' = sus
      BY <1>1, <2>3, WakeDelivers
    <3>2. \A c \in Coros : st'[c] = st[c] \/ st'[c] = "runnable"
      BY <1>1, <2>3, WakeDelivers, DeliverFacts
    <3>3. \A c \in Coros : found[c] => StillAwaits(c)' /\ sus'[c] \in {"none", "gate"}
      BY <1>1, <3>1, <3>2 DEF StillAwaits
    <3> QED
      BY <1>1, <1>4, <2>1, <3>3, LedgerKept
  <2> QED
    BY <1>7, <2>2, <2>3 DEF AfterArrive, frameVars
<1>8. ASSUME NEW c \in Coros, AwaitReady(c) PROVE LedgerInv'
  <2>1. /\ Ready(c) /\ obj' = Taken /\ Finds(c, TRUE) /\ lost' = lost
        /\ st' = [st EXCEPT ![c] = "runnable"] /\ sus' = [sus EXCEPT ![c] = "none"]
    BY <1>8 DEF AwaitReady, GoOn
  <2>2. ~found[c]
    BY <1>1, <1>8 DEF AwaitReady, BeginsAwait, MayAwait, StillAwaits
  <2>3. Loses(~TRUE) /\ TRUE \in BOOLEAN
    BY <2>1 DEF Loses
  <2>4. /\ found' \in [Coros -> BOOLEAN] /\ lost' \in Nat
        /\ Is("semaphore") =>
             obj'.given <= obj'.permits + obj'.admitted + lost' + Cardinality(Holders')
    BY <2>1, <2>2, <2>3, LedgerTakes
  <2>5. \A d \in Coros : found'[d] => StillAwaits(d)' /\ sus'[d] \in {"none", "gate"}
    BY <1>1, <2>1 DEF Finds, LedgerInv, StillAwaits, WaitersType
  <2> QED
    BY <1>2, <2>4, <2>5 DEF LedgerInv
<1>9. ASSUME NEW c \in Coros, Recheck(c) PROVE LedgerInv'
  <2>1. /\ sus[c] = "check" /\ st' = st /\ ~found[c]
        /\ sus' = [sus EXCEPT ![c] = "none"] \/ sus' = [sus EXCEPT ![c] = "gate"]
        /\ found' = [found EXCEPT ![c] = Ready(c) /\ StillAwaits(c)]
    BY <1>1, <1>9 DEF Recheck, SusGoto, Finds
  <2>2. \A d \in Coros : found'[d] => StillAwaits(d)' /\ sus'[d] \in {"none", "gate"}
    <3> SUFFICES ASSUME NEW d \in Coros, found'[d]
                 PROVE  StillAwaits(d)' /\ sus'[d] \in {"none", "gate"}
      OBVIOUS
    <3>1. CASE d = c
      <4>1. StillAwaits(c)
        BY <2>1, <3>1 DEF LedgerInv
      <4> QED
        BY <1>1, <2>1, <3>1, <4>1 DEF StillAwaits, WaitersType
    <3>2. CASE d # c
      BY <1>1, <2>1, <3>2 DEF StillAwaits, WaitersType, LedgerInv
    <3> QED
      BY <3>1, <3>2
  <2>3. CASE Is("semaphore") /\ Ready(c)
    <3>1. PICK yes \in BOOLEAN : yes = (Ready(c) /\ StillAwaits(c))
      BY Zenon
    <3>2. obj' = Taken
      BY <1>9, <2>3 DEF Recheck
    <3>3. Finds(c, yes)
      BY <2>1, <3>1 DEF Finds
    <3>4. Loses(~yes)
      BY <1>9, <2>3, <3>1 DEF Recheck, Loses
    <3>5. /\ found' \in [Coros -> BOOLEAN] /\ lost' \in Nat
          /\ Is("semaphore") =>
               obj'.given <= obj'.permits + obj'.admitted + lost' + Cardinality(Holders')
      BY <2>1, <2>3, <3>2, <3>3, <3>4, LedgerTakes
    <3> QED
      BY <1>2, <2>2, <3>5 DEF LedgerInv
  <2>4. CASE Is("semaphore") /\ ~Ready(c)
    <3>1. obj' = obj /\ lost' = lost
      BY <1>9, <2>4 DEF Recheck, Loses
    <3>2. found' = found
      BY <2>1, <2>4 DEF LedgerInv
    <3>3. \A d \in Coros : found[d] => StillAwaits(d)' /\ sus'[d] \in {"none", "gate"}
      BY <2>2, <3>2
    <3> QED
      BY <1>1, <1>4, <3>1, <3>2, <3>3, LedgerKept
  <2>5. CASE ~Is("semaphore")
    <3>1. lost' = lost
      BY <1>9, <2>5 DEF Recheck, Loses
    <3>2. found' \in [Coros -> BOOLEAN]
      BY <2>1 DEF LedgerInv, Ready, StillAwaits
    <3> QED
      BY <1>2, <2>2, <2>5, <3>1, <3>2 DEF LedgerInv
  <2> QED
    BY <2>3, <2>4, <2>5
<1>10. ASSUME NEW c \in Coros, ResumePlain(c) \/ ResumeTimed(c) PROVE LedgerInv'
  <2>1. /\ Finds(c, FALSE) /\ sus' = sus
        /\ \E p \in {"done", "relook"} : st' = [st EXCEPT ![c] = p]
    BY <1>10 DEF ResumePlain, ResumeTimed, Resume, ResumeAt, frameVars
  <2>2. \/ Admit(obj) /\ lost' = lost
        \/ (obj' = obj \/ (Ready(c) /\ Admit(Taken))) /\ Loses(found[c])
    BY <1>10 DEF ResumePlain, ResumeTimed
  <2>3. /\ found' \in [Coros -> BOOLEAN] /\ lost' \in Nat
        /\ Is("semaphore") =>
             obj'.given <= obj'.permits + obj'.admitted + lost' + Cardinality(Holders')
    BY <2>1, <2>2, LedgerResumes
  <2>4. \A d \in Coros : found'[d] => StillAwaits(d)' /\ sus'[d] \in {"none", "gate"}
    <3> SUFFICES ASSUME NEW d \in Coros, found'[d]
                 PROVE  StillAwaits(d)' /\ sus'[d] \in {"none", "gate"}
      OBVIOUS
    <3>1. d # c /\ found[d]
      BY <2>1 DEF Finds, LedgerInv
    <3>2. st'[d] = st[d]
      BY <1>1, <2>1, <3>1 DEF WaitersType
    <3> QED
      BY <1>1, <2>1, <3>1, <3>2 DEF StillAwaits
  <2> QED
    BY <1>2, <2>3, <2>4 DEF LedgerInv
<1>11. ASSUME NEW c \in Coros, Relook(c) PROVE LedgerInv'
  <2>1. /\ found' = found /\ lost' = lost /\ sus' = sus
        /\ st[c] = "relook" /\ st' = [st EXCEPT ![c] = "done"]
    BY <1>11 DEF Relook, frameVars
  <2>2. \A d \in Coros : found[d] => StillAwaits(d)' /\ sus'[d] \in {"none", "gate"}
    BY <1>1, <2>1 DEF StillAwaits, WaitersType
  <2>3. Is("semaphore") => obj' = obj
    BY <1>1, <1>11 DEF Relook, StateInv, ObjectType
  <2> QED
    BY <1>1, <1>4, <2>1, <2>2, <2>3, LedgerKept
<1>12. ASSUME NEW c \in Coros, AwaitTooLate(c) \/ AwaitSuspend(c) \/ Prepare(c)
       PROVE  LedgerInv'
  <2>1. /\ ~found[c] /\ found' = found /\ lost' = lost
        /\ Is("semaphore") => obj' = obj
    BY <1>1, <1>12
       DEF AwaitTooLate, AwaitSuspend, Prepare, Arrive, Is, BeginsAwait, MayAwait, StillAwaits,
           primitiveVars
  <2>2. /\ sus' = sus \/ \E p : sus' = [sus EXCEPT ![c] = p]
        /\ \E p : st' = [st EXCEPT ![c] = p]
    BY <1>12 DEF AwaitTooLate, AwaitSuspend, Prepare, GoOn, Suspend, frameVars
  <2>3. \A d \in Coros : found[d] => StillAwaits(d)' /\ sus'[d] \in {"none", "gate"}
    <3> SUFFICES ASSUME NEW d \in Coros, found[d], d # c
                 PROVE  st'[d] = st[d] /\ sus'[d] = sus[d]
      BY <1>1, <2>1 DEF StillAwaits
    <3> QED
      BY <1>1, <2>2 DEF WaitersType
  <2> QED
    BY <1>1, <1>4, <2>1, <2>3, LedgerKept
<1>13. ASSUME NEW c \in Coros, \/ RegisterNode(c)
                               \/ (Arm(c) \/ Abandon(c)) /\ UNCHANGED primitiveVars
       PROVE  LedgerInv'
  <2>1. /\ ~found[c] /\ found' = found /\ lost' = lost /\ obj' = obj /\ st' = st
        /\ \E p : sus' = [sus EXCEPT ![c] = p]
    BY <1>1, <1>13
       DEF RegisterNode, Register, Arm, Abandon, Gone, SusGoto, primitiveVars, StillAwaits
  <2>2. \A d \in Coros : found[d] => StillAwaits(d)' /\ sus'[d] \in {"none", "gate"}
    BY <1>1, <2>1 DEF StillAwaits, WaitersType
  <2> QED
    BY <1>1, <1>4, <2>1, <2>2, LedgerKept
<1>14. ASSUME NEW c \in Coros, TakeGate(c) \/ TimerFires(c), UNCHANGED primitiveVars
       PROVE  LedgerInv'
  <2>1. PICK cs : cs = {c}
    OBVIOUS
  <2>2. cs \in SUBSET Coros /\ Deliver(cs) /\ \A x \in cs : Reached(x)
    BY <1>14, <2>1 DEF TakeGate, TimerFires, Reached
  <2>3. \A d \in Coros : st'[d] = st[d] \/ st'[d] = "runnable"
    BY <1>1, <2>2, DeliverFacts
  <2>4. sus' = sus \/ sus' = [sus EXCEPT ![c] = "none"]
    BY <1>14 DEF TakeGate, TimerFires, SusGoto
  <2>5. \A d \in Coros : found[d] => StillAwaits(d)' /\ sus'[d] \in {"none", "gate"}
    BY <1>1, <2>3, <2>4 DEF StillAwaits, WaitersType
  <2> QED
    BY <1>1, <1>4, <1>14, <2>5, LedgerKept DEF primitiveVars
<1>15. CASE UNCHANGED <<waiterVars, primitiveVars>>
  BY <1>3, <1>4, <1>15 DEF waiterVars, primitiveVars, frameVars
<1> QED
  BY <1>5, <1>6, <1>7, <1>8, <1>9, <1>10, <1>11, <1>12, <1>13, <1>14, <1>15
     DEF PrimitivesNext, PrimitivesCoro

-----------------------------------------------------------------------------
(* What a wake_all that is to come leaves behind.                          *)

\* A phase that a party ends, and the token that it gets.
LEMMA ArrivedFacts ==
  ASSUME StateInv, NEW o \in ObjectType, o.phase = obj.phase, obj' = Completed(o)
  PROVE  /\ obj.phase \in Nat
         /\ \/ o.count # 0 /\ obj'.phase = obj.phase
            \/ o.count = 0 /\ obj'.phase = obj.phase + 1
         /\ obj.phase # obj.phase + 1 /\ obj.phase \in 0 .. obj'.phase
<1>1. obj.phase \in Nat
  BY DEF StateInv, ObjectType
<1>2. \/ o.count # 0 /\ obj'.phase = obj.phase
      \/ o.count = 0 /\ obj'.phase = obj.phase + 1
  BY DEF Completed, CompletePhase, ObjectType
<1>3. PICK p \in Nat : p = obj.phase
  BY <1>1
<1>4. p # p + 1 /\ p \in 0 .. p /\ p \in 0 .. p + 1
  BY SMT
<1> QED
  BY <1>1, <1>2, <1>3, <1>4

\* What an arrival counts down.
LEMMA ArrivalTypes ==
  ASSUME StateInv, obj.count > 0
  PROVE  /\ [obj EXCEPT !.count = @ - 1] \in ObjectType
         /\ [obj EXCEPT !.count = @ - 1].phase = obj.phase
         /\ [obj EXCEPT !.expected = @ - 1, !.count = @ - 1] \in ObjectType
         /\ [obj EXCEPT !.expected = @ - 1, !.count = @ - 1].phase = obj.phase
<1>1. /\ obj \in ObjectType /\ obj.count \in Nat /\ obj.expected \in Nat
      /\ obj.count <= obj.expected
  BY DEF StateInv, ObjectType
<1>2. obj.count - 1 \in Nat /\ obj.expected - 1 \in Nat
  BY <1>1, SMT
<1> QED
  BY <1>1, <1>2 DEF ObjectType

\* The phase of a barrier never goes back, and nothing else has phases.
LEMMA PhaseMoves ==
  ASSUME StateInv, [PrimitivesNext]_<<waiterVars, primitiveVars>>
  PROVE  obj'.phase \in {obj.phase, obj.phase + 1}
<1>1. obj \in ObjectType
  BY DEF StateInv
<1>2. ASSUME NEW x, Ready(x) PROVE Taken \in ObjectType /\ Taken.phase = obj.phase
  BY <1>2, TakenFacts
<1>3. ASSUME NEW o \in ObjectType, Admit(o) PROVE obj'.phase = o.phase
  BY <1>3, AdmitFacts
<1>4. CASE UNCHANGED primitiveVars
  BY <1>4 DEF primitiveVars
<1>5. ASSUME obj.count > 0,
             \/ obj' = Completed([obj EXCEPT !.count = @ - 1])
             \/ obj' = Completed([obj EXCEPT !.expected = @ - 1, !.count = @ - 1])
      PROVE  obj'.phase \in {obj.phase, obj.phase + 1}
  BY <1>5, ArrivalTypes, ArrivedFacts
<1>6. ASSUME NEW c \in Coros,
             \/ Prepare(c) \/ AwaitReady(c) \/ AwaitTooLate(c) \/ AwaitSuspend(c)
             \/ PrimitivesCoro(c)
      PROVE  obj'.phase \in {obj.phase, obj.phase + 1}
  <2>1. CASE Prepare(c)
    BY <1>5, <2>1 DEF Prepare, Arrive
  <2>2. CASE AwaitReady(c) \/ AwaitTooLate(c) \/ AwaitSuspend(c) \/ RegisterNode(c)
    BY <1>2, <2>2 DEF AwaitReady, AwaitTooLate, AwaitSuspend, RegisterNode, primitiveVars
  <2>3. CASE Recheck(c) \/ ResumePlain(c) \/ ResumeTimed(c)
    BY <1>1, <1>2, <1>3, <2>3 DEF Recheck, ResumePlain, ResumeTimed
  <2>4. CASE Relook(c)
    BY <1>1, <2>4 DEF Relook, ObjectType
  <2> QED
    BY <1>6, <2>1, <2>2, <2>3, <2>4 DEF PrimitivesCoro
<1>7. ASSUME NEW t \in Threads, Call(t) \/ ThreadGets(t) \/ ThreadWaits(t) \/ ThreadWakes(t)
      PROVE  obj'.phase \in {obj.phase, obj.phase + 1}
  BY <1>2, <1>3, <1>5, <1>7 DEF Call, ThreadGets, ThreadWaits, ThreadWakes
<1>8. ASSUME NEW w \in Wakers, PrimitivesOp(w) PROVE obj'.phase \in {obj.phase, obj.phase + 1}
  <2>1. CASE ArriveOnly(w) \/ ArriveAndDrop(w)
    BY <1>5, <2>1 DEF ArriveOnly, ArriveAndDrop, Arrive
  <2>2. CASE (\E n \in 1 .. 2 : Release(w, n)) \/ Set(w) \/ Reset(w)
    BY <1>1, <2>2 DEF Release, Set, Reset, ObjectType
  <2>3. CASE Store(w) \/ ModifyAndGet(w)
    BY <1>1, <2>3 DEF Store, ModifyAndGet, NewVersion, ObjectType
  <2> QED
    BY <1>8, <2>1, <2>2, <2>3 DEF PrimitivesOp
<1>9. ASSUME NEW a \in Actors, AfterArrive(a) PROVE obj'.phase = obj.phase
  BY <1>9 DEF AfterArrive, primitiveVars
<1> QED
  BY <1>4, <1>6, <1>7, <1>8, <1>9 DEF PrimitivesNext

\* Who operates has a token of its own.
LEMMA TokenMoves ==
  ASSUME WaitersType, StateInv, PrimitiveCalls, [PrimitivesNext]_<<waiterVars, primitiveVars>>,
         NEW a \in Actors
  PROVE  \/ token'[a] = token[a] /\ wk'[a] = wk[a]
         \/ token'[a] = token[a] /\ (AfterArrive(a) \/ WakeStep(a))
         \/ wk[a] = Idle
<1>1. /\ token \in [Actors \union Threads -> Nat \union {Null}]
      /\ wk \in [Actors -> CallType] /\ Threads \intersect Actors = {}
  BY ThreadsAssumption DEF WaitersType, StateInv
<1>2. ASSUME NEW t \in Threads, Call(t) \/ ThreadGets(t) \/ ThreadWaits(t) \/ ThreadWakes(t)
      PROVE  token'[a] = token[a] /\ wk'[a] = wk[a]
  <2>1. wk' = wk /\ (token' = token \/ \E v : token' = [token EXCEPT ![t] = v])
    BY <1>2 DEF Call, ThreadGets, ThreadWaits, ThreadWakes, ThrGoto, waiterVars
  <2>2. t # a
    BY <1>1
  <2> QED
    BY <1>1, <2>1, <2>2
<1>3. ASSUME NEW w \in Wakers, PrimitivesOp(w)
      PROVE  (token'[a] = token[a] /\ wk'[a] = wk[a]) \/ wk[a] = Idle
  <2>1. wk[w] = Idle /\ w \in Actors
    BY <1>3
       DEF PrimitivesOp, Release, Set, Reset, ArriveOnly, ArriveAndDrop, Store, ModifyAndGet,
           Operate, Actors
  <2>2. /\ wk' = wk \/ \E v : wk' = [wk EXCEPT ![w] = v]
        /\ token' = token \/ \E v : token' = [token EXCEPT ![w] = v]
    BY <1>3
       DEF PrimitivesOp, Release, Set, Reset, ArriveOnly, ArriveAndDrop, Store, ModifyAndGet,
           Arrive, SetWake
  <2> QED
    BY <1>1, <2>1, <2>2
<1>4. ASSUME NEW c \in Coros, Prepare(c)
      PROVE  (token'[a] = token[a] /\ wk'[a] = wk[a]) \/ wk[a] = Idle
  <2>1. wk[c] = Idle /\ c \in Actors
    BY <1>4 DEF Prepare, MayAwait, Actors
  <2>2. /\ wk' = wk \/ \E v : wk' = [wk EXCEPT ![c] = v]
        /\ token' = token \/ \E v : token' = [token EXCEPT ![c] = v]
    BY <1>4 DEF Prepare, Arrive, SetWake
  <2> QED
    BY <1>1, <2>1, <2>2
<1>5. ASSUME NEW c \in Coros,
             \/ AwaitReady(c) \/ AwaitTooLate(c) \/ AwaitSuspend(c) \/ PrimitivesCoro(c)
             \/ (Arm(c) \/ TakeGate(c) \/ TimerFires(c) \/ Abandon(c)) /\ UNCHANGED primitiveVars
      PROVE  token'[a] = token[a] /\ wk'[a] = wk[a]
  BY <1>5
     DEF AwaitReady, AwaitTooLate, AwaitSuspend, PrimitivesCoro, RegisterNode, Recheck,
         ResumePlain, ResumeTimed, Relook, Resume, ResumeAt, GoOn, Suspend, Register,
         Arm, TakeGate, TimerFires, Abandon, primitiveVars
<1>6. ASSUME NEW x \in Actors, AfterArrive(x) \/ (WakeStep(x) /\ UNCHANGED primitiveVars)
      PROVE  \/ token'[a] = token[a] /\ wk'[a] = wk[a]
             \/ token'[a] = token[a] /\ (AfterArrive(a) \/ WakeStep(a))
  <2>1. token' = token /\ \E v : wk' = [wk EXCEPT ![x] = v]
    BY <1>6
       DEF AfterArrive, WakeStep, WakeLoad, WakeCas, WakeEach, Pop, Retry, SetWake, primitiveVars
  <2> QED
    BY <1>1, <1>6, <2>1
<1>7. CASE UNCHANGED <<waiterVars, primitiveVars>>
  BY <1>7 DEF waiterVars, primitiveVars
<1> QED
  BY <1>2, <1>3, <1>4, <1>5, <1>6, <1>7 DEF PrimitivesNext

\* What an actor that is idle begins.
LEMMA CallBegins ==
  ASSUME WaitersType, StateInv, [PrimitivesNext]_<<waiterVars, primitiveVars>>,
         NEW a \in Actors, wk[a] = Idle
  PROVE  /\ wk'[a].todo \in Seq({Waiters})
         /\ wk'[a].at = "arrived" => Is("barrier") /\ token'[a] = obj.phase
<1>1. /\ token \in [Actors \union Threads -> Nat \union {Null}]
      /\ wk \in [Actors -> CallType]
  BY DEF WaitersType, StateInv
<1>2. CASE wk'[a] = wk[a]
  <2>1. Idle.at = "idle" /\ Idle.todo \in Seq({Waiters})
    BY DEF Idle
  <2> QED
    BY <1>2, <2>1
<1>3. ASSUME wk'[a] # wk[a], NEW w \in Wakers, PrimitivesOp(w)
      PROVE  \/ \E n \in 1 .. 2 : wk'[a] = WakeOne([i \in 1 .. n |-> Waiters])
             \/ wk'[a] = WakeOne(<<Waiters>>) \/ wk'[a] = WakeAll(<<Waiters>>)
             \/ /\ wk'[a] = [WakeAll(<<Waiters>>) EXCEPT !.at = "arrived"]
                /\ Is("barrier") /\ token'[a] = obj.phase
  <2>1. PICK v : wk' = [wk EXCEPT ![w] = v] /\
             \/ \E n \in 1 .. 2 : v = WakeOne([i \in 1 .. n |-> Waiters])
             \/ v = WakeOne(<<Waiters>>) \/ v = WakeAll(<<Waiters>>)
             \/ /\ v = [WakeAll(<<Waiters>>) EXCEPT !.at = "arrived"]
                /\ Is("barrier") /\ token' = [token EXCEPT ![w] = obj.phase]
    BY <1>3
       DEF PrimitivesOp, Release, Set, Reset, ArriveOnly, ArriveAndDrop, Store, ModifyAndGet,
           Arrive, SetWake
  <2>2. w = a /\ w \in Actors
    BY <1>1, <1>3, <2>1
  <2> QED
    BY <1>1, <2>1, <2>2
<1>4. ASSUME wk'[a] # wk[a], NEW c \in Coros, Prepare(c)
      PROVE  /\ wk'[a] = [WakeAll(<<Waiters>>) EXCEPT !.at = "arrived"]
             /\ Is("barrier") /\ token'[a] = obj.phase
  <2>1. /\ wk' = [wk EXCEPT ![c] = [WakeAll(<<Waiters>>) EXCEPT !.at = "arrived"]]
        /\ Is("barrier") /\ token' = [token EXCEPT ![c] = obj.phase]
    BY <1>4 DEF Prepare, Arrive, SetWake
  <2>2. c = a /\ c \in Actors
    BY <1>1, <1>4, <2>1
  <2> QED
    BY <1>1, <2>1, <2>2
<1>5. ASSUME NEW c \in Coros,
             \/ AwaitReady(c) \/ AwaitTooLate(c) \/ AwaitSuspend(c) \/ PrimitivesCoro(c)
             \/ (Arm(c) \/ TakeGate(c) \/ TimerFires(c) \/ Abandon(c)) /\ UNCHANGED primitiveVars
      PROVE  wk'[a] = wk[a]
  BY <1>5
     DEF AwaitReady, AwaitTooLate, AwaitSuspend, PrimitivesCoro, RegisterNode, Recheck,
         ResumePlain, ResumeTimed, Relook, Resume, ResumeAt, GoOn, Suspend, Register,
         Arm, TakeGate, TimerFires, Abandon
<1>6. ASSUME NEW x \in Actors, AfterArrive(x) \/ WakeStep(x)
      PROVE  wk'[a] = wk[a]
  <2>1. /\ \E v : wk' = [wk EXCEPT ![x] = v]
        /\ wk[x].at \in {"arrived", "load", "cas", "all"}
    BY <1>6
       DEF AfterArrive, WakeStep, WakeLoad, WakeCas, WakeEach, Pop, Retry, SetWake
  <2>2. x # a
    BY <2>1 DEF Idle
  <2> QED
    BY <1>1, <2>1, <2>2
<1>7. ASSUME NEW t \in Threads, Call(t) \/ ThreadGets(t) \/ ThreadWaits(t) \/ ThreadWakes(t)
      PROVE  wk'[a] = wk[a]
  BY <1>7 DEF Call, ThreadGets, ThreadWaits, ThreadWakes, ThrGoto, waiterVars
<1>8. CASE UNCHANGED <<waiterVars, primitiveVars>>
  BY <1>2, <1>8 DEF waiterVars
<1>9. PICK one : one = <<Waiters>>
  OBVIOUS
<1>10. one \in Seq({Waiters})
  BY <1>9
<1>11. /\ WakeOne(one).todo = one /\ WakeOne(one).at = "load"
       /\ WakeAll(one).todo = one /\ WakeAll(one).at = "all"
       /\ [WakeAll(one) EXCEPT !.at = "arrived"].todo = one
  BY DEF WakeOne, WakeAll
<1>12. \A s : WakeOne(s).todo = s /\ WakeOne(s).at = "load"
  BY DEF WakeOne
<1>13. ASSUME NEW n \in 1 .. 2, wk'[a] = WakeOne([i \in 1 .. n |-> Waiters])
       PROVE  wk'[a].todo \in Seq({Waiters}) /\ wk'[a].at = "load"
  BY <1>12, <1>13, CallTypes, PrimitiveUsesType
<1> QED
  BY <1>2, <1>3, <1>4, <1>5, <1>6, <1>7, <1>8, <1>9, <1>10, <1>11, <1>13 DEF PrimitivesNext

\* Where a call goes on, by what it was.
LEMMA CallGoesOn ==
  ASSUME WaitersInv, NEW a \in Actors, wk[a].todo \in Seq({Waiters}),
         AfterArrive(a) \/ WakeStep(a)
  PROVE  wk'[a].todo \in Seq({Waiters}) /\ wk'[a].at # "arrived"
<1>1. wk \in [Actors -> CallType]
  BY DEF WaitersInv, WaitersType
<1>2. Idle.at = "idle" /\ Idle.todo \in Seq({Waiters})
  BY DEF Idle
<1>3. CASE AfterArrive(a)
  <2>1. PICK one : one = <<Waiters>>
    OBVIOUS
  <2>2. one \in Seq({Waiters}) /\ WakeAll(one).todo = one /\ WakeAll(one).at = "all"
    BY <2>1 DEF WakeAll
  <2>3. wk'[a] = Idle \/ wk'[a] = WakeAll(one)
    BY <1>1, <1>3, <2>1 DEF AfterArrive, SetWake
  <2> QED
    BY <1>2, <2>2, <2>3
<1>4. CASE WakeStep(a)
  <2>1. wk[a].todo # <<>> /\ wk[a].at # "arrived" /\ wk[a] \in CallType
    BY <1>4, WakeDelivers DEF WakeStep, WakeLoad, WakeCas, WakeEach
  <2>2. Following(a).todo \in Seq({Waiters}) /\ Following(a).at # "arrived"
    <3>1. CASE Len(wk[a].todo) = 1
      BY <1>2, <3>1 DEF Following
    <3>2. CASE Len(wk[a].todo) # 1
      <4>1. /\ Following(a).todo = Tail(wk[a].todo)
            /\ Following(a).at = IF wk[a].at = "cas" THEN "load" ELSE wk[a].at
        BY <2>1, <3>2 DEF Following, CallType
      <4> QED
        BY <2>1, <4>1, HeadTailProperties
    <3> QED
      BY <3>1, <3>2
  <2>3. PICK call : /\ wk'[a] = call
                    /\ \/ call = Idle \/ call = Following(a)
                       \/ call.at = "cas" /\ call.todo = wk[a].todo
    BY <1>1, <1>4, WakeDelivers
  <2> QED
    BY <1>2, <2>2, <2>3
<1> QED
  BY <1>3, <1>4

\* The calls of every actor.
LEMMA CallsStep ==
  ASSUME WaitersInv, StateInv, StateInv', PrimitiveCalls,
         [PrimitivesNext]_<<waiterVars, primitiveVars>>
  PROVE  PrimitiveCalls'
<1> SUFFICES ASSUME NEW a \in Actors
             PROVE  /\ wk'[a].todo \in Seq({Waiters})
                    /\ wk'[a].at = "arrived" => Is("barrier")' /\ token'[a] \in 0 .. obj'.phase
  BY DEF PrimitiveCalls
<1>1. WaitersType /\ Is("barrier")' = Is("barrier")
  BY KindKept DEF WaitersInv, Is
<1>2. /\ obj.phase \in 0 .. obj'.phase
      /\ \A k \in 0 .. obj.phase : k \in 0 .. obj'.phase
  <2>1. PICK p \in Nat : p = obj.phase
    BY DEF StateInv, ObjectType
  <2>2. /\ p \in 0 .. p /\ p \in 0 .. p + 1
        /\ \A k \in 0 .. p : k \in 0 .. p + 1
    BY SMT
  <2> QED
    BY <2>1, <2>2, PhaseMoves
<1>3. CASE token'[a] = token[a] /\ wk'[a] = wk[a]
  BY <1>1, <1>2, <1>3 DEF PrimitiveCalls
<1>4. CASE AfterArrive(a) \/ WakeStep(a)
  BY <1>4, CallGoesOn DEF PrimitiveCalls
<1>5. CASE wk[a] = Idle
  BY <1>1, <1>2, <1>5, CallBegins
<1> QED
  BY <1>1, <1>3, <1>4, <1>5, TokenMoves

\* A wake_all that is to come is still to come, unless it comes.
LEMMA ComingKept ==
  ASSUME WaitersInv, StateInv, StateInv', PrimitiveCalls, Coming,
         [PrimitivesNext]_<<waiterVars, primitiveVars>>
  PROVE  Coming' \/ \E a \in Actors : WakeEach(a)
<1>1. WaitersType /\ wk \in [Actors -> CallType]
  BY DEF WaitersInv, WaitersType
<1>2. PICK a \in Actors : \/ /\ wk[a].at = "all"
                             /\ \E i \in DOMAIN wk[a].todo : wk[a].todo[i] = Waiters
                          \/ wk[a].at = "arrived" /\ token[a] # obj.phase
  BY DEF Coming, Announced, PhaseAnnounced
<1>3. CASE token'[a] = token[a] /\ wk'[a] = wk[a]
  <2>1. CASE wk[a].at = "all" /\ \E i \in DOMAIN wk[a].todo : wk[a].todo[i] = Waiters
    <3>1. Announced(Waiters)'
      BY <1>3, <2>1 DEF Announced
    <3> QED
      BY <3>1 DEF Coming
  <2>2. CASE wk[a].at = "arrived" /\ token[a] # obj.phase
    <3>1. token[a] \in 0 .. obj.phase /\ obj.phase \in Nat
      BY <2>2 DEF PrimitiveCalls, StateInv, ObjectType
    <3>2. PICK p \in Nat, k \in Nat : p = obj.phase /\ k = token[a] /\ k # p /\ k <= p
      BY <2>2, <3>1
    <3>3. k # p + 1
      BY <3>2, SMT
    <3>4. token'[a] # obj'.phase
      BY <1>3, <3>2, <3>3, PhaseMoves
    <3>5. PhaseAnnounced'
      BY <1>3, <2>2, <3>4 DEF PhaseAnnounced
    <3> QED
      BY <3>5 DEF Coming
  <2> QED
    BY <1>2, <2>1, <2>2
<1>4. CASE AfterArrive(a)
  <2>1. wk[a].at = "arrived" /\ BarrierReady(a)
    BY <1>2, <1>4 DEF AfterArrive, BarrierReady
  <2>2. PICK s : s = <<Waiters>>
    OBVIOUS
  <2>3. wk'[a] = WakeAll(s)
    BY <1>1, <1>4, <2>1, <2>2 DEF AfterArrive, SetWake
  <2>4. wk'[a].at = "all" /\ wk'[a].todo = s
    BY <2>3 DEF WakeAll
  <2>5. 1 \in DOMAIN s /\ s[1] = Waiters
    BY <2>2
  <2>6. Announced(Waiters)'
    BY <2>4, <2>5 DEF Announced
  <2> QED
    BY <2>6 DEF Coming
<1>5. CASE WakeStep(a)
  BY <1>2, <1>5 DEF WakeStep, WakeLoad, WakeCas
<1>6. CASE wk[a] = Idle
  BY <1>2, <1>6 DEF Idle
<1> QED
  BY <1>1, <1>3, <1>4, <1>5, <1>6, TokenMoves

\* What a coroutine waits for does not come by itself.
LEMMA NotReadyStays ==
  ASSUME Broadcasts, obj'.kind = obj.kind, NEW c \in Coros, token'[c] = token[c],
         obj'.phase = obj.phase, obj'.version = obj.version, obj'.signaled => obj.signaled
  PROVE  Ready(c)' => Ready(c)
BY DEF Broadcasts, Ready, Is, SemaphoreReady, EventReady, BarrierReady, ValueReady

\* A coroutine that waited before, for what was there.
LEMMA GapKept ==
  ASSUME StateInv, NEW c \in Coros, GapInv(c), Broadcasts, Coming => Coming',
         st'[c] = "awaiting" /\ Ready(c)' =>
           /\ st[c] = "awaiting" /\ Ready(c) /\ (missed[c] => missed'[c])
           /\ gate'[c] # "none" /\ sus'[c] = "none" => gate[c] # "none" /\ sus[c] = "none"
  PROVE  GapInv(c)'
BY DEF GapInv

\* A step that neither gives anything nor wakes anybody.
LEMMA GapQuiet ==
  ASSUME StateInv, NEW c \in Coros, GapInv(c), Broadcasts, Coming => Coming',
         obj'.kind = obj.kind, token'[c] = token[c],
         obj'.phase = obj.phase, obj'.version = obj.version, obj'.signaled => obj.signaled,
         st'[c] = "awaiting" =>
           /\ st[c] = "awaiting" /\ gate'[c] = gate[c] /\ (missed[c] => missed'[c])
           /\ Ready(c) /\ sus'[c] = "none" => sus[c] = "none" \/ gate[c] = "none"
  PROVE  GapInv(c)'
<1>1. Ready(c)' => Ready(c)
  BY NotReadyStays
<1> QED
  BY <1>1, GapKept

\* What is there is known to be, or will be told.
LEMMA GapTold ==
  ASSUME NEW c \in Coros,
         st'[c] = "awaiting" /\ Broadcasts' => Coming' \/ (missed'[c] /\ gate'[c] = "none")
  PROVE  GapInv(c)'
BY DEF GapInv

\* What the object looks like after anything but a set, an end of a phase or a new value.
LEMMA Looks ==
  ASSUME StateInv, NEW x,
         \/ obj' = obj
         \/ Ready(x) /\ (obj' = Taken \/ Admit(Taken))
         \/ Admit(obj)
         \/ obj' = [obj EXCEPT !.admitted = IF obj.signaled THEN @ + 1 ELSE @]
         \/ obj' = [obj EXCEPT !.signaled = FALSE]
  PROVE  /\ obj'.phase = obj.phase /\ obj'.version = obj.version
         /\ obj'.signaled => obj.signaled
<1>1. obj \in ObjectType
  BY DEF StateInv
<1>2. CASE Ready(x) /\ (obj' = Taken \/ Admit(Taken))
  BY <1>2, TakenFacts, AdmitFacts
<1>3. CASE Admit(obj)
  BY <1>1, <1>3, AdmitFacts
<1>4. CASE \/ obj' = [obj EXCEPT !.admitted = IF obj.signaled THEN @ + 1 ELSE @]
           \/ obj' = [obj EXCEPT !.signaled = FALSE]
  BY <1>1, <1>4 DEF ObjectType
<1> QED
  BY <1>2, <1>3, <1>4

\* An arrival ends the phase or only counts.
LEMMA ArriveLooks ==
  ASSUME StateInv, NEW o, obj.count > 0, obj' = Completed(o),
         \/ o = [obj EXCEPT !.count = @ - 1]
         \/ o = [obj EXCEPT !.expected = @ - 1, !.count = @ - 1]
  PROVE  \/ o.count = 0 /\ obj.phase # obj'.phase
         \/ /\ o.count # 0
            /\ obj'.phase = obj.phase /\ obj'.version = obj.version
            /\ obj'.signaled => obj.signaled
<1>1. o \in ObjectType /\ o.phase = obj.phase
  BY ArrivalTypes
<1>2. o.version = obj.version /\ o.signaled = obj.signaled
  BY DEF StateInv, ObjectType
<1>3. o.count # 0 => obj' = o
  BY DEF Completed
<1> QED
  BY <1>1, <1>2, <1>3, ArrivedFacts

\* The list is emptied: who is left has yet to register.
LEMMA GapWakeEach ==
  ASSUME AwaitersInv, PrimitiveCalls, NEW a \in Actors, WakeEach(a), NEW c \in Coros
  PROVE  GapInv(c)'
<1>1. WaitersInv /\ LinkedIn(PrimitiveUses) /\ TimedInv(c)
  BY DEF AwaitersInv, Waiting
<1>2. PICK l \in Lists, cs \in SUBSET Coros :
        /\ l = Head(wk[a].todo) /\ cs = Chain(l) /\ Deliver(cs) /\ \A x \in cs : Reached(x)
        /\ missed' = [x \in Coros |-> missed[x] \/ sus[x] \in {"arm", "add"}]
  BY <1>1, WakeDelivers DEF WakeStep, WakeEach
<1>3. l = Waiters
  <2>1. wk[a].todo \in Seq({Waiters}) /\ wk[a].todo # <<>>
    BY <1>1, WakeDelivers DEF PrimitiveCalls, WakeStep
  <2>2. Head(wk[a].todo) \in {Waiters}
    BY <2>1, HeadTailProperties
  <2> QED
    BY <1>2, <2>2
<1>4. sus' = sus
  BY DEF WakeEach
<1> SUFFICES ASSUME st'[c] = "awaiting" PROVE missed'[c] /\ sus'[c] # "none"
  BY DEF GapInv
<1>5. c \notin cs /\ st[c] = "awaiting"
  BY <1>1, <1>2, DeliverFacts
<1>6. ToCome(c, Waiters)
  BY <1>1, <1>2, <1>3, <1>5, PrimitiveUsesType DEF LinkedIn
<1>7. sus[c] \in {"arm", "add"}
  BY <1>1, <1>6 DEF ToCome, TimedInv
<1> QED
  BY <1>2, <1>4, <1>7

\* Why a coroutine is left suspended, step by step.
LEMMA GapStep ==
  ASSUME AwaitersInv, StateInv, StateInv', PrimitiveCalls,
         [PrimitivesNext]_<<waiterVars, primitiveVars>>,
         NEW c \in Coros, GapInv(c)
  PROVE  GapInv(c)'
<1>1. CASE \E a \in Actors : WakeEach(a)
  BY <1>1, GapWakeEach
<1>2. CASE ~Broadcasts
  BY <1>2, KindKept DEF GapInv, Broadcasts
<1> SUFFICES ASSUME ~\E a \in Actors : WakeEach(a), Broadcasts PROVE GapInv(c)'
  BY <1>1, <1>2
<1>3. /\ WaitersInv /\ WaitersType /\ TimedInv(c) /\ obj'.kind = obj.kind
      /\ c \in Actors /\ c \notin Threads
      /\ token \in [Actors \union Threads -> Nat \union {Null}]
  BY KindKept, ThreadsAssumption DEF AwaitersInv, Waiting, WaitersInv, Actors, StateInv
<1>4. Coming => Coming'
  BY <1>3, ComingKept
<1>5. st[c] = "awaiting" /\ obj.kind \in {"barrier", "value"} => gate[c] = "none"
  BY <1>3 DEF TimedInv, IsTimed, HasTimedAwaiter
<1>6. ASSUME Unannounced, st' = st, gate' = gate, obj.kind \in {"barrier", "value"}
      PROVE  GapInv(c)'
  BY <1>3, <1>5, <1>6, GapTold DEF Unannounced
<1>7. ASSUME NEW x, \/ obj' = obj
                    \/ Ready(x) /\ (obj' = Taken \/ Admit(Taken))
                    \/ Admit(obj)
                    \/ obj' = [obj EXCEPT !.admitted = IF obj.signaled THEN @ + 1 ELSE @]
                    \/ obj' = [obj EXCEPT !.signaled = FALSE],
             token'[c] = token[c],
             st'[c] = "awaiting" =>
               /\ st[c] = "awaiting" /\ gate'[c] = gate[c] /\ (missed[c] => missed'[c])
               /\ Ready(c) /\ sus'[c] = "none" => sus[c] = "none" \/ gate[c] = "none"
      PROVE  GapInv(c)'
  BY <1>3, <1>4, <1>7, Looks, GapQuiet
<1>8. ASSUME NEW t \in Threads, Call(t) \/ ThreadGets(t) \/ ThreadWaits(t) \/ ThreadWakes(t)
      PROVE  GapInv(c)'
  <2>1. CASE Call(t) /\ Is("barrier")
    <3>1. PICK o : /\ o = [obj EXCEPT !.count = @ - 1] /\ obj.count > 0 /\ obj' = Completed(o)
                   /\ token' = [token EXCEPT ![t] = obj.phase]
                   /\ IF o.count = 0 THEN Unannounced ELSE UNCHANGED missed
      BY <2>1 DEF Call
    <3>2. st' = st /\ gate' = gate /\ sus' = sus
      BY <2>1 DEF Call, frameVars
    <3>3. token'[c] = token[c]
      BY <1>3, <3>1
    <3>4. CASE o.count = 0
      BY <1>6, <2>1, <3>1, <3>2, <3>4 DEF Is
    <3>5. CASE o.count # 0
      BY <1>3, <1>4, <3>1, <3>2, <3>3, <3>5, ArriveLooks, GapQuiet
    <3> QED
      BY <3>4, <3>5
  <2>2. CASE ~(Call(t) /\ Is("barrier"))
    <3>1. /\ UNCHANGED <<st, gate, sus, missed>>
          /\ token' = token \/ token' = [token EXCEPT ![t] = obj.version]
          /\ obj' = obj \/ (Ready(t) /\ Admit(Taken))
      BY <1>8, <2>2
         DEF Call, ThreadGets, ThreadWaits, ThreadWakes, ThrGoto, waiterVars, frameVars
    <3>2. token'[c] = token[c]
      BY <1>3, <3>1
    <3> QED
      BY <1>7, <3>1, <3>2
  <2> QED
    BY <2>1, <2>2
<1>9. ASSUME NEW w \in Wakers, PrimitivesOp(w) PROVE GapInv(c)'
  <2>1. /\ wk[w] = Idle /\ w \in Actors /\ w # c
        /\ UNCHANGED <<st, gate, sus>>
    BY <1>9, NamesAssumption
       DEF PrimitivesOp, Release, Set, Reset, ArriveOnly, ArriveAndDrop, Store, ModifyAndGet,
           Operate, Actors, frameVars
  <2>2. PICK one : one = <<Waiters>>
    OBVIOUS
  <2>3. ASSUME wk' = [wk EXCEPT ![w] = WakeAll(one)] PROVE GapInv(c)'
    <3>1. wk'[w].at = "all" /\ wk'[w].todo = one
      BY <1>3, <2>1, <2>3 DEF WakeAll, WaitersType
    <3>2. 1 \in DOMAIN one /\ one[1] = Waiters
      BY <2>2
    <3>3. Coming'
      BY <2>1, <3>1, <3>2 DEF Coming, Announced
    <3> QED
      BY <3>3, GapTold
  <2>4. CASE Set(w) \/ Store(w)
    <3>1. wk' = [wk EXCEPT ![w] = WakeAll(one)]
      BY <2>2, <2>4 DEF Set, Store, SetWake, Broadcasts, Is
    <3> QED
      BY <2>3, <3>1
  <2>5. CASE ModifyAndGet(w)
    BY <1>6, <2>1, <2>5 DEF ModifyAndGet, Is
  <2>6. CASE Reset(w)
    BY <1>7, <2>1, <2>6 DEF Reset
  <2>7. CASE \E n \in 1 .. 2 : Release(w, n)
    BY <2>7 DEF Release, Broadcasts, Is
  <2>8. CASE ArriveAndDrop(w)
    <3>1. PICK o : /\ o = [obj EXCEPT !.expected = @ - 1, !.count = @ - 1]
                   /\ obj.count > 0 /\ obj' = Completed(o) /\ Is("barrier")
                   /\ token' = [token EXCEPT ![w] = obj.phase]
                   /\ IF o.count = 0 THEN Unannounced ELSE UNCHANGED missed
      BY <2>8 DEF ArriveAndDrop
    <3>2. token'[c] = token[c]
      BY <1>3, <2>1, <3>1
    <3>3. CASE o.count = 0
      BY <1>6, <2>1, <3>1, <3>3 DEF Is
    <3>4. CASE o.count # 0
      BY <1>3, <1>4, <2>1, <3>1, <3>2, <3>4, ArriveLooks, GapQuiet
    <3> QED
      BY <3>3, <3>4
  <2>9. CASE ArriveOnly(w)
    <3>1. PICK o : /\ o = [obj EXCEPT !.count = @ - 1]
                   /\ obj.count > 0 /\ obj' = Completed(o)
                   /\ token' = [token EXCEPT ![w] = obj.phase]
                   /\ wk' = [wk EXCEPT ![w] = [WakeAll(one) EXCEPT !.at = "arrived"]]
                   /\ UNCHANGED missed
      BY <2>2, <2>9 DEF ArriveOnly, Arrive, SetWake
    <3>2. token'[c] = token[c] /\ token'[w] = obj.phase /\ wk'[w].at = "arrived"
      BY <1>3, <2>1, <3>1 DEF WaitersType, WakeAll
    <3>3. CASE o.count = 0
      <4>1. token'[w] # obj'.phase
        BY <3>1, <3>2, <3>3, ArriveLooks
      <4>2. Coming'
        BY <2>1, <3>2, <4>1 DEF Coming, PhaseAnnounced
      <4> QED
        BY <4>2, GapTold
    <3>4. CASE o.count # 0
      BY <1>3, <1>4, <2>1, <3>1, <3>2, <3>4, ArriveLooks, GapQuiet
    <3> QED
      BY <3>3, <3>4
  <2> QED
    BY <1>9, <2>4, <2>5, <2>6, <2>7, <2>8, <2>9 DEF PrimitivesOp
<1>10. ASSUME NEW a \in Actors, AfterArrive(a) PROVE GapInv(c)'
  <2>1. UNCHANGED <<st, gate, sus, missed, obj, token>>
    BY <1>10 DEF AfterArrive, frameVars, primitiveVars
  <2> QED
    BY <1>7, <2>1
<1>11. ASSUME NEW a \in Actors, WakeStep(a), UNCHANGED primitiveVars PROVE GapInv(c)'
  <2>1. obj' = obj /\ token' = token /\ sus' = sus /\ ~WakeEach(a) /\ wk[a].at # "all"
    BY <1>3, <1>11, WakeDelivers
       DEF primitiveVars, WakeStep, WakeLoad, WakeCas
  <2>2. missed' = missed /\ \/ st' = st /\ gate' = gate
                            \/ \E cs \in SUBSET Coros : Deliver(cs) /\ \A x \in cs : Reached(x)
    BY <1>3, <1>11, <2>1, WakeDelivers
  <2>3. st'[c] = "awaiting" => st[c] = "awaiting" /\ gate'[c] = gate[c]
    BY <1>3, <2>2, DeliverFacts
  <2> QED
    BY <1>7, <2>1, <2>2, <2>3
<1>12. ASSUME NEW d \in Coros, Prepare(d) PROVE GapInv(c)'
  <2>1. /\ wk[d] = Idle /\ d \in Actors /\ st' = [st EXCEPT ![d] = "prepared"]
        /\ UNCHANGED <<gate, sus, missed>>
    BY <1>12 DEF Prepare, MayAwait, frameVars, Actors
  <2>2. CASE c = d
    <3>1. st'[c] # "awaiting"
      BY <1>3, <2>1, <2>2 DEF WaitersType
    <3> QED
      BY <3>1 DEF GapInv
  <2>3. CASE c # d
    <3>1. st'[c] = st[c]
      BY <1>3, <2>1, <2>3 DEF WaitersType
    <3>2. CASE Arrive(d) /\ SetWake(d, [WakeAll(<<Waiters>>) EXCEPT !.at = "arrived"])
      <4>1. PICK o : /\ o = [obj EXCEPT !.count = @ - 1]
                     /\ obj.count > 0 /\ obj' = Completed(o)
                     /\ token' = [token EXCEPT ![d] = obj.phase]
                     /\ wk' = [wk EXCEPT ![d] = [WakeAll(<<Waiters>>) EXCEPT !.at = "arrived"]]
        BY <3>2 DEF Arrive, SetWake
      <4>2. token'[c] = token[c] /\ token'[d] = obj.phase /\ wk'[d].at = "arrived"
        BY <1>3, <2>1, <2>3, <4>1 DEF WaitersType, WakeAll
      <4>3. CASE o.count = 0
        <5>1. token'[d] # obj'.phase
          BY <4>1, <4>2, <4>3, ArriveLooks
        <5>2. Coming'
          BY <2>1, <4>2, <5>1 DEF Coming, PhaseAnnounced
        <5> QED
          BY <5>2, GapTold
      <4>4. CASE o.count # 0
        BY <1>3, <1>4, <2>1, <3>1, <4>1, <4>2, <4>4, ArriveLooks, GapQuiet
      <4> QED
        BY <4>3, <4>4
    <3>3. CASE token' = [token EXCEPT ![d] = obj.version] /\ obj' = obj
      <4>1. token'[c] = token[c]
        BY <1>3, <2>3, <3>3
      <4> QED
        BY <1>7, <2>1, <3>1, <3>3, <4>1
    <3> QED
      BY <1>12, <3>2, <3>3 DEF Prepare
  <2> QED
    BY <2>2, <2>3
<1>13. ASSUME NEW d \in Coros, AwaitReady(d) \/ AwaitTooLate(d) \/ AwaitSuspend(d)
       PROVE  GapInv(c)'
  <2>1. token' = token /\ (obj' = obj \/ (Ready(d) /\ obj' = Taken))
    BY <1>13 DEF AwaitReady, AwaitTooLate, AwaitSuspend, primitiveVars
  <2>2. CASE GoOn(d)
    <3>1. st' = [st EXCEPT ![d] = "runnable"] /\ sus' = [sus EXCEPT ![d] = "none"]
          /\ gate' = gate /\ missed' = missed
      BY <2>2 DEF GoOn
    <3>2. st'[c] = "awaiting" =>
            st[c] = "awaiting" /\ gate'[c] = gate[c] /\ missed'[c] = missed[c] /\ sus'[c] = sus[c]
      BY <1>3, <3>1 DEF WaitersType
    <3> QED
      BY <1>7, <2>1, <3>2
  <2>3. CASE AwaitSuspend(d)
    <3>1. PICK k, p : Suspend(d, k, p)
      BY <2>3 DEF AwaitSuspend
    <3>2. obj' = obj /\ ~Ready(d)
      BY <2>3 DEF AwaitSuspend, primitiveVars
    <3>3. CASE c = d
      <4>1. ~Ready(c)'
        BY <1>3, <2>1, <3>2, <3>3, NotReadyStays
      <4> QED
        BY <4>1 DEF GapInv
    <3>4. CASE c # d
      <4>1. st'[c] = st[c] /\ gate'[c] = gate[c] /\ missed'[c] = missed[c] /\ sus'[c] = sus[c]
        BY <1>3, <3>1, <3>4 DEF WaitersType, Suspend
      <4> QED
        BY <1>7, <2>1, <3>2, <4>1
    <3> QED
      BY <3>3, <3>4
  <2> QED
    BY <1>13, <2>2, <2>3 DEF AwaitReady, AwaitTooLate
<1>14. ASSUME NEW d \in Coros, \/ RegisterNode(d) \/ Recheck(d)
                               \/ (Arm(d) \/ Abandon(d)) /\ UNCHANGED primitiveVars
       PROVE  GapInv(c)'
  <2>1. /\ UNCHANGED <<st, gate, missed, token>>
        /\ obj' = obj \/ (Ready(d) /\ obj' = Taken)
        /\ \E p \in {"none", "add", "check", "gate"} :
             /\ sus' = [sus EXCEPT ![d] = p]
             /\ p = "none" /\ st[d] = "awaiting" =>
                  sus[d] = "check" /\ (Ready(d) => ~IsTimed(d))
    BY <1>14
       DEF RegisterNode, Register, Recheck, Arm, Abandon, Gone, SusGoto, primitiveVars
  <2>2. st'[c] = "awaiting" /\ Ready(c) /\ sus'[c] = "none" => sus[c] = "none" \/ gate[c] = "none"
    BY <1>3, <2>1 DEF WaitersType, TimedInv
  <2> QED
    BY <1>7, <2>1, <2>2
<1>15. ASSUME NEW d \in Coros, ResumePlain(d) \/ ResumeTimed(d) \/ Relook(d)
       PROVE  GapInv(c)'
  <2>1. /\ UNCHANGED <<gate, sus, missed, token>>
        /\ \E p \in {"done", "relook"} : st' = [st EXCEPT ![d] = p]
    BY <1>15 DEF ResumePlain, ResumeTimed, Relook, Resume, ResumeAt, frameVars
  <2>2. \/ obj' = obj
        \/ Ready(d) /\ Admit(Taken)
        \/ Admit(obj)
        \/ obj' = [obj EXCEPT !.admitted = IF obj.signaled THEN @ + 1 ELSE @]
    BY <1>15 DEF ResumePlain, ResumeTimed, Relook
  <2>3. st'[c] = "awaiting" => st[c] = "awaiting"
    BY <1>3, <2>1 DEF WaitersType
  <2> QED
    BY <1>7, <2>1, <2>2, <2>3
<1>16. ASSUME NEW d \in Coros, TakeGate(d) \/ TimerFires(d), UNCHANGED primitiveVars
       PROVE  GapInv(c)'
  <2>1. PICK cs : cs = {d}
    OBVIOUS
  <2>2. cs \in SUBSET Coros /\ Deliver(cs) /\ \A x \in cs : Reached(x)
    BY <1>16, <2>1 DEF TakeGate, TimerFires, Reached
  <2>3. /\ UNCHANGED <<missed, obj, token>>
        /\ sus' = sus \/ sus' = [sus EXCEPT ![d] = "none"]
    BY <1>16 DEF TakeGate, TimerFires, SusGoto, primitiveVars
  <2>4. st'[c] = "awaiting" => st[c] = "awaiting" /\ gate'[c] = gate[c] /\ c # d
    BY <1>3, <2>1, <2>2, DeliverFacts
  <2>5. st'[c] = "awaiting" => sus'[c] = sus[c]
    BY <1>3, <2>3, <2>4 DEF WaitersType
  <2> QED
    BY <1>7, <2>3, <2>4, <2>5
<1>17. CASE UNCHANGED <<waiterVars, primitiveVars>>
  <2>1. UNCHANGED <<st, gate, sus, missed, obj, token>>
    BY <1>17 DEF waiterVars, primitiveVars
  <2> QED
    BY <1>7, <2>1
<1> QED
  BY <1>8, <1>9, <1>10, <1>11, <1>12, <1>13, <1>14, <1>15, <1>16, <1>17
     DEF PrimitivesNext, PrimitivesCoro

\* What is inductive of a primitive with its coroutines.
PrimitivesInv ==
  /\ ThreadsInv /\ AwaitersInv /\ PermitInv /\ LedgerInv /\ PrimitiveCalls
  /\ \A c \in Coros : GapInv(c)

\* It holds of an object that nobody has used, and every step keeps it.
LEMMA PrimitivesInductive ==
  /\ WaitersInit /\ PrimitivesInit => PrimitivesInv
  /\ PrimitivesInv /\ [PrimitivesNext]_<<waiterVars, primitiveVars>> => PrimitivesInv'
<1>1. ASSUME WaitersInit, PrimitivesInit PROVE PrimitivesInv
  <2>1. ThreadsInv
    BY <1>1, ThreadsBegin
  <2>2. Waiting(PrimitiveUses)
    BY <1>1, WaitersBegin, PrimitiveUsesType
  <2>3. \A c \in Coros : TimedInv(c) /\ GapInv(c)
    BY <1>1 DEF WaitersInit, TimedInv, GapInv
  <2>4. PermitInv
    <3>1. obj.admitted = 0 /\ obj.permits = 0 /\ obj.given = 0 /\ ~obj.signaled
      BY <1>1 DEF PrimitivesInit, Object
    <3>2. Granted = {}
      BY <1>1 DEF WaitersInit, Granted
    <3>3. \A a \in Actors : wk[a].at = "idle" /\ Len(wk[a].todo) = 0
      BY <1>1, EmptySeq DEF WaitersInit, Idle
    <3>4. Owed = {}
      <4>1. \A i \in 1 .. 2 : ~(i <= 0)
        BY SMT
      <4>2. \A p \in Actors \X (1 .. 2) : p[1] \in Actors /\ p[2] \in 1 .. 2
        OBVIOUS
      <4> QED
        BY <3>3, <4>1, <4>2 DEF Owed
    <3>5. 0 + 0 + 0 + 0 <= 2 * 0 /\ 0 <= 2
      BY SMT
    <3> QED
      BY <3>1, <3>2, <3>3, <3>4, <3>5, FS_EmptySet DEF PermitInv
  <2>6. LedgerInv
    <3>1. /\ obj.admitted = 0 /\ obj.permits = 0 /\ obj.given = 0 /\ lost = 0
          /\ found = [c \in Coros |-> FALSE]
      BY <1>1 DEF PrimitivesInit, Object
    <3>2. Holders = {}
      BY <3>1 DEF Holders
    <3>3. 0 <= 0 + 0 + 0 + 0
      BY SMT
    <3> QED
      BY <3>1, <3>2, <3>3, FS_EmptySet DEF LedgerInv
  <2>5. PrimitiveCalls
    <3>1. Idle.at = "idle" /\ Idle.todo \in Seq({Waiters})
      BY DEF Idle
    <3> QED
      BY <1>1, <3>1 DEF WaitersInit, PrimitiveCalls
  <2> QED
    BY <2>1, <2>2, <2>3, <2>4, <2>5, <2>6 DEF PrimitivesInv, AwaitersInv
<1>2. ASSUME PrimitivesInv, [PrimitivesNext]_<<waiterVars, primitiveVars>> PROVE PrimitivesInv'
  <2>1. /\ ThreadsInv /\ ThreadsInv' /\ StateInv /\ StateInv'
        /\ AwaitersInv /\ PrimitiveCalls /\ WaitersInv
    BY <1>2, ThreadsStep DEF PrimitivesInv, ThreadsInv, AwaitersInv, Waiting
  <2>2. Waiting(PrimitiveUses)' /\ \A c \in Coros : TimedInv(c)'
    BY <1>2, <2>1, PrimitiveWaiting, TimedStep DEF PrimitivesInv
  <2>3. PermitInv' /\ PrimitiveCalls'
    BY <1>2, <2>1, PermitStep, CallsStep DEF PrimitivesInv
  <2>4. \A c \in Coros : GapInv(c)'
    BY <1>2, <2>1, GapStep DEF PrimitivesInv
  <2>5. LedgerInv'
    BY <1>2, <2>1, LedgerStep DEF PrimitivesInv
  <2> QED
    BY <2>1, <2>2, <2>3, <2>4, <2>5 DEF PrimitivesInv, AwaitersInv
<1> QED
  BY <1>1, <1>2

\* What it says of the coroutines.
LEMMA PrimitivesHold ==
  ASSUME PrimitivesInv
  PROVE  /\ ResumedOnce /\ WaiterIsLinked /\ BroadcastReleases /\ PermitLedger
         /\ \A c \in Coros : IsTimed(c) /\ st[c] = "awaiting" => timer[c] \/ sus[c] = "arm"
<1>1. WaitersInv /\ LinkedIn(PrimitiveUses) /\ \A c \in Coros : TimedInv(c) /\ GapInv(c)
  BY DEF PrimitivesInv, AwaitersInv, Waiting
<1>2. ResumedOnce
  BY <1>1 DEF ResumedOnce, WaitersInv, GateInv
<1>3. WaiterIsLinked
  <2> SUFFICES ASSUME NEW c \in Coros, st[c] = "awaiting", sus[c] \notin {"arm", "add", "gate"}
               PROVE  Linked(c)
    BY DEF WaiterIsLinked
  <2>1. ~ToCome(c, Waiters)
    BY <1>1 DEF ToCome, TimedInv
  <2> QED
    BY <1>1, <2>1, PrimitiveUsesType DEF LinkedIn, Linked
<1>4. BroadcastReleases
  <2> SUFFICES ASSUME NEW c \in Coros, Broadcasts, Ready(c), st[c] = "awaiting",
                      sus[c] = "none", Quiet
               PROVE  missed[c] /\ gate[c] = "none"
    BY DEF BroadcastReleases
  <2>1. ~Coming
    BY DEF Quiet, Idle, Coming, Announced, PhaseAnnounced
  <2> QED
    BY <1>1, <2>1 DEF GapInv
<1>5. PermitLedger
  <2> SUFFICES ASSUME Is("semaphore") PROVE obj.admitted <= 2 * obj.given
    BY DEF PermitLedger, PrimitivesInv, LedgerInv, Holders
  <2>1. /\ obj.admitted \in Nat /\ obj.permits \in Nat /\ obj.given \in Nat
        /\ Cardinality(Granted) \in Nat /\ Cardinality(Owed) \in Nat
    BY AccountsFinite DEF PrimitivesInv, ThreadsInv, StateInv, ObjectType
  <2>2. obj.admitted + obj.permits + Cardinality(Granted) + Cardinality(Owed) <= 2 * obj.given
    BY DEF PrimitivesInv, PermitInv
  <2> QED
    BY <2>1, <2>2, SMT
<1>6. \A c \in Coros : IsTimed(c) /\ st[c] = "awaiting" => timer[c] \/ sus[c] = "arm"
  BY <1>1 DEF TimedInv
<1> QED
  BY <1>2, <1>3, <1>4, <1>5, <1>6

\* With any number of coroutines, threads and releases no permit disappears but those that
\* an acquire with a timeout takes twice, and a permit lets at most two parties go on: one
\* whom a wake_one reaches and one that takes it out of count_.
THEOREM PermitsAreAccounted == PrimitivesSpec => []PermitLedger
BY PrimitivesInductive, PrimitivesHold, PTL DEF PrimitivesSpec

\* The coroutines at a primitive, awaiting any number of times beside threads, are
\* scheduled once for each time and stay in the list; who stays suspended although what
\* it waits for has come registered behind the wake_all, and has no timeout.
THEOREM PrimitiveAwaitersAreServed ==
  PrimitivesSpec => [](ResumedOnce /\ WaiterIsLinked /\ BroadcastReleases)
BY PrimitivesInductive, PrimitivesHold, PTL DEF PrimitivesSpec

-----------------------------------------------------------------------------
(* The channels: the lists, the gates and the wakers.                      *)

\* The list that wakes a coroutine other than one in select.
Own(c) == IF IsSender(c) THEN Senders(First) ELSE Receivers(First)

\* The lists that each coroutine uses.
ChannelUses ==
  [c \in Coros |-> IF role[c] = "select" THEN {Receivers(First), Receivers(Second)}
                   ELSE {Own(c)}]

\* Which gate a coroutine has, and its timer.
DeadlineInv(c) ==
  /\ sus[c] = "arm" => HasDeadline(c)
  /\ sus[c] \in {"ready second", "add second", "check second"} => role[c] = "select"
  /\ sus[c] \in {"check", "check second", "gate"} => role[c] \notin {"send", "receive"}
  /\ sus[c] \in {"sent", "unsent"} => role[c] = "timed_send"
  /\ st[c] = "awaiting" \/ sus[c] \notin {"none", "ready second"} =>
       (gate[c] = "none" <=> role[c] \in {"send", "receive"})
  /\ st[c] = "awaiting" /\ HasDeadline(c) => timer[c] \/ sus[c] = "arm"

\* Why a coroutine is suspended although its channel is closed.
CloseInv(c) ==
  closed[First] /\ role[c] # "select" /\ st[c] = "awaiting" =>
    /\ missed[c] \/ role[c] = "send" \/ Announced(Own(c))
    /\ gate[c] # "none" /\ sus[c] = "none" => Announced(Own(c))

\* The types of the roles and of the flags.
RolesInv == role \in [Coros -> Roles] /\ closed \in [Channels -> BOOLEAN]

\* What is inductive of the channels.
ChannelInv ==
  /\ RolesInv /\ Waiting(ChannelUses)
  /\ \A c \in Coros : DeadlineInv(c) /\ CloseInv(c)

\* The lists of two channels.
LEMMA ChannelLists ==
  /\ \A ch \in Channels : Receivers(ch) \in Lists /\ Senders(ch) \in Lists
  /\ Receivers(First) # Receivers(Second)
  /\ \A c \in Coros : Own(c) \in Lists
  /\ ChannelUses \in [Coros -> SUBSET Lists]
  /\ \A c \in Coros : ChannelUses[c] = IF role[c] = "select"
                        THEN {Receivers(First), Receivers(Second)} ELSE {Own(c)}
<1>1. \A ch \in Channels : Receivers(ch) \in Lists /\ Senders(ch) \in Lists
  BY ChannelsAssumption DEF Channels, Receivers, Senders, Lists
<1>2. Receivers(First) # Receivers(Second)
  BY ChannelsAssumption DEF Receivers
<1>3. \A c \in Coros : Own(c) \in Lists
  BY <1>1 DEF Own, Channels
<1>4. /\ ChannelUses \in [Coros -> SUBSET Lists]
      /\ \A c \in Coros : ChannelUses[c] = IF role[c] = "select"
                            THEN {Receivers(First), Receivers(Second)} ELSE {Own(c)}
  BY <1>1, <1>3 DEF ChannelUses, Channels
<1> QED
  BY <1>1, <1>2, <1>3, <1>4

\* The call that close() begins.
LEMMA CloseCall ==
  ASSUME NEW ch \in Channels, NEW call, call = WakeAll(<<Receivers(ch), Senders(ch)>>)
  PROVE  /\ call \in CallType /\ call.at = "all" /\ call.node = Null /\ call.todo # <<>>
         /\ \E i \in DOMAIN call.todo : call.todo[i] = Receivers(ch)
         /\ \E i \in DOMAIN call.todo : call.todo[i] = Senders(ch)
<1>1. PICK s : s = <<Receivers(ch), Senders(ch)>>
  OBVIOUS
<1>2. s \in Seq(Lists) /\ s # <<>>
  BY <1>1, ChannelLists
<1>3. 1 \in DOMAIN s /\ s[1] = Receivers(ch) /\ 2 \in DOMAIN s /\ s[2] = Senders(ch)
  BY <1>1
<1>4. call = WakeAll(s)
  BY <1>1
<1>5. call.at = "all" /\ call.node = Null /\ call.nx = Null /\ call.todo = s
  BY <1>4 DEF WakeAll
<1>6. call \in CallType
  BY <1>2, <1>4 DEF WakeAll, CallType
<1> QED
  BY <1>2, <1>3, <1>5, <1>6

\* Who awaits a channel is fresh.
LEMMA ReceivesFresh ==
  ASSUME WaitersInv, NEW c \in Coros, NEW ch,
         MayAwait(c) \/ ReceivesFrom(c, ch)
  PROVE  Fresh(c)
<1>1. CASE MayAwait(c)
  BY <1>1, BeginsFresh
<1>2. CASE sus[c] = "ready second"
  BY <1>2 DEF WaitersInv, GateInv, Aside
<1> QED
  BY <1>1, <1>2 DEF ReceivesFrom

\* The lists, gates and wakers under the operations of the channels.
LEMMA ChannelWaiting ==
  ASSUME ChannelInv, [ChannelNext]_<<waiterVars, channelVars>>,
         NEW CONSTANT uses, uses = ChannelUses
  PROVE  Waiting(uses)'
<1>1. /\ Waiting(uses) /\ WaitersInv /\ WaitersType /\ RolesInv
      /\ \A c \in Coros : DeadlineInv(c)
      /\ \A c \in Coros : uses[c] = IF role[c] = "select"
                            THEN {Receivers(First), Receivers(Second)} ELSE {Own(c)}
  BY ChannelLists DEF ChannelInv, Waiting, WaitersInv
<1>2. missed \in [Coros -> BOOLEAN]
  BY <1>1 DEF WaitersType
<1>3. CASE UNCHANGED <<listVars, frameVars, st, wakes, wk, missed>>
  BY <1>1, <1>2, <1>3, StillStep
<1>4. ASSUME NEW w \in Wakers, NEW call \in CallType, CallChannel(w), SetWake(w, call),
             call.at # "cas", call.node = Null, call.todo # <<>>
      PROVE  Waiting(uses)'
  BY <1>1, <1>2, <1>4, WakerCallStep DEF CallChannel, SetWake, Actors
<1>5. ASSUME NEW w \in Wakers, NEW ch \in Channels,
             SendValue(w, ch) \/ ReceiveValue(w, ch) \/ Close(w, ch)
      PROVE  Waiting(uses)'
  <2>1. CallChannel(w)
    BY <1>5 DEF SendValue, ReceiveValue, Close
  <2>2. CASE UNCHANGED wk
    BY <1>3, <2>1, <2>2 DEF CallChannel
  <2>3. CASE \E l \in Lists : SetWake(w, WakeOne(<<l>>))
    <3>0. PICK l \in Lists : SetWake(w, WakeOne(<<l>>))
      BY <2>3
    <3>1. PICK call : call = WakeOne(<<l>>) /\ SetWake(w, call)
      BY <3>0
    <3>2. call \in CallType /\ call.at = "load" /\ call.node = Null /\ call.todo = <<l>>
      BY <3>1, CallTypes DEF WakeOne
    <3>3. call.todo # <<>>
      BY <3>2, CallTypes
    <3> QED
      BY <1>4, <2>1, <3>1, <3>2, <3>3
  <2>4. CASE Close(w, ch)
    <3>1. PICK call : call = WakeAll(<<Receivers(ch), Senders(ch)>>) /\ SetWake(w, call)
      BY <2>4 DEF Close
    <3>2. call \in CallType /\ call.at = "all" /\ call.node = Null /\ call.todo # <<>>
      BY <3>1, CloseCall
    <3> QED
      BY <1>4, <2>1, <3>1, <3>2
  <2> QED
    BY <1>5, <2>2, <2>3, <2>4, ChannelLists DEF SendValue, ReceiveValue
<1>6. ASSUME NEW c \in Coros, SendReady(c) PROVE Waiting(uses)'
  <2>1. Fresh(c)
    BY <1>1, <1>6, BeginsFresh DEF SendReady
  <2>2. GoOn(c) \/ Suspend(c, "open", "arm") \/ Suspend(c, "none", "add")
    BY <1>6 DEF SendReady
  <2> QED
    BY <1>1, <2>1, <2>2, GoOnStep, SuspendStep
<1>7. ASSUME NEW c \in Coros, NEW ch \in Channels,
             ReceiveReady(c, ch) \/ ReceiveSuspend(c, ch)
      PROVE  Waiting(uses)'
  <2>1. Fresh(c) /\ role[c] \in Roles
    BY <1>1, <1>7, ReceivesFresh DEF ReceiveReady, ReceiveSuspend, RolesInv
  <2>2. \/ GoOn(c) \/ Suspend(c, "open", "arm") \/ Suspend(c, "none", "add")
        \/ Suspend(c, "open", "add")
        \/ SusOnly(c, "ready second")
    <3>1. CASE ReceiveReady(c, ch)
      BY <3>1 DEF ReceiveReady
    <3>2. CASE ReceiveSuspend(c, ch)
      <4>1. role[c] \in {"receive", "timed_receive", "select"}
        BY <1>1, <2>1, <3>2 DEF ReceiveSuspend, ReceivesFrom, IsSender, Roles, DeadlineInv
      <4> QED
        BY <3>2, <4>1 DEF ReceiveSuspend
    <3> QED
      BY <1>7, <3>1, <3>2
  <2> QED
    BY <1>1, <2>1, <2>2, GoOnStep, SuspendStep, AsideStep DEF SusOnly
<1>8. ASSUME NEW c \in Coros, RegisterWaiter(c) PROVE Waiting(uses)'
  <2>1. DeadlineInv(c) /\ role[c] \in Roles
    BY <1>1 DEF RolesInv
  <2>2. CASE sus[c] = "add" /\ role[c] # "select"
    <3>1. PICK p \in {"none", "check"} : Register(c, Own(c), p)
      BY <1>8, <2>1, <2>2 DEF RegisterWaiter, Own, Roles
    <3>2. \A k \in uses[c] : k = Own(c)
      BY <1>1, <2>2
    <3>3. PICK l \in Lists : l = Own(c)
      BY ChannelLists
    <3>4. p # "add second" /\ Register(c, l, p) /\ \A k \in uses[c] : k = l
      BY <3>1, <3>2, <3>3
    <3>5. p \in {"none", "add second", "check"} /\ sus[c] = "add"
      BY <2>2
    <3>6. \A k \in uses[c] : k = l \/ (p = "add second" /\ k = Receivers(Second))
      BY <3>4
    <3>7. Waiting(uses)
      BY <1>1
    <3> QED
      BY <3>4, <3>5, <3>6, <3>7, RegisterStep
  <2>3. CASE sus[c] = "add" /\ role[c] = "select"
    <3>1. Register(c, Receivers(First), "add second")
      BY <1>8, <2>3 DEF RegisterWaiter, IsSender
    <3>2. gate[c] # "none"
      BY <2>1, <2>3 DEF DeadlineInv
    <3>3. \A k \in uses[c] : k = Receivers(First) \/ k = Receivers(Second)
      BY <1>1, <2>3
    <3>4. Receivers(First) \in Lists
      BY ChannelLists DEF Channels
    <3> QED
      BY <1>1, <2>3, <3>1, <3>2, <3>3, <3>4, ChannelLists, RegisterStep
  <2>4. CASE sus[c] = "add second"
    <3>1. Register(c, Receivers(Second), "check") /\ Receivers(Second) \in Lists
      BY <1>8, <2>4, ChannelLists DEF RegisterWaiter, Channels
    <3> QED
      BY <1>1, <2>4, <3>1, RegisterStep
  <2> QED
    BY <1>8, <2>2, <2>3, <2>4 DEF RegisterWaiter
<1>9. ASSUME NEW c \in Coros,
             CheckSend(c) \/ StoreSent(c) \/ \E ch \in Channels : CheckReceive(c, ch)
      PROVE  Waiting(uses)'
  <2>1. sus[c] \in {"check", "check second", "sent", "unsent"}
    BY <1>9 DEF CheckSend, StoreSent, CheckReceive
  <2>2. gate[c] # "none"
    BY <1>1, <2>1 DEF DeadlineInv
  <2>3. PICK p \in {"none", "gate", "check second", "sent", "unsent"} : SusOnly(c, p)
    BY <1>9 DEF CheckSend, StoreSent, CheckReceive
  <2> QED
    BY <1>1, <2>1, <2>2, <2>3, SusStep DEF SusOnly
<1>10. ASSUME NEW c \in Coros, ResumeSend(c) \/ ResumeReceive(c) \/ SelectSecond(c)
       PROVE  Waiting(uses)'
  <2>1. PICK p \in {"done", "relook"} :
          /\ st[c] \in {"runnable", "relook"} /\ st' = [st EXCEPT ![c] = p]
          /\ UNCHANGED <<listVars, frameVars, wakes, missed, wk>>
    BY <1>10 DEF ResumeSend, ResumeReceive, SelectSecond, Resume, ResumeAt
  <2> QED
    BY <1>1, <2>1, ResumeStep
<1>11. ASSUME NEW c \in Coros, Arm(c) \/ TakeGate(c) \/ TimerFires(c) \/ Abandon(c)
       PROVE  Waiting(uses)'
  BY <1>1, <1>11, ArmStep, GatedStep, SusStep DEF TakeGate, TimerFires, Abandon, Gone
<1>12. ASSUME NEW w \in Wakers, WakeStep(w) PROVE Waiting(uses)'
  BY <1>1, <1>12, WakersStep DEF Actors
<1>13. CASE UNCHANGED <<waiterVars, channelVars>>
  BY <1>3, <1>13 DEF waiterVars, listVars, frameVars
<1> QED
  BY <1>5, <1>6, <1>7, <1>8, <1>9, <1>10, <1>11, <1>12, <1>13 DEF ChannelNext, ChannelCoro

\* The roles stay, and a channel stays closed.
LEMMA RolesStay ==
  ASSUME RolesInv, [ChannelNext]_<<waiterVars, channelVars>>
  PROVE  /\ role' = role /\ RolesInv'
         /\ \A ch \in Channels : closed[ch] => closed'[ch]
         /\ closed' = closed \/ \E w \in Wakers, ch \in Channels : Close(w, ch)
<1>1. role' = role
  <2>1. CASE UNCHANGED channelVars
    BY <2>1 DEF channelVars
  <2>2. ASSUME NEW c \in Coros, ChannelCoro(c) PROVE role' = role
    <3>1. CASE SendReady(c) \/ CheckSend(c) \/ StoreSent(c) \/ ResumeSend(c)
      BY <3>1 DEF SendReady, CheckSend, StoreSent, ResumeSend
    <3>2. CASE ResumeReceive(c) \/ SelectSecond(c)
      BY <3>2 DEF ResumeReceive, SelectSecond
    <3>3. CASE RegisterWaiter(c)
      BY <3>3 DEF RegisterWaiter, channelVars
    <3>4. ASSUME NEW ch \in Channels,
                 ReceiveReady(c, ch) \/ ReceiveSuspend(c, ch) \/ CheckReceive(c, ch)
          PROVE  role' = role
      BY <3>4 DEF ReceiveReady, ReceiveSuspend, CheckReceive
    <3> QED
      BY <2>2, <3>1, <3>2, <3>3, <3>4 DEF ChannelCoro
  <2>3. ASSUME NEW w \in Wakers, NEW ch \in Channels,
               SendValue(w, ch) \/ ReceiveValue(w, ch) \/ Close(w, ch)
        PROVE  role' = role
    BY <2>3 DEF SendValue, ReceiveValue, Close, CallChannel
  <2> QED
    BY <2>1, <2>2, <2>3 DEF ChannelNext
<1>2. closed' = closed \/ \E w \in Wakers, ch \in Channels : Close(w, ch)
  <2>1. CASE UNCHANGED channelVars
    BY <2>1 DEF channelVars
  <2>2. ASSUME NEW c \in Coros, ChannelCoro(c) PROVE closed' = closed
    <3>1. CASE SendReady(c) \/ CheckSend(c) \/ StoreSent(c) \/ ResumeSend(c)
      BY <3>1 DEF SendReady, CheckSend, StoreSent, ResumeSend
    <3>2. CASE ResumeReceive(c) \/ SelectSecond(c)
      BY <3>2 DEF ResumeReceive, SelectSecond
    <3>3. CASE RegisterWaiter(c)
      BY <3>3 DEF RegisterWaiter, channelVars
    <3>4. ASSUME NEW ch \in Channels,
                 ReceiveReady(c, ch) \/ ReceiveSuspend(c, ch) \/ CheckReceive(c, ch)
          PROVE  closed' = closed
      BY <3>4 DEF ReceiveReady, ReceiveSuspend, CheckReceive
    <3> QED
      BY <2>2, <3>1, <3>2, <3>3, <3>4 DEF ChannelCoro
  <2>3. ASSUME NEW w \in Wakers, NEW ch \in Channels,
               SendValue(w, ch) \/ ReceiveValue(w, ch)
        PROVE  closed' = closed
    BY <2>3 DEF SendValue, ReceiveValue
  <2> QED
    BY <2>1, <2>2, <2>3 DEF ChannelNext
<1>3. \/ closed' = closed
      \/ \E ch \in Channels : closed' = [closed EXCEPT ![ch] = TRUE]
  BY <1>2 DEF Close
<1> QED
  BY <1>1, <1>2, <1>3 DEF RolesInv

\* A coroutine that a step moves only on, or wakes.
LEMMA DeadlineStep ==
  ASSUME ChannelInv, [ChannelNext]_<<waiterVars, channelVars>>, NEW c \in Coros
  PROVE  DeadlineInv(c)'
<1>1. /\ WaitersInv /\ WaitersType /\ RolesInv /\ DeadlineInv(c) /\ GateInv(c)
      /\ role' = role /\ role[c] \in Roles
  BY RolesStay DEF ChannelInv, Waiting, WaitersInv, RolesInv
<1>2. HasDeadline(c)' <=> HasDeadline(c)
  BY <1>1 DEF HasDeadline
<1>3. CASE /\ gate'[c] = gate[c] /\ timer'[c] = timer[c] /\ sus'[c] = sus[c]
           /\ st'[c] = "awaiting" => st[c] = "awaiting"
  BY <1>1, <1>2, <1>3 DEF DeadlineInv
<1>4. CASE UNCHANGED <<frameVars, st>>
  BY <1>3, <1>4 DEF frameVars
<1>5. ASSUME NEW w \in Wakers, NEW ch \in Channels,
             SendValue(w, ch) \/ ReceiveValue(w, ch) \/ Close(w, ch)
      PROVE  DeadlineInv(c)'
  BY <1>4, <1>5 DEF SendValue, ReceiveValue, Close, CallChannel
<1>6. ASSUME NEW d \in Coros, ResumeSend(d) \/ ResumeReceive(d) \/ SelectSecond(d)
      PROVE  DeadlineInv(c)'
  <2>1. UNCHANGED frameVars /\ \E p \in {"done", "relook"} : st' = [st EXCEPT ![d] = p]
    BY <1>6 DEF ResumeSend, ResumeReceive, SelectSecond, Resume, ResumeAt
  <2>2. st'[c] = "awaiting" => st[c] = "awaiting"
    BY <1>1, <2>1 DEF WaitersType
  <2> QED
    BY <1>3, <2>1, <2>2 DEF frameVars
<1>7. ASSUME NEW d \in Coros, Fresh(d), GoOn(d) PROVE DeadlineInv(c)'
  <2>1. /\ st' = [st EXCEPT ![d] = "runnable"] /\ sus' = [sus EXCEPT ![d] = "none"]
        /\ gate' = gate /\ timer' = timer
    BY <1>7 DEF GoOn
  <2>2. CASE c = d
    <3>1. st'[c] = "runnable" /\ sus'[c] = "none"
      BY <1>1, <2>1, <2>2 DEF WaitersType
    <3> QED
      BY <3>1 DEF DeadlineInv
  <2>3. CASE c # d
    <3>1. st'[c] = st[c] /\ sus'[c] = sus[c]
      BY <1>1, <2>1, <2>3 DEF WaitersType
    <3> QED
      BY <1>3, <2>1, <3>1
  <2> QED
    BY <2>2, <2>3
<1>8. ASSUME NEW d \in Coros, NEW k \in {"none", "open"}, NEW p \in {"arm", "add"},
             Suspend(d, k, p), k = "none" <=> role[d] \in {"send", "receive"},
             p = "arm" <=> HasDeadline(d)
      PROVE  DeadlineInv(c)'
  <2>1. /\ st' = [st EXCEPT ![d] = "awaiting"] /\ sus' = [sus EXCEPT ![d] = p]
        /\ gate' = [gate EXCEPT ![d] = k] /\ timer' = timer
    BY <1>8 DEF Suspend
  <2>2. CASE c = d
    <3>1. st'[c] = "awaiting" /\ sus'[c] = p /\ gate'[c] = k
      BY <1>1, <2>1, <2>2 DEF WaitersType
    <3> QED
      BY <1>1, <1>2, <1>8, <2>2, <3>1 DEF DeadlineInv
  <2>3. CASE c # d
    <3>1. st'[c] = st[c] /\ sus'[c] = sus[c] /\ gate'[c] = gate[c]
      BY <1>1, <2>1, <2>3 DEF WaitersType
    <3> QED
      BY <1>3, <2>1, <3>1
  <2> QED
    BY <2>2, <2>3
<1>9. ASSUME NEW d \in Coros, SendReady(d) PROVE DeadlineInv(c)'
  <2>1. Fresh(d)
    BY <1>1, <1>9, BeginsFresh DEF SendReady
  <2>2. \/ GoOn(d)
        \/ HasDeadline(d) /\ Suspend(d, "open", "arm")
        \/ ~HasDeadline(d) /\ Suspend(d, "none", "add")
    BY <1>9 DEF SendReady
  <2>3. role[d] \in {"send", "timed_send"}
    BY <1>9 DEF SendReady, IsSender
  <2>4. CASE HasDeadline(d) /\ Suspend(d, "open", "arm")
    BY <1>8, <2>3, <2>4 DEF HasDeadline
  <2>5. CASE ~HasDeadline(d) /\ Suspend(d, "none", "add")
    BY <1>8, <2>3, <2>5 DEF HasDeadline
  <2> QED
    BY <1>7, <2>1, <2>2, <2>4, <2>5
<1>10. ASSUME NEW d \in Coros, NEW ch \in Channels, ReceiveReady(d, ch) \/ ReceiveSuspend(d, ch)
       PROVE  DeadlineInv(c)'
  <2>1. Fresh(d) /\ role[d] \in Roles /\ DeadlineInv(d)
    BY <1>1, <1>10, ReceivesFresh DEF ReceiveReady, ReceiveSuspend, RolesInv, ChannelInv
  <2>2. role[d] \in {"receive", "timed_receive", "select"}
    BY <2>1, <1>10 DEF ReceiveReady, ReceiveSuspend, ReceivesFrom, IsSender, Roles, DeadlineInv
  <2>3. \/ GoOn(d)
        \/ role[d] = "receive" /\ Suspend(d, "none", "add")
        \/ role[d] = "timed_receive" /\ Suspend(d, "open", "arm")
        \/ role[d] = "select" /\ Suspend(d, "open", "add")
        \/ role[d] = "select" /\ SusOnly(d, "ready second")
    BY <1>10, <2>2 DEF ReceiveReady, ReceiveSuspend
  <2>4. CASE role[d] = "receive" /\ Suspend(d, "none", "add")
    BY <1>8, <2>4 DEF HasDeadline
  <2>5. CASE role[d] = "timed_receive" /\ Suspend(d, "open", "arm")
    BY <1>8, <2>5 DEF HasDeadline
  <2>6. CASE role[d] = "select" /\ Suspend(d, "open", "add")
    BY <1>8, <2>6 DEF HasDeadline
  <2>7. CASE role[d] = "select" /\ SusOnly(d, "ready second")
    <3>1. sus' = [sus EXCEPT ![d] = "ready second"] /\ UNCHANGED <<gate, timer, st>>
      BY <2>7 DEF SusOnly, SusGoto
    <3>2. CASE c = d
      <4>1. sus'[c] = "ready second" /\ st'[c] # "awaiting"
        BY <1>1, <2>1, <3>1, <3>2, FreshFacts DEF WaitersType
      <4> QED
        BY <1>1, <2>7, <3>2, <4>1 DEF DeadlineInv
    <3>3. CASE c # d
      <4>1. sus'[c] = sus[c]
        BY <1>1, <3>1, <3>3 DEF WaitersType
      <4> QED
        BY <1>3, <3>1, <4>1
    <3> QED
      BY <3>2, <3>3
  <2> QED
    BY <1>7, <2>1, <2>3, <2>4, <2>5, <2>6, <2>7
<1>11. ASSUME NEW d \in Coros,
              \/ RegisterWaiter(d) \/ CheckSend(d) \/ StoreSent(d)
              \/ \E ch \in Channels : CheckReceive(d, ch)
              \/ Abandon(d) \/ Arm(d)
       PROVE  DeadlineInv(c)'
  <2>1. DeadlineInv(d) /\ role[d] \in Roles /\ WaitersType
    BY <1>1 DEF ChannelInv, RolesInv
  <2>2. /\ UNCHANGED <<gate, st>>
        /\ \/ timer' = timer
           \/ timer' = [timer EXCEPT ![d] = TRUE]
        /\ \E p \in SusPoints \ {"arm", "ready second"} :
             /\ sus' = [sus EXCEPT ![d] = p]
             /\ p \in {"add second", "check second"} => role[d] = "select"
             /\ p \in {"check", "check second", "gate"} => role[d] \notin {"send", "receive"}
             /\ p \in {"sent", "unsent"} => role[d] = "timed_send"
             /\ sus[d] \notin {"none", "ready second"} \/ p = "none"
             /\ st[d] = "awaiting" /\ HasDeadline(d) => timer'[d]
    <3>1. CASE RegisterWaiter(d)
      <4>1. sus[d] \in {"add", "add second"} /\ UNCHANGED <<gate, st, timer>>
        BY <3>1 DEF RegisterWaiter, Register
      <4>2. \E p \in {"none", "add second", "check"} :
              /\ sus' = [sus EXCEPT ![d] = p]
              /\ p = "add second" => role[d] = "select"
              /\ p = "check" => role[d] \notin {"send", "receive"}
        BY <2>1, <3>1 DEF RegisterWaiter, Register, SusGoto, DeadlineInv
      <4> QED
        BY <2>1, <4>1, <4>2 DEF DeadlineInv, SusPoints
    <3>2. CASE CheckSend(d) \/ StoreSent(d) \/ \E ch \in Channels : CheckReceive(d, ch)
      <4>1. sus[d] \in {"check", "check second", "sent", "unsent"} /\ UNCHANGED <<gate, st, timer>>
        BY <3>2 DEF CheckSend, StoreSent, CheckReceive, SusOnly
      <4>2. \E p \in {"none", "gate", "check second", "sent", "unsent"} :
              /\ sus' = [sus EXCEPT ![d] = p]
              /\ p = "check second" => role[d] = "select"
              /\ p \in {"sent", "unsent"} => role[d] = "timed_send"
        <5>1. CASE CheckSend(d) \/ StoreSent(d)
          BY <5>1 DEF CheckSend, StoreSent, SusOnly, SusGoto
        <5>2. ASSUME NEW ch \in Channels, CheckReceive(d, ch)
              PROVE  \E p \in {"none", "gate", "check second", "sent", "unsent"} :
                       /\ sus' = [sus EXCEPT ![d] = p]
                       /\ p = "check second" => role[d] = "select"
                       /\ p \in {"sent", "unsent"} => role[d] = "timed_send"
          BY <5>2 DEF CheckReceive, SusOnly, SusGoto
        <5> QED
          BY <3>2, <5>1, <5>2
      <4> QED
        BY <2>1, <4>1, <4>2 DEF DeadlineInv, SusPoints
    <3>3. CASE Abandon(d)
      <4>1. /\ st[d] = "done" /\ sus' = [sus EXCEPT ![d] = "none"]
            /\ UNCHANGED <<gate, st, timer>>
        BY <3>3 DEF Abandon, Gone, SusGoto
      <4> QED
        BY <4>1 DEF SusPoints
    <3>4. CASE Arm(d)
      <4>1. /\ sus[d] = "arm" /\ sus' = [sus EXCEPT ![d] = "add"]
            /\ timer' = [timer EXCEPT ![d] = TRUE] /\ UNCHANGED <<gate, st>>
        BY <3>4 DEF Arm, SusGoto
      <4>2. timer'[d]
        BY <2>1, <4>1 DEF WaitersType
      <4> QED
        BY <4>1, <4>2 DEF SusPoints
    <3> QED
      BY <1>11, <3>1, <3>2, <3>3, <3>4
  <2>3. CASE c = d
    <3>1. PICK p \in SusPoints \ {"arm", "ready second"} :
             /\ sus'[c] = p
             /\ p \in {"add second", "check second"} => role[c] = "select"
             /\ p \in {"check", "check second", "gate"} => role[c] \notin {"send", "receive"}
             /\ p \in {"sent", "unsent"} => role[c] = "timed_send"
             /\ sus[c] \notin {"none", "ready second"} \/ p = "none"
      BY <2>1, <2>2, <2>3 DEF WaitersType
    <3>2. st'[c] = st[c] /\ gate'[c] = gate[c]
      BY <2>2
    <3>3. st'[c] = "awaiting" /\ HasDeadline(c)' => timer'[c]
      BY <1>2, <2>2, <2>3, <3>2
    <3> QED
      BY <1>1, <1>2, <3>1, <3>2, <3>3 DEF DeadlineInv
  <2>4. CASE c # d
    <3>1. sus'[c] = sus[c] /\ timer'[c] = timer[c] /\ gate'[c] = gate[c] /\ st'[c] = st[c]
      BY <2>1, <2>2, <2>4 DEF WaitersType
    <3> QED
      BY <1>3, <3>1
  <2> QED
    BY <2>3, <2>4
<1>12. ASSUME NEW cs \in SUBSET Coros, Deliver(cs), \A x \in cs : Reached(x),
              timer'[c] = timer[c] \/ (c \in cs /\ ~timer'[c]),
              sus'[c] = sus[c] \/ (c \in cs /\ sus'[c] = "none")
       PROVE  DeadlineInv(c)'
  <2>1. CASE c \in cs
    <3>1. /\ st'[c] # "awaiting"
          /\ gate'[c] = IF gate[c] = "none" THEN "none" ELSE "taken"
      BY <1>1, <1>12, <2>1, DeliverFacts
    <3>2. sus'[c] = sus[c] \/ sus'[c] = "none"
      BY <1>12
    <3> QED
      BY <1>1, <1>2, <3>1, <3>2 DEF DeadlineInv
  <2>2. CASE c \notin cs
    <3>1. st'[c] = st[c] /\ gate'[c] = gate[c]
      BY <1>1, <1>12, <2>2, DeliverFacts
    <3> QED
      BY <1>3, <1>12, <2>2, <3>1
  <2> QED
    BY <2>1, <2>2
<1>13. ASSUME NEW d \in Coros, TakeGate(d) \/ TimerFires(d) PROVE DeadlineInv(c)'
  <2>1. PICK cs : cs = {d}
    OBVIOUS
  <2>2. cs \in SUBSET Coros /\ Deliver(cs) /\ \A x \in cs : Reached(x)
    BY <1>13, <2>1 DEF TakeGate, TimerFires, Reached
  <2>3. timer'[c] = timer[c] \/ (c \in cs /\ ~timer'[c])
    BY <1>1, <1>13, <2>1 DEF TakeGate, TimerFires, WaitersType
  <2>4. sus'[c] = sus[c] \/ (c \in cs /\ sus'[c] = "none")
    BY <1>1, <1>13, <2>1 DEF TakeGate, TimerFires, WaitersType, SusGoto
  <2> QED
    BY <1>12, <2>2, <2>3, <2>4
<1>14. ASSUME NEW a \in Actors, WakeStep(a) PROVE DeadlineInv(c)'
  <2>1. timer' = timer /\ sus' = sus
    BY <1>1, <1>14, WakeDelivers
  <2>2. CASE gate' = gate /\ st' = st
    BY <1>3, <2>1, <2>2
  <2>3. ASSUME NEW cs \in SUBSET Coros, Deliver(cs), \A x \in cs : Reached(x)
        PROVE  DeadlineInv(c)'
    BY <1>12, <2>1, <2>3
  <2> QED
    BY <1>1, <1>14, <2>2, <2>3, WakeDelivers
<1>15. CASE UNCHANGED <<waiterVars, channelVars>>
  BY <1>4, <1>15 DEF waiterVars, frameVars
<1> QED
  BY <1>5, <1>6, <1>9, <1>10, <1>11, <1>13, <1>14, <1>15 DEF ChannelNext, ChannelCoro, Actors

\* A call that is under way goes on by the steps of its waker only.
LEMMA ChannelCalls ==
  ASSUME WaitersType, role \in [Coros -> Roles],
         \A c \in Coros : sus[c] = "ready second" => role[c] = "select",
         [ChannelNext]_<<waiterVars, channelVars>>, NEW a \in Actors
  PROVE  wk'[a] = wk[a] \/ wk[a] = Idle \/ WakeStep(a)
<1>1. ASSUME NEW w \in Wakers, NEW ch \in Channels,
             SendValue(w, ch) \/ ReceiveValue(w, ch) \/ Close(w, ch)
      PROVE  wk'[a] = wk[a] \/ wk[a] = Idle
  <2>1. wk[w] = Idle /\ (wk' = wk \/ \E call : wk' = [wk EXCEPT ![w] = call])
    BY <1>1 DEF SendValue, ReceiveValue, Close, CallChannel, SetWake
  <2> QED
    BY <2>1 DEF WaitersType
<1>2. ASSUME NEW c \in Coros, ChannelCoro(c) PROVE wk' = wk
  <2>1. CASE SendReady(c)
    BY <2>1 DEF SendReady, GoOn, Suspend
  <2>2. CASE CheckSend(c) \/ StoreSent(c) \/ RegisterWaiter(c)
    BY <2>2 DEF CheckSend, StoreSent, RegisterWaiter, Register, SusOnly
  <2>3. CASE ResumeSend(c) \/ ResumeReceive(c) \/ SelectSecond(c)
    BY <2>3 DEF ResumeSend, ResumeReceive, SelectSecond, Resume, ResumeAt
  <2>4. ASSUME NEW ch \in Channels, ReceiveReady(c, ch) \/ CheckReceive(c, ch)
        PROVE  wk' = wk
    BY <2>4 DEF ReceiveReady, CheckReceive, GoOn, SusOnly
  <2>5. ASSUME NEW ch \in Channels, ReceiveSuspend(c, ch) PROVE wk' = wk
    <3>1. \/ role[c] \in {"receive", "timed_receive", "select"}
          \/ role[c] \in {"send", "timed_send"}
      BY DEF Roles
    <3>2. sus[c] # "ready second" => role[c] \notin {"send", "timed_send"}
      BY <2>5 DEF ReceiveSuspend, ReceivesFrom, IsSender
    <3> QED
      BY <2>5, <3>1, <3>2 DEF ReceiveSuspend, GoOn, Suspend, SusOnly
  <2> QED
    BY <1>2, <2>1, <2>2, <2>3, <2>4, <2>5 DEF ChannelCoro
<1>3. ASSUME NEW c \in Coros, Arm(c) \/ TakeGate(c) \/ TimerFires(c) \/ Abandon(c)
      PROVE  wk' = wk
  BY <1>3 DEF Arm, TakeGate, TimerFires, Abandon
<1>4. ASSUME NEW w \in Wakers, WakeStep(w) PROVE wk'[a] = wk[a] \/ WakeStep(a)
  <2>1. \E call : wk' = [wk EXCEPT ![w] = call]
    BY <1>4 DEF WakeStep, WakeLoad, WakeCas, WakeEach, Pop, Retry, SetWake
  <2> QED
    BY <1>4, <2>1 DEF WaitersType
<1>5. CASE UNCHANGED <<waiterVars, channelVars>>
  BY <1>5 DEF waiterVars
<1> QED
  BY <1>1, <1>2, <1>3, <1>4, <1>5 DEF ChannelNext

\* The head of a sequence is its first element.
LEMMA HeadIsFirst == ASSUME NEW S, NEW s \in Seq(S), s # <<>> PROVE Head(s) = s[1]
OBVIOUS

\* The place of what is in a sequence, in its tail.
LEMMA OneBefore ==
  \A n \in Nat : \A j \in 1 .. n :
    j # 1 => j - 1 \in 1 .. n - 1 /\ (j - 1) + 1 = j /\ n # 1
BY SMT

\* An announced wake_all stays announced until it comes.
LEMMA AnnouncedKept ==
  ASSUME WaitersInv, role \in [Coros -> Roles],
         \A c \in Coros : sus[c] = "ready second" => role[c] = "select",
         [ChannelNext]_<<waiterVars, channelVars>>,
         NEW l \in Lists, Announced(l)
  PROVE  \/ Announced(l)'
         \/ \E a \in Actors : WakeEach(a) /\ l = Head(wk[a].todo)
<1>1. PICK a \in Actors : wk[a].at = "all" /\ \E i \in DOMAIN wk[a].todo : wk[a].todo[i] = l
  BY DEF Announced
<1>2. PICK i \in DOMAIN wk[a].todo : wk[a].todo[i] = l
  BY <1>1
<1>3. WaitersType /\ CallInv(a)
  BY DEF WaitersInv
<1>4. CASE wk'[a] = wk[a]
  BY <1>1, <1>4 DEF Announced
<1>5. CASE WakeStep(a)
  <2>1. WakeEach(a) /\ wk' = [wk EXCEPT ![a] = Following(a)]
    BY <1>1, <1>5 DEF WakeStep, WakeLoad, WakeCas, WakeEach, SetWake
  <2> SUFFICES ASSUME l # Head(wk[a].todo) PROVE Announced(l)'
    BY <2>1
  <2>2. PICK s : s = wk[a].todo
    OBVIOUS
  <2>3. s \in Seq(Lists) /\ s # <<>> /\ i \in 1 .. Len(s) /\ s[i] = l /\ Head(s) # l
    BY <1>1, <1>2, <1>3, <2>2, LenProperties DEF CallInv, WaitersType, CallType
  <2>4. Head(s) = s[1]
    BY <2>3, HeadIsFirst
  <2>5. /\ Len(s) \in Nat /\ Tail(s) \in Seq(Lists) /\ Len(Tail(s)) = Len(s) - 1
        /\ \A j \in 1 .. Len(Tail(s)) : Tail(s)[j] = s[j + 1]
    BY <2>3, HeadTailProperties, LenProperties
  <2>6. i - 1 \in 1 .. Len(s) - 1 /\ (i - 1) + 1 = i /\ Len(s) # 1
    <3>1. i # 1
      BY <2>3, <2>4
    <3>2. i \in 1 .. Len(s) /\ Len(s) \in Nat
      BY <2>3, <2>5
    <3> QED
      BY <3>1, <3>2, OneBefore
  <2>7. i - 1 \in DOMAIN Tail(s) /\ Tail(s)[i - 1] = l
    BY <2>3, <2>5, <2>6, LenProperties
  <2>8. Following(a).at = "all" /\ Following(a).todo = Tail(s)
    BY <1>1, <1>3, <2>2, <2>3, <2>6, FollowingFacts
  <2>9. wk'[a] = Following(a)
    BY <1>3, <2>1 DEF WaitersType
  <2> QED
    BY <2>7, <2>8, <2>9 DEF Announced
<1>6. CASE wk[a] = Idle
  <2>1. Idle.at = "idle"
    BY DEF Idle
  <2> QED
    BY <1>1, <1>6, <2>1
<1> QED
  BY <1>3, <1>4, <1>5, <1>6, ChannelCalls

\* How a coroutine other than one in select comes to be suspended on a closed channel,
\* and how it comes to an end of suspend_impl there.
LEMMA ClosedMoves ==
  ASSUME ChannelInv, [ChannelNext]_<<waiterVars, channelVars>>, NEW c \in Coros,
         closed[First], role[c] # "select", st'[c] = "awaiting"
  PROVE  \/ /\ st[c] = "awaiting" /\ (missed[c] => missed'[c]) /\ gate'[c] = gate[c]
            /\ sus'[c] = "none" => sus[c] = "none" \/ gate[c] = "none"
         \/ role[c] = "send" /\ gate'[c] = "none"
<1> DEFINE Goal == \/ /\ st[c] = "awaiting" /\ (missed[c] => missed'[c]) /\ gate'[c] = gate[c]
                      /\ sus'[c] = "none" => sus[c] = "none" \/ gate[c] = "none"
                   \/ role[c] = "send" /\ gate'[c] = "none"
<1>1. /\ WaitersInv /\ WaitersType /\ RolesInv /\ DeadlineInv(c) /\ GateInv(c)
      /\ role[c] \in Roles
  BY DEF ChannelInv, Waiting, WaitersInv, RolesInv
<1>2. ASSUME st[c] = "awaiting", missed[c] => missed'[c], gate'[c] = gate[c], sus'[c] = sus[c]
      PROVE  Goal
  BY <1>2
<1>3. CASE UNCHANGED <<frameVars, st, missed>>
  BY <1>2, <1>3 DEF frameVars
<1>4. ASSUME NEW w \in Wakers, NEW ch \in Channels,
             SendValue(w, ch) \/ ReceiveValue(w, ch) \/ Close(w, ch)
      PROVE  Goal
  BY <1>3, <1>4 DEF SendValue, ReceiveValue, Close, CallChannel
<1>5. ASSUME NEW d \in Coros, ResumeSend(d) \/ ResumeReceive(d) \/ SelectSecond(d)
      PROVE  Goal
  <2>1. /\ UNCHANGED <<frameVars, missed>>
        /\ \E p \in {"done", "relook"} : st' = [st EXCEPT ![d] = p]
    BY <1>5 DEF ResumeSend, ResumeReceive, SelectSecond, Resume, ResumeAt
  <2>2. st[c] = "awaiting"
    BY <1>1, <2>1 DEF WaitersType
  <2> QED
    BY <1>2, <2>1, <2>2 DEF frameVars
<1>6. ASSUME NEW d \in Coros, GoOn(d) PROVE Goal
  <2>1. /\ st' = [st EXCEPT ![d] = "runnable"] /\ sus' = [sus EXCEPT ![d] = "none"]
        /\ gate' = gate /\ missed' = missed
    BY <1>6 DEF GoOn
  <2>2. c # d /\ st[c] = "awaiting" /\ sus'[c] = sus[c]
    BY <1>1, <2>1 DEF WaitersType
  <2> QED
    BY <1>2, <2>1, <2>2
<1>7. ASSUME NEW d \in Coros, NEW k \in {"none", "open"}, NEW p \in {"arm", "add"},
             Suspend(d, k, p), c = d => role[d] = "send" /\ k = "none"
      PROVE  Goal
  <2>1. /\ st' = [st EXCEPT ![d] = "awaiting"] /\ sus' = [sus EXCEPT ![d] = p]
        /\ gate' = [gate EXCEPT ![d] = k] /\ missed' = [missed EXCEPT ![d] = FALSE]
    BY <1>7 DEF Suspend
  <2>2. CASE c = d
    BY <1>1, <1>7, <2>1, <2>2 DEF WaitersType
  <2>3. CASE c # d
    <3>1. /\ st'[c] = st[c] /\ sus'[c] = sus[c] /\ gate'[c] = gate[c] /\ missed'[c] = missed[c]
      BY <1>1, <2>1, <2>3 DEF WaitersType
    <3> QED
      BY <1>2, <3>1
  <2> QED
    BY <2>2, <2>3
<1>8. ASSUME NEW d \in Coros, SendReady(d) PROVE Goal
  <2>1. \/ GoOn(d)
        \/ HasDeadline(d) /\ Suspend(d, "open", "arm") /\ role[d] # "timed_send"
        \/ ~HasDeadline(d) /\ Suspend(d, "none", "add")
    BY <1>8 DEF SendReady
  <2>2. role[d] \in {"send", "timed_send"}
    BY <1>8 DEF SendReady, IsSender
  <2>3. CASE ~HasDeadline(d) /\ Suspend(d, "none", "add")
    BY <1>7, <2>2, <2>3 DEF HasDeadline
  <2> QED
    BY <1>6, <2>1, <2>2, <2>3 DEF HasDeadline
<1>9. ASSUME NEW d \in Coros, NEW ch \in Channels, ReceiveReady(d, ch) \/ ReceiveSuspend(d, ch)
      PROVE  Goal
  <2>1. role[d] \in Roles /\ DeadlineInv(d)
    BY <1>1 DEF RolesInv, ChannelInv
  <2>2. role[d] \in {"receive", "timed_receive", "select"}
    BY <2>1, <1>9 DEF ReceiveReady, ReceiveSuspend, ReceivesFrom, IsSender, Roles, DeadlineInv
  <2>3. \/ GoOn(d)
        \/ role[d] = "select" /\ Suspend(d, "open", "add")
        \/ role[d] = "select" /\ SusOnly(d, "ready second")
    BY <1>9, <2>2 DEF ReceiveReady, ReceiveSuspend
  <2>4. CASE role[d] = "select" /\ Suspend(d, "open", "add")
    BY <1>7, <2>4
  <2>5. CASE role[d] = "select" /\ SusOnly(d, "ready second")
    <3>1. sus' = [sus EXCEPT ![d] = "ready second"] /\ UNCHANGED <<gate, st, missed>> /\ c # d
      BY <2>5 DEF SusOnly, SusGoto
    <3>2. sus'[c] = sus[c]
      BY <1>1, <3>1 DEF WaitersType
    <3> QED
      BY <1>2, <3>1, <3>2
  <2> QED
    BY <1>6, <2>3, <2>4, <2>5
<1>10. ASSUME NEW d \in Coros,
              \/ RegisterWaiter(d) \/ CheckSend(d) \/ StoreSent(d)
              \/ \E ch \in Channels : CheckReceive(d, ch)
              \/ Abandon(d) \/ Arm(d)
       PROVE  Goal
  <2>1. DeadlineInv(d) /\ role[d] \in Roles
    BY <1>1 DEF ChannelInv, RolesInv
  <2>2. /\ UNCHANGED <<gate, st, missed>>
        /\ \E p : sus' = [sus EXCEPT ![d] = p]
    BY <1>10 DEF RegisterWaiter, Register, CheckSend, StoreSent, CheckReceive, SusOnly, SusGoto,
                 Abandon, Gone, Arm
  <2>3. CASE c # d
    BY <1>1, <1>2, <2>2, <2>3 DEF WaitersType
  <2>4. CASE c = d
    <3> SUFFICES ASSUME sus'[c] = "none" PROVE gate[c] = "none"
      BY <2>2
    <3>1. CASE RegisterWaiter(c)
      <4>1. sus[c] \in {"add", "add second"}
        BY <3>1 DEF RegisterWaiter
      <4>2. role[c] \in {"send", "receive"}
        BY <1>1, <3>1 DEF RegisterWaiter, Register, SusGoto, WaitersType
      <4> QED
        BY <1>1, <4>1, <4>2 DEF DeadlineInv
    <3>2. CASE CheckSend(c) \/ StoreSent(c)
      BY <1>1, <3>2 DEF CheckSend, StoreSent, SusOnly, SusGoto, WaitersType
    <3>3. ASSUME NEW ch \in Channels, CheckReceive(c, ch) PROVE FALSE
      <4>1. \E p \in {"gate", "check second"} : SusOnly(c, p)
        BY <3>3 DEF CheckReceive
      <4> QED
        BY <1>1, <4>1 DEF SusOnly, SusGoto, WaitersType
    <3>4. CASE Abandon(c)
      BY <2>2, <3>4 DEF Abandon, Gone
    <3>5. CASE Arm(c)
      BY <1>1, <3>5 DEF Arm, SusGoto, WaitersType
    <3> QED
      BY <1>10, <2>4, <3>1, <3>2, <3>3, <3>4, <3>5
  <2> QED
    BY <2>3, <2>4
<1>11. ASSUME NEW cs \in SUBSET Coros, Deliver(cs), \A x \in cs : Reached(x),
              missed[c] => missed'[c], c \in cs \/ sus'[c] = sus[c]
       PROVE  Goal
  <2>1. c \notin cs
    BY <1>1, <1>11, DeliverFacts
  <2>2. st'[c] = st[c] /\ gate'[c] = gate[c]
    BY <1>1, <1>11, <2>1, DeliverFacts
  <2> QED
    BY <1>2, <1>11, <2>1, <2>2
<1>12. ASSUME NEW d \in Coros, TakeGate(d) \/ TimerFires(d) PROVE Goal
  <2>1. PICK cs : cs = {d}
    OBVIOUS
  <2>2. cs \in SUBSET Coros /\ Deliver(cs) /\ \A x \in cs : Reached(x)
    BY <1>12, <2>1 DEF TakeGate, TimerFires, Reached
  <2>3. missed' = missed /\ (c \in cs \/ sus'[c] = sus[c])
    BY <1>1, <1>12, <2>1 DEF TakeGate, TimerFires, WaitersType, SusGoto
  <2> QED
    BY <1>11, <2>2, <2>3
<1>13. ASSUME NEW a \in Actors, WakeStep(a) PROVE Goal
  <2>1. sus' = sus /\ (missed[c] => missed'[c])
    <3>1. /\ sus' = sus
          /\ \/ missed' = missed
             \/ missed' = [x \in Coros |-> missed[x] \/ sus[x] \in {"arm", "add"}]
      BY <1>1, <1>13, WakeDelivers
    <3> QED
      BY <3>1
  <2>2. CASE gate' = gate /\ st' = st
    BY <1>2, <2>1, <2>2
  <2>3. ASSUME NEW cs \in SUBSET Coros, Deliver(cs), \A x \in cs : Reached(x) PROVE Goal
    BY <1>11, <2>1, <2>3
  <2> QED
    BY <1>1, <1>13, <2>2, <2>3, WakeDelivers
<1>14. CASE UNCHANGED <<waiterVars, channelVars>>
  BY <1>3, <1>14 DEF waiterVars, frameVars
<1> QED
  BY <1>4, <1>5, <1>8, <1>9, <1>10, <1>12, <1>13, <1>14 DEF ChannelNext, ChannelCoro, Actors

\* The list of a coroutine is emptied, and it stays suspended: it has yet to register.
LEMMA CloseWakeEach ==
  ASSUME ChannelInv, NEW a \in Actors, WakeEach(a), NEW c \in Coros, role[c] # "select",
         Own(c) = Head(wk[a].todo), st'[c] = "awaiting"
  PROVE  missed'[c] /\ sus'[c] # "none"
<1>1. WaitersInv /\ LinkedIn(ChannelUses) /\ DeadlineInv(c)
  BY DEF ChannelInv, Waiting
<1>2. PICK l \in Lists, cs \in SUBSET Coros :
        /\ l = Head(wk[a].todo) /\ cs = Chain(l) /\ Deliver(cs) /\ \A x \in cs : Reached(x)
        /\ missed' = [x \in Coros |-> missed[x] \/ sus[x] \in {"arm", "add"}]
  BY <1>1, WakeDelivers DEF WakeStep, WakeEach
<1>3. sus' = sus
  BY DEF WakeEach
<1>4. c \notin cs /\ st[c] = "awaiting"
  BY <1>1, <1>2, DeliverFacts
<1>5. l \in ChannelUses[c]
  BY <1>2, ChannelLists
<1>6. ToCome(c, l)
  BY <1>1, <1>2, <1>4, <1>5 DEF LinkedIn
<1>7. sus[c] \in {"arm", "add"}
  BY <1>1, <1>6 DEF ToCome, DeadlineInv
<1> QED
  BY <1>2, <1>3, <1>7

\* Why a coroutine is left suspended on a closed channel, step by step.
LEMMA CloseStep ==
  ASSUME ChannelInv, [ChannelNext]_<<waiterVars, channelVars>>, NEW c \in Coros
  PROVE  CloseInv(c)'
<1>1. /\ WaitersInv /\ WaitersType /\ RolesInv /\ role' = role /\ CloseInv(c)
      /\ role \in [Coros -> Roles] /\ closed \in [Channels -> BOOLEAN]
      /\ \A d \in Coros : sus[d] = "ready second" => role[d] = "select"
  BY RolesStay DEF ChannelInv, Waiting, WaitersInv, RolesInv, DeadlineInv
<1>2. PICK l \in Lists : l = Own(c)
  BY ChannelLists
<1>3. Own(c)' = l /\ (Announced(l)' => Announced(Own(c))')
  BY <1>1, <1>2 DEF Own, IsSender, Senders, Receivers, Announced
<1> SUFFICES ASSUME closed'[First], role[c] # "select", st'[c] = "awaiting"
             PROVE  /\ missed'[c] \/ role[c] = "send" \/ Announced(l)'
                    /\ gate'[c] # "none" /\ sus'[c] = "none" => Announced(l)'
  BY <1>1, <1>3 DEF CloseInv
<1>4. CASE ~closed[First]
  <2>1. PICK w \in Wakers, ch \in Channels : Close(w, ch)
    BY <1>1, <1>4, RolesStay
  <2>2. closed' = [closed EXCEPT ![ch] = TRUE]
    BY <2>1 DEF Close
  <2>3. ch = First
    BY <1>1, <1>4, <2>2 DEF Channels
  <2>4. PICK call : call = WakeAll(<<Receivers(ch), Senders(ch)>>) /\ SetWake(w, call)
    BY <2>1 DEF Close
  <2>5. /\ call.at = "all" /\ wk'[w] = call /\ w \in Actors
        /\ \E i \in DOMAIN call.todo : call.todo[i] = l
    <3>1. /\ call.at = "all" /\ \E i \in DOMAIN call.todo : call.todo[i] = Receivers(First)
          /\ \E i \in DOMAIN call.todo : call.todo[i] = Senders(First)
      BY <2>3, <2>4, CloseCall
    <3>2. l = Receivers(First) \/ l = Senders(First)
      BY <1>2 DEF Own
    <3>3. w \in Actors /\ wk'[w] = call
      BY <1>1, <2>4 DEF SetWake, WaitersType, Actors
    <3> QED
      BY <3>1, <3>2, <3>3
  <2>6. Announced(l)'
    BY <2>5 DEF Announced
  <2> QED
    BY <2>6
<1>5. CASE closed[First]
  <2>1. CASE \E a \in Actors : WakeEach(a) /\ l = Head(wk[a].todo)
    BY <1>2, <2>1, CloseWakeEach
  <2>2. CASE ~\E a \in Actors : WakeEach(a) /\ l = Head(wk[a].todo)
    <3>1. Announced(l) => Announced(l)'
      BY <1>1, <2>2, AnnouncedKept
    <3> QED
      BY <1>1, <1>2, <1>5, <3>1, ClosedMoves DEF CloseInv
  <2> QED
    BY <2>1, <2>2
<1> QED
  BY <1>4, <1>5

\* What is inductive of the channels holds at first, and every step keeps it.
LEMMA ChannelInductive ==
  /\ WaitersInit /\ role \in [Coros -> Roles] /\ ChannelInit => ChannelInv
  /\ ChannelInv /\ [ChannelNext]_<<waiterVars, channelVars>> => ChannelInv'
<1>1. ASSUME WaitersInit, role \in [Coros -> Roles], ChannelInit PROVE ChannelInv
  <2>1. RolesInv /\ \A c \in Coros : ~closed[First]
    BY <1>1 DEF RolesInv, ChannelInit, Channels
  <2>2. Waiting(ChannelUses)
    <3>1. PICK uses : uses = ChannelUses
      OBVIOUS
    <3>2. uses \in [Coros -> SUBSET Lists]
      BY <3>1, ChannelLists
    <3> QED
      BY <1>1, <3>1, <3>2, WaitersBegin
  <2>3. \A c \in Coros : DeadlineInv(c) /\ CloseInv(c)
    BY <1>1, <2>1 DEF WaitersInit, DeadlineInv, CloseInv
  <2> QED
    BY <2>1, <2>2, <2>3 DEF ChannelInv
<1>2. ASSUME ChannelInv, [ChannelNext]_<<waiterVars, channelVars>> PROVE ChannelInv'
  <2>1. role' = role /\ RolesInv'
    BY <1>2, RolesStay DEF ChannelInv
  <2>2. PICK uses : uses = ChannelUses
    OBVIOUS
  <2>3. Waiting(uses)'
    BY <1>2, <2>2, ChannelWaiting
  <2>4. ChannelUses' = uses
    BY <2>1, <2>2 DEF ChannelUses, Own, IsSender
  <2>5. Waiting(ChannelUses)'
    BY <2>3, <2>4 DEF Waiting, LinkedIn
  <2>6. \A c \in Coros : DeadlineInv(c)' /\ CloseInv(c)'
    BY <1>2, DeadlineStep, CloseStep
  <2> QED
    BY <2>1, <2>5, <2>6 DEF ChannelInv
<1> QED
  BY <1>1, <1>2

\* What it says of the coroutines.
LEMMA ChannelHold ==
  ASSUME ChannelInv
  PROVE  /\ ResumedOnce /\ WaiterIsLinked /\ CloseReleases /\ SelectIsInBoth
         /\ \A c \in Coros : HasDeadline(c) /\ st[c] = "awaiting" => timer[c] \/ sus[c] = "arm"
<1>1. /\ WaitersInv /\ WaitersType /\ LinkedIn(ChannelUses) /\ RolesInv
      /\ \A c \in Coros : DeadlineInv(c) /\ CloseInv(c) /\ GateInv(c)
  BY DEF ChannelInv, Waiting, WaitersInv
<1>2. ResumedOnce
  BY <1>1 DEF ResumedOnce, GateInv
<1>3. ASSUME NEW c \in Coros, st[c] = "awaiting" PROVE sus[c] # "ready second"
  BY <1>1, <1>3 DEF GateInv, Aside, Fresh
<1>4. WaiterIsLinked
  <2> SUFFICES ASSUME NEW c \in Coros, st[c] = "awaiting", sus[c] \notin {"arm", "add", "gate"}
               PROVE  Linked(c)
    BY DEF WaiterIsLinked
  <2>1. CASE role[c] = "select"
    <3>1. Receivers(First) \in ChannelUses[c] /\ Receivers(First) \in Lists
      BY <2>1, ChannelLists DEF Channels
    <3>2. ~ToCome(c, Receivers(First))
      BY <1>3, ChannelLists DEF ToCome
    <3> QED
      BY <1>1, <3>1, <3>2 DEF LinkedIn, Linked
  <2>2. CASE role[c] # "select"
    <3>1. Own(c) \in ChannelUses[c] /\ Own(c) \in Lists
      BY <2>2, ChannelLists
    <3>2. ~ToCome(c, Own(c))
      BY <1>1, <1>3, <2>2 DEF ToCome, DeadlineInv
    <3> QED
      BY <1>1, <3>1, <3>2 DEF LinkedIn, Linked
  <2> QED
    BY <2>1, <2>2
<1>5. CloseReleases
  <2> SUFFICES ASSUME NEW c \in Coros, role[c] \in Roles \ {"select"}, closed[First], Quiet,
                      st[c] = "awaiting", sus[c] = "none"
               PROVE  gate[c] = "none" /\ (missed[c] \/ role[c] = "send")
    BY DEF CloseReleases
  <2>1. ~Announced(Own(c))
    <3>1. Idle.at # "all"
      BY DEF Idle
    <3> QED
      BY <3>1 DEF Quiet, Announced
  <2> QED
    BY <1>1, <2>1 DEF CloseInv
<1>6. SelectIsInBoth
  <2> SUFFICES ASSUME NEW c \in Coros, role[c] = "select", st[c] = "awaiting",
                      sus[c] \notin {"add", "add second", "gate"}, NEW ch \in Channels
               PROVE  c \in Chain(Receivers(ch))
    BY DEF SelectIsInBoth
  <2>1. Receivers(ch) \in ChannelUses[c] /\ Receivers(ch) \in Lists
    BY ChannelLists DEF Channels
  <2>2. ~ToCome(c, Receivers(ch))
    BY <1>1, <1>3 DEF ToCome, DeadlineInv, HasDeadline
  <2> QED
    BY <1>1, <2>1, <2>2 DEF LinkedIn
<1>7. \A c \in Coros : HasDeadline(c) /\ st[c] = "awaiting" => timer[c] \/ sus[c] = "arm"
  BY <1>1 DEF DeadlineInv
<1> QED
  BY <1>2, <1>4, <1>5, <1>6, <1>7

\* The coroutines at the channels, in any roles and awaiting any number of times, are
\* scheduled once for each time and stay in the lists, a select in both; once close()
\* has returned, those that it leaves suspended are the plain ones that it could not see
\* or that send.
THEOREM ChannelAwaitersAreServed ==
  ChannelSpec => [](ResumedOnce /\ WaiterIsLinked /\ CloseReleases /\ SelectIsInBoth)
BY ChannelInductive, ChannelHold, PTL DEF ChannelSpec

-----------------------------------------------------------------------------
(* Types.                                                                  *)

\* A coroutine that has been found fresh has an await left.
BoundInv(c) ==
  /\ awaits[c] <= MaxAwaits
  /\ Aside(c) => awaits[c] < MaxAwaits

\* A step that begins no await.
LEMMA BoundKept ==
  ASSUME WaitersType, NEW c \in Coros, BoundInv(c), awaits' = awaits,
         st'[c] = "prepared" => st[c] = "prepared" \/ MayAwait(c),
         sus'[c] = "ready second" => sus[c] = "ready second" \/ MayAwait(c)
  PROVE  BoundInv(c)'
BY DEF BoundInv, Aside, MayAwait

\* What is less than a bound can grow by one.
LEMMA OneMore == \A n, m \in Nat : n < m => n + 1 <= m
BY SMT

\* An await: of d, which has one left.
LEMMA BoundBegins ==
  ASSUME WaitersType, \A x \in Coros : BoundInv(x), NEW d \in Coros, NEW c \in Coros,
         Aside(d) \/ MayAwait(d), GoOn(d) \/ \E k, p : p # "ready second" /\ Suspend(d, k, p)
  PROVE  BoundInv(c)'
<1>1. /\ awaits' = [awaits EXCEPT ![d] = @ + 1]
      /\ \E s \in {"runnable", "awaiting"} : st' = [st EXCEPT ![d] = s]
      /\ \E p : p # "ready second" /\ sus' = [sus EXCEPT ![d] = p]
  BY DEF GoOn, Suspend
<1>2. awaits[d] \in Nat /\ awaits[d] < MaxAwaits
  BY DEF BoundInv, MayAwait, WaitersType
<1>3. CASE c = d
  <2>1. awaits'[c] = awaits[d] + 1 /\ ~Aside(c)'
    BY <1>1, <1>3 DEF WaitersType, Aside
  <2>2. MaxAwaits \in Nat
    BY AwaitsAssumption
  <2>3. awaits[d] + 1 <= MaxAwaits
    BY <1>2, <2>2, OneMore
  <2> QED
    BY <2>1, <2>3 DEF BoundInv
<1>4. CASE c # d
  <2>1. awaits'[c] = awaits[c] /\ st'[c] = st[c] /\ sus'[c] = sus[c]
    BY <1>1, <1>4 DEF WaitersType
  <2> QED
    BY <2>1 DEF BoundInv, Aside
<1> QED
  BY <1>3, <1>4

\* The steps that primitives and channels share.
LEMMA BoundShared ==
  ASSUME WaitersInv, NEW c \in Coros, BoundInv(c),
         \/ \E d \in Coros : Arm(d) \/ TakeGate(d) \/ TimerFires(d) \/ Abandon(d)
         \/ \E a \in Actors : WakeStep(a)
  PROVE  BoundInv(c)'
<1>1. WaitersType
  BY DEF WaitersInv
<1>2. ASSUME NEW d \in Coros, Arm(d) \/ Abandon(d) PROVE BoundInv(c)'
  <2>1. /\ awaits' = awaits /\ st' = st
        /\ \E p \in {"add", "none"} : sus' = [sus EXCEPT ![d] = p]
    BY <1>2 DEF Arm, Abandon, Gone, SusGoto
  <2>2. sus'[c] = "ready second" => sus[c] = "ready second"
    BY <1>1, <2>1 DEF WaitersType
  <2> QED
    BY <1>1, <2>1, <2>2, BoundKept
<1>3. ASSUME NEW cs \in SUBSET Coros, Deliver(cs), awaits' = awaits,
             sus'[c] = "ready second" => sus[c] = "ready second"
      PROVE  BoundInv(c)'
  <2>1. st'[c] = "prepared" => st[c] = "prepared"
    BY <1>3 DEF Deliver, Schedule
  <2> QED
    BY <1>1, <1>3, <2>1, BoundKept
<1>4. ASSUME NEW d \in Coros, TakeGate(d) \/ TimerFires(d) PROVE BoundInv(c)'
  <2>1. PICK cs : cs = {d}
    OBVIOUS
  <2>2. cs \in SUBSET Coros /\ Deliver(cs) /\ awaits' = awaits
    BY <1>4, <2>1 DEF TakeGate, TimerFires
  <2>3. sus'[c] = "ready second" => sus[c] = "ready second"
    BY <1>1, <1>4 DEF TakeGate, TimerFires, SusGoto, WaitersType
  <2> QED
    BY <1>3, <2>2, <2>3
<1>5. ASSUME NEW a \in Actors, WakeStep(a) PROVE BoundInv(c)'
  <2>1. awaits' = awaits /\ sus' = sus
    BY <1>5, WakeDelivers
  <2>2. CASE st' = st
    BY <1>1, <2>1, <2>2, BoundKept
  <2>3. ASSUME NEW cs \in SUBSET Coros, Deliver(cs) PROVE BoundInv(c)'
    BY <1>3, <2>1, <2>3
  <2> QED
    BY <1>5, <2>2, <2>3, WakeDelivers
<1> QED
  BY <1>2, <1>4, <1>5

\* The primitives keep the bound.
LEMMA BoundPrimitives ==
  ASSUME WaitersInv, \A x \in Coros : BoundInv(x), NEW c \in Coros,
         [PrimitivesNext]_<<waiterVars, primitiveVars>>
  PROVE  BoundInv(c)'
<1>1. WaitersType /\ BoundInv(c)
  BY DEF WaitersInv
<1>2. ASSUME NEW d \in Coros, AwaitReady(d) \/ AwaitTooLate(d) \/ AwaitSuspend(d)
      PROVE  BoundInv(c)'
  <2>1. BeginsAwait(d) /\ (GoOn(d) \/ \E k, p : p # "ready second" /\ Suspend(d, k, p))
    BY <1>2 DEF AwaitReady, AwaitTooLate, AwaitSuspend
  <2>2. Aside(d) \/ MayAwait(d)
    BY <2>1 DEF BeginsAwait, Aside
  <2> QED
    BY <1>1, <2>1, <2>2, BoundBegins
<1>3. ASSUME NEW d \in Coros, Prepare(d) PROVE BoundInv(c)'
  <2>1. /\ MayAwait(d) /\ awaits' = awaits /\ sus' = sus /\ st' = [st EXCEPT ![d] = "prepared"]
    BY <1>3 DEF Prepare, frameVars
  <2>2. st'[c] = "prepared" => st[c] = "prepared" \/ MayAwait(c)
    BY <1>1, <2>1 DEF WaitersType
  <2> QED
    BY <1>1, <2>1, <2>2, BoundKept
<1>4. ASSUME NEW d \in Coros, RegisterNode(d) \/ Recheck(d) PROVE BoundInv(c)'
  <2>1. /\ awaits' = awaits /\ st' = st
        /\ \E p \in {"check", "gate", "none"} : sus' = [sus EXCEPT ![d] = p]
    BY <1>4 DEF RegisterNode, Register, Recheck, SusGoto
  <2>2. sus'[c] = "ready second" => sus[c] = "ready second"
    BY <1>1, <2>1 DEF WaitersType
  <2> QED
    BY <1>1, <2>1, <2>2, BoundKept
<1>5. ASSUME NEW d \in Coros, ResumePlain(d) \/ ResumeTimed(d) \/ Relook(d) PROVE BoundInv(c)'
  <2>1. /\ awaits' = awaits /\ sus' = sus
        /\ \E p \in {"done", "relook"} : st' = [st EXCEPT ![d] = p]
    BY <1>5 DEF ResumePlain, ResumeTimed, Relook, Resume, ResumeAt, frameVars
  <2>2. st'[c] = "prepared" => st[c] = "prepared"
    BY <1>1, <2>1 DEF WaitersType
  <2> QED
    BY <1>1, <2>1, <2>2, BoundKept
<1>6. CASE UNCHANGED <<frameVars, st>>
  <2>1. awaits' = awaits /\ sus' = sus /\ st' = st
    BY <1>6 DEF frameVars
  <2> QED
    BY <1>1, <2>1, BoundKept
<1>7. ASSUME NEW w \in Wakers, PrimitivesOp(w) PROVE BoundInv(c)'
  BY <1>6, <1>7 DEF PrimitivesOp, Release, Set, Reset, ArriveOnly, ArriveAndDrop, Store,
                    ModifyAndGet, Operate
<1>8. ASSUME NEW t \in Threads, Call(t) \/ ThreadGets(t) \/ ThreadWaits(t) \/ ThreadWakes(t)
      PROVE  BoundInv(c)'
  BY <1>6, <1>8 DEF Call, ThreadGets, ThreadWaits, ThreadWakes, ThrGoto, waiterVars, frameVars
<1>9. ASSUME NEW a \in Actors, AfterArrive(a) PROVE BoundInv(c)'
  BY <1>6, <1>9 DEF AfterArrive
<1>10. CASE UNCHANGED <<waiterVars, primitiveVars>>
  BY <1>6, <1>10 DEF waiterVars, frameVars
<1> QED
  BY <1>1, <1>2, <1>3, <1>4, <1>5, <1>7, <1>8, <1>9, <1>10, BoundShared
     DEF PrimitivesNext, PrimitivesCoro

\* The channels keep it.
LEMMA BoundChannels ==
  ASSUME WaitersInv, RolesInv, \A x \in Coros : BoundInv(x) /\ DeadlineInv(x), NEW c \in Coros,
         [ChannelNext]_<<waiterVars, channelVars>>
  PROVE  BoundInv(c)'
<1>1. WaitersType /\ BoundInv(c)
  BY DEF WaitersInv
<1>2. ASSUME NEW d \in Coros, SendReady(d) PROVE BoundInv(c)'
  <2>1. MayAwait(d) /\ (GoOn(d) \/ \E k, p : p # "ready second" /\ Suspend(d, k, p))
    BY <1>2 DEF SendReady
  <2> QED
    BY <1>1, <2>1, BoundBegins
<1>3. ASSUME NEW d \in Coros, NEW ch \in Channels, ReceiveReady(d, ch) \/ ReceiveSuspend(d, ch)
      PROVE  BoundInv(c)'
  <2>1. role[d] \in Roles /\ DeadlineInv(d)
    BY DEF RolesInv
  <2>2. role[d] \in {"receive", "timed_receive", "select"}
    BY <2>1, <1>3 DEF ReceiveReady, ReceiveSuspend, ReceivesFrom, IsSender, Roles, DeadlineInv
  <2>3. Aside(d) \/ MayAwait(d)
    BY <1>3 DEF ReceiveReady, ReceiveSuspend, ReceivesFrom, Aside
  <2>4. \/ GoOn(d) \/ \E k, p : p # "ready second" /\ Suspend(d, k, p)
        \/ ch = First /\ SusOnly(d, "ready second")
    BY <1>3, <2>2 DEF ReceiveReady, ReceiveSuspend
  <2>5. CASE ch = First /\ SusOnly(d, "ready second")
    <3>1. MayAwait(d) /\ awaits' = awaits /\ st' = st /\ sus' = [sus EXCEPT ![d] = "ready second"]
      BY <1>3, <2>5 DEF ReceiveReady, ReceiveSuspend, ReceivesFrom, SusOnly, SusGoto
    <3>2. sus'[c] = "ready second" => sus[c] = "ready second" \/ MayAwait(c)
      BY <1>1, <3>1 DEF WaitersType
    <3> QED
      BY <1>1, <3>1, <3>2, BoundKept
  <2> QED
    BY <1>1, <2>3, <2>4, <2>5, BoundBegins
<1>4. ASSUME NEW d \in Coros,
             \/ RegisterWaiter(d) \/ CheckSend(d) \/ StoreSent(d)
             \/ \E ch \in Channels : CheckReceive(d, ch)
      PROVE  BoundInv(c)'
  <2>1. awaits' = awaits /\ st' = st
    BY <1>4 DEF RegisterWaiter, Register, CheckSend, StoreSent, CheckReceive, SusOnly
  <2>2. \E p \in {"none", "add second", "check", "check second", "gate", "sent", "unsent"} :
          sus' = [sus EXCEPT ![d] = p]
    BY <1>4 DEF RegisterWaiter, Register, CheckSend, StoreSent, CheckReceive, SusOnly, SusGoto
  <2>3. sus'[c] = "ready second" => sus[c] = "ready second"
    BY <1>1, <2>2 DEF WaitersType
  <2> QED
    BY <1>1, <2>1, <2>3, BoundKept
<1>5. ASSUME NEW d \in Coros, ResumeSend(d) \/ ResumeReceive(d) \/ SelectSecond(d)
      PROVE  BoundInv(c)'
  <2>1. /\ awaits' = awaits /\ sus' = sus
        /\ \E p \in {"done", "relook"} : st' = [st EXCEPT ![d] = p]
    BY <1>5 DEF ResumeSend, ResumeReceive, SelectSecond, Resume, ResumeAt, frameVars
  <2>2. st'[c] = "prepared" => st[c] = "prepared"
    BY <1>1, <2>1 DEF WaitersType
  <2> QED
    BY <1>1, <2>1, <2>2, BoundKept
<1>6. CASE UNCHANGED <<frameVars, st>>
  <2>1. awaits' = awaits /\ sus' = sus /\ st' = st
    BY <1>6 DEF frameVars
  <2> QED
    BY <1>1, <2>1, BoundKept
<1>7. ASSUME NEW w \in Wakers, NEW ch \in Channels,
             SendValue(w, ch) \/ ReceiveValue(w, ch) \/ Close(w, ch)
      PROVE  BoundInv(c)'
  BY <1>6, <1>7 DEF SendValue, ReceiveValue, Close, CallChannel
<1>8. CASE UNCHANGED <<waiterVars, channelVars>>
  BY <1>6, <1>8 DEF waiterVars, frameVars
<1> QED
  BY <1>1, <1>2, <1>3, <1>4, <1>5, <1>7, <1>8, BoundShared DEF ChannelNext, ChannelCoro, Actors

\* A channel's buffer is a sequence, whatever is in it, and has room for as much.
BufferInv ==
  /\ buffer = [ch \in Channels |-> buffer[ch]]
  /\ \A ch \in Channels : (\E S : buffer[ch] \in Seq(S)) /\ Len(buffer[ch]) <= Capacity
  /\ sent \in [Coros -> BOOLEAN]

\* A value goes into a buffer that has room, or comes out of one that has a value.
BufferMoves ==
  \/ buffer' = buffer
  \/ \E ch \in Channels : \E v : HasRoom(ch) /\ Push(ch, v)
  \/ \E ch \in Channels : HasValue(ch) /\ PopFront(ch)

\* The buffer after any of those.
LEMMA BufferKept ==
  ASSUME BufferInv, BufferMoves, sent' \in [Coros -> BOOLEAN]
  PROVE  BufferInv'
<1>1. CASE buffer' = buffer
  BY <1>1 DEF BufferInv
<1>2. ASSUME NEW d \in Channels, NEW s, buffer' = [buffer EXCEPT ![d] = s],
             \E S : s \in Seq(S), Len(s) <= Capacity
      PROVE  BufferInv'
  <2>1. \A ch \in Channels : buffer'[ch] = IF ch = d THEN s ELSE buffer[ch]
    BY <1>2 DEF BufferInv
  <2>2. buffer' = [ch \in Channels |-> buffer'[ch]]
    BY <1>2 DEF BufferInv
  <2>3. \A ch \in Channels :
          (\E S : buffer'[ch] \in Seq(S)) /\ Len(buffer'[ch]) <= Capacity
    BY <1>2, <2>1 DEF BufferInv
  <2> QED
    BY <2>2, <2>3 DEF BufferInv
<1>3. ASSUME NEW ch \in Channels, NEW v, HasRoom(ch), Push(ch, v) PROVE BufferInv'
  <2>1. PICK s : s = buffer[ch]
    OBVIOUS
  <2>2. PICK S : s \in Seq(S)
    BY <2>1 DEF BufferInv
  <2>3. PICK T : T = S \union {v}
    OBVIOUS
  <2>4. s \in Seq(T) /\ v \in T
    <3>1. Len(s) \in Nat /\ s \in [1 .. Len(s) -> S]
      BY <2>2, LenProperties
    <3>2. s \in [1 .. Len(s) -> T]
      BY <2>3, <3>1
    <3> QED
      BY <2>3, <3>1, <3>2, SeqDef
  <2>5. Append(s, v) \in Seq(T) /\ Len(Append(s, v)) = Len(s) + 1 /\ Len(s) \in Nat
    BY <2>4, AppendProperties, LenProperties
  <2>6. Len(s) < Capacity /\ Capacity \in Nat
    BY <1>3, <2>1, CapacityAssumption DEF HasRoom
  <2>7. Len(Append(s, v)) <= Capacity
    BY <2>5, <2>6, SMT
  <2>8. buffer' = [buffer EXCEPT ![ch] = Append(s, v)]
    BY <1>3, <2>1 DEF Push
  <2> QED
    BY <1>2, <2>5, <2>7, <2>8
<1>4. ASSUME NEW ch \in Channels, HasValue(ch), PopFront(ch) PROVE BufferInv'
  <2>1. PICK s : s = buffer[ch]
    OBVIOUS
  <2>2. PICK S : s \in Seq(S)
    BY <2>1 DEF BufferInv
  <2>3. s # <<>> /\ Len(s) <= Capacity
    BY <1>4, <2>1 DEF HasValue, BufferInv
  <2>4. Tail(s) \in Seq(S) /\ Len(Tail(s)) = Len(s) - 1 /\ Len(s) \in Nat /\ Capacity \in Nat
    BY <2>2, <2>3, HeadTailProperties, LenProperties, CapacityAssumption
  <2>5. Len(Tail(s)) <= Capacity
    BY <2>3, <2>4, SMT
  <2>6. buffer' = [buffer EXCEPT ![ch] = Tail(s)]
    BY <1>4, <2>1 DEF PopFront
  <2> QED
    BY <1>2, <2>4, <2>5, <2>6
<1> QED
  BY <1>1, <1>3, <1>4 DEF BufferMoves

\* The channels keep their buffers.
LEMMA BufferStep ==
  ASSUME BufferInv, [ChannelNext]_<<waiterVars, channelVars>>
  PROVE  BufferInv'
<1>1. First \in Channels /\ Second \in Channels
  BY DEF Channels
<1>2. ASSUME NEW c, NEW v, TrySend(c, v) PROVE BufferMoves
  BY <1>1, <1>2 DEF TrySend, BufferMoves
<1>3. ASSUME NEW c, NEW ok \in BOOLEAN, SentIf(c, ok) PROVE sent' \in [Coros -> BOOLEAN]
  BY <1>3 DEF SentIf, BufferInv
<1>4. HasRoom(First) \in BOOLEAN
  BY DEF HasRoom
<1>5. CASE BufferMoves /\ sent' = sent
  BY <1>5, BufferKept DEF BufferInv
<1>6. ASSUME NEW c \in Coros, SendReady(c) \/ CheckSend(c) \/ StoreSent(c) \/ ResumeSend(c)
      PROVE  BufferInv'
  <2>1. buffer' = buffer \/ \E v : TrySend(c, v)
    BY <1>6 DEF SendReady, CheckSend, StoreSent, ResumeSend
  <2>2. sent' = sent \/ \E ok \in BOOLEAN : SentIf(c, ok)
    BY <1>4, <1>6 DEF SendReady, CheckSend, StoreSent, ResumeSend
  <2>3. sent' \in [Coros -> BOOLEAN]
    BY <1>3, <2>2 DEF BufferInv
  <2>4. BufferMoves
    BY <1>2, <2>1 DEF BufferMoves
  <2> QED
    BY <2>3, <2>4, BufferKept
<1>7. ASSUME NEW c \in Coros, ResumeReceive(c) \/ SelectSecond(c) PROVE BufferInv'
  BY <1>1, <1>5, <1>7 DEF ResumeReceive, SelectSecond, BufferMoves
<1>8. ASSUME NEW c \in Coros, NEW ch \in Channels,
             ReceiveReady(c, ch) \/ ReceiveSuspend(c, ch) \/ CheckReceive(c, ch)
      PROVE  BufferInv'
  BY <1>5, <1>8 DEF ReceiveReady, ReceiveSuspend, CheckReceive, BufferMoves
<1>9. CASE UNCHANGED channelVars
  BY <1>5, <1>9 DEF channelVars, BufferMoves
<1>10. ASSUME NEW c \in Coros, ChannelCoro(c) PROVE BufferInv'
  BY <1>6, <1>7, <1>8, <1>9, <1>10 DEF ChannelCoro, RegisterWaiter
<1>11. ASSUME NEW w \in Wakers, NEW ch \in Channels,
              SendValue(w, ch) \/ ReceiveValue(w, ch) \/ Close(w, ch)
       PROVE  BufferInv'
  BY <1>5, <1>11 DEF SendValue, ReceiveValue, Close, CallChannel, BufferMoves
<1> QED
  BY <1>9, <1>10, <1>11 DEF ChannelNext

\* A coroutine that was overtaken stays so, and how T moves does not change.
LEMMA OvertakenGrow ==
  ASSUME [ChannelNext]_<<waiterVars, channelVars>>
  PROVE  /\ overtaken \subseteq overtaken' /\ moves' = moves
         /\ overtaken \subseteq Coros => overtaken' \subseteq Coros
<1>1. CASE overtaken' = overtaken /\ moves' = moves
  BY <1>1
<1>2. ASSUME NEW c \in Coros, ResumeSend(c)
      PROVE  moves' = moves /\ (overtaken' = overtaken \union {c} \/ overtaken' = overtaken)
  BY <1>2 DEF ResumeSend
<1>3. CASE UNCHANGED channelVars
  BY <1>1, <1>3 DEF channelVars
<1>4. ASSUME NEW c \in Coros,
             \/ SendReady(c) \/ CheckSend(c) \/ StoreSent(c)
             \/ ResumeReceive(c) \/ SelectSecond(c)
             \/ \E ch \in Channels :
                  ReceiveReady(c, ch) \/ ReceiveSuspend(c, ch) \/ CheckReceive(c, ch)
      PROVE  overtaken' = overtaken /\ moves' = moves
  BY <1>4 DEF SendReady, CheckSend, StoreSent, ResumeReceive, SelectSecond, ReceiveReady,
              ReceiveSuspend, CheckReceive
<1>5. ASSUME NEW w \in Wakers, NEW ch \in Channels,
             SendValue(w, ch) \/ ReceiveValue(w, ch) \/ Close(w, ch)
      PROVE  overtaken' = overtaken /\ moves' = moves
  BY <1>5 DEF SendValue, ReceiveValue, Close, CallChannel
<1> QED
  BY <1>1, <1>2, <1>3, <1>4, <1>5 DEF ChannelNext, ChannelCoro, RegisterWaiter

-----------------------------------------------------------------------------
(* The primitives and the channels, one of them at a time.                 *)

\* The invariant of the object at hand.
ObjectInv ==
  IF which = "channel" THEN ChannelInv ELSE PrimitivesInv

\* What is inductive of MCAsync, but for the places of the values.
AsyncInv ==
  /\ ThreadsInv /\ WaitersInv /\ RolesInv /\ BufferInv
  /\ found \in [Coros -> BOOLEAN] /\ lost \in Nat /\ overtaken \subseteq Coros
  /\ \A c \in Coros : BoundInv(c)
  /\ ObjectInv
  /\ which # "channel" => closed[First] = FALSE /\ \A c \in Coros : role[c] = "send"

\* It holds at first.
LEMMA AsyncInit == Init => AsyncInv
<1> SUFFICES ASSUME Init PROVE AsyncInv
  OBVIOUS
<1>1. WaitersInit /\ PrimitivesInit /\ ChannelInit /\ role \in [Coros -> Roles]
  BY DEF Init, RolePairs, Roles
<1>2. ThreadsInv /\ PrimitivesInv /\ ChannelInv
  BY <1>1, ThreadsBegin, PrimitivesInductive, ChannelInductive
<1>3. WaitersInv /\ RolesInv
  BY <1>2 DEF ChannelInv, Waiting
<1>4. BufferInv
  <2>1. <<>> \in Seq({}) /\ Len(<<>>) <= Capacity
    <3>1. Len(<<>>) = 0 /\ <<>> \in Seq({})
      OBVIOUS
    <3> QED
      BY <3>1, CapacityAssumption, SMT
  <2>2. \A ch \in Channels : buffer[ch] = <<>>
    BY <1>1 DEF ChannelInit
  <2>3. buffer = [ch \in Channels |-> buffer[ch]] /\ sent \in [Coros -> BOOLEAN]
    BY <1>1 DEF ChannelInit
  <2> QED
    BY <2>1, <2>2, <2>3 DEF BufferInv
<1>5. \A c \in Coros : BoundInv(c)
  <2>1. 0 <= MaxAwaits /\ 0 < MaxAwaits
    BY AwaitsAssumption, SMT
  <2>2. \A c \in Coros : awaits[c] = 0
    BY <1>1 DEF WaitersInit
  <2> QED
    BY <2>1, <2>2 DEF BoundInv
<1>6. which # "channel" => closed[First] = FALSE /\ \A c \in Coros : role[c] = "send"
  BY DEF Init, ChannelInit, Channels
<1>7. found \in [Coros -> BOOLEAN] /\ lost \in Nat /\ overtaken \subseteq Coros
  BY <1>1 DEF PrimitivesInit, ChannelInit
<1> QED
  BY <1>2, <1>3, <1>4, <1>5, <1>6, <1>7 DEF AsyncInv, ObjectInv

\* Every step keeps it.
LEMMA AsyncStep ==
  AsyncInv /\ [Next]_<<which, waiterVars, primitiveVars, channelVars>> => AsyncInv'
<1> SUFFICES ASSUME AsyncInv, [Next]_<<which, waiterVars, primitiveVars, channelVars>>
             PROVE  AsyncInv'
  OBVIOUS
<1>1. /\ ThreadsInv /\ WaitersInv /\ RolesInv /\ BufferInv /\ which' = which
      /\ found \in [Coros -> BOOLEAN] /\ lost \in Nat /\ overtaken \subseteq Coros
      /\ \A c \in Coros : BoundInv(c)
  BY DEF AsyncInv, Next
<1>2. CASE which = "channel"
  <2>1. [ChannelNext]_<<waiterVars, channelVars>> /\ UNCHANGED primitiveVars /\ ChannelInv
    BY <1>2 DEF Next, AsyncInv, ObjectInv
  <2>2. ThreadsInv'
    BY <1>1, <2>1, UnchangedStep
  <2>3. ChannelInv'
    BY <2>1, ChannelInductive
  <2>4. WaitersInv' /\ RolesInv'
    BY <2>3 DEF ChannelInv, Waiting
  <2>5. BufferInv'
    BY <1>1, <2>1, BufferStep
  <2>6. \A c \in Coros : BoundInv(c)'
    BY <1>1, <2>1, BoundChannels DEF ChannelInv
  <2>7. found' = found /\ lost' = lost /\ overtaken' \subseteq Coros
    BY <1>1, <2>1, OvertakenGrow DEF primitiveVars
  <2> QED
    BY <1>1, <1>2, <2>2, <2>3, <2>4, <2>5, <2>6, <2>7 DEF AsyncInv, ObjectInv
<1>3. CASE which # "channel"
  <2>1. [PrimitivesNext]_<<waiterVars, primitiveVars>> /\ UNCHANGED channelVars /\ PrimitivesInv
    BY <1>3 DEF Next, AsyncInv, ObjectInv
  <2>2. PrimitivesInv'
    BY <2>1, PrimitivesInductive
  <2>3. ThreadsInv' /\ WaitersInv'
    BY <2>2 DEF PrimitivesInv, AwaitersInv, Waiting
  <2>4. role' = role /\ closed' = closed /\ buffer' = buffer /\ sent' = sent
    BY <2>1 DEF channelVars
  <2>5. BufferInv' /\ RolesInv'
    BY <1>1, <2>4 DEF BufferInv, RolesInv
  <2>6. \A c \in Coros : BoundInv(c)'
    BY <1>1, <2>1, BoundPrimitives
  <2>7. which' # "channel" => closed'[First] = FALSE /\ \A c \in Coros : role'[c] = "send"
    BY <1>3, <2>4 DEF AsyncInv
  <2>8. found' \in [Coros -> BOOLEAN] /\ lost' \in Nat /\ overtaken' = overtaken
    BY <2>1, <2>2 DEF PrimitivesInv, LedgerInv, channelVars
  <2> QED
    BY <1>1, <1>3, <2>2, <2>3, <2>5, <2>6, <2>7, <2>8 DEF AsyncInv, ObjectInv
<1> QED
  BY <1>2, <1>3

\* What it says of the types.
LEMMA AsyncTypes == AsyncInv => TypeOK
<1> SUFFICES ASSUME AsyncInv PROVE TypeOK
  OBVIOUS
<1>1. /\ ThreadsInv /\ WaitersInv /\ WaitersType /\ RolesInv /\ BufferInv
      /\ found \in [Coros -> BOOLEAN] /\ lost \in Nat /\ overtaken \subseteq Coros
      /\ \A c \in Coros : BoundInv(c)
  BY DEF AsyncInv, WaitersInv
<1>2. WaitersTypeOK
  <2>1. \A n \in Nat : n <= MaxAwaits => n \in 0 .. MaxAwaits
    BY AwaitsAssumption, SMT
  <2>2. awaits \in [Coros -> 0 .. MaxAwaits]
    BY <1>1, <2>1 DEF WaitersType, BoundInv
  <2>3. \A a \in Actors : wk[a].at \in {"idle", "load", "cas", "all", "arrived"}
    BY <1>1 DEF WaitersType, CallType
  <2> QED
    BY <1>1, <2>2, <2>3 DEF WaitersTypeOK, WaitersType
<1>3. PrimitivesTypeOK
  <2>1. \A n, m \in Nat : n <= m => n \in 0 .. m
    BY SMT
  <2>2. obj.count \in 0 .. obj.expected
    BY <1>1, <2>1 DEF ThreadsInv, StateInv, ObjectType
  <2> QED
    BY <1>1, <2>2 DEF ThreadsInv, StateInv, ObjectType, ThreadStates, PrimitivesTypeOK
<1>4. ChannelTypeOK
  BY <1>1 DEF RolesInv, BufferInv, ChannelTypeOK
<1> QED
  BY <1>2, <1>3, <1>4 DEF TypeOK

\* What it says of the coroutines.
LEMMA AsyncHold ==
  AsyncInv => ResumedOnce /\ WaitersReachable /\ WakeAllReleases /\ ThreadWakeups
<1> SUFFICES ASSUME AsyncInv
             PROVE  ResumedOnce /\ WaitersReachable /\ WakeAllReleases /\ ThreadWakeups
  OBVIOUS
<1>1. TypeOK /\ ThreadWakeups
  BY AsyncTypes DEF AsyncInv, ThreadsInv
<1>2. CASE which = "channel"
  BY <1>1, <1>2, ChannelHold
     DEF AsyncInv, ObjectInv, WaitersReachable, TimerBacksGate, WakeAllReleases
<1>3. CASE which # "channel"
  <2>1. SelectIsInBoth
    BY <1>3 DEF AsyncInv, SelectIsInBoth
  <2> QED
    BY <1>1, <1>3, <2>1, PrimitivesHold
       DEF AsyncInv, ObjectInv, WaitersReachable, TimerBacksGate, WakeAllReleases
<1> QED
  BY <1>2, <1>3

\* What a waker, a timer and the check at the end of suspend_impl may all do to a
\* coroutine, one of them does, for each time that it awaits.
THEOREM ScheduledOnce == Spec => []ResumedOnce
BY AsyncInit, AsyncStep, AsyncHold, PTL DEF Spec

\* A suspended coroutine stays within the reach of those who are to schedule it.
THEOREM SuspendedAreReachable == Spec => []WaitersReachable
BY AsyncInit, AsyncStep, AsyncHold, PTL DEF Spec

\* A wake_all - of a set(), the end of a phase, a store or a close - leaves nobody suspended
\* who had registered before it.
THEOREM WakeAllLeavesNobody == Spec => []WakeAllReleases
BY AsyncInit, AsyncStep, AsyncHold, PTL DEF Spec

-----------------------------------------------------------------------------
(* Where the values of the channels are.                                   *)

\* What coroutines and wakers send, while each coroutine awaits once.
Values == Coros \union (Wakers \X Nat)

\* Where a sender that has not put its value into a buffer is before it may do so, and
\* has no more to do with it than once: in suspend_impl, or on its way to resume_impl.
MaySend(c) ==
  \/ sus[c] \in {"arm", "add", "check"}
  \/ st[c] \in {"awaiting", "runnable"} /\ (sus[c] = "unsent" \/ (~sent[c] /\ sus[c] # "sent"))

\* A value that is still to be put into a buffer, if it ever is.
Spare(v) ==
  \/ \E c \in Coros : v = c /\ IsSender(c) /\ (awaits[c] = 0 \/ (~moves /\ MaySend(c)))
  \/ \E w \in Wakers, n \in Nat : v = <<w, n>> /\ ncalls[w] <= n

\* The places of the buffers where a value is.
Placed(v) == {p \in Channels \X Nat :
                p[2] \in 1 .. Len(buffer[p[1]]) /\ buffer[p[1]][p[2]] = v}
\* The coroutines that hold it as their result.
Held(v) == {c \in Coros : ~IsSender(c) /\ held[c] = v}

\* S has one element at most.
Few(S) == \A x, y \in S : x = y
\* It is not in any, nor with a receiver.
Nowhere(v) == Placed(v) = {} /\ Held(v) = {} /\ v \notin received

\* It is in one at most.
OneCopy(v) ==
  /\ Few(Placed(v)) /\ Few(Held(v))
  /\ Placed(v) = {} \/ Held(v) = {}
  /\ v \in received => Placed(v) = {} /\ Held(v) = {}

\* A sender's value_ is empty, moved from, or, if a move changes nothing, its own.
KeepsOwn(c) == held[c] \notin Values \/ (~moves /\ held[c] = c)
\* It does nothing before it awaits.
BeginsSend(c) == awaits[c] = 0 => st[c] = "body" /\ sus[c] = "none"

\* What is inductive of the places of the values.
ValuesInv ==
  /\ held = [c \in Coros |-> held[c]]
  /\ ncalls \in [Wakers -> Nat]
  /\ \A c \in Coros : IsSender(c) => KeepsOwn(c) /\ BeginsSend(c)
  /\ \A v \in Values \ overtaken : OneCopy(v) /\ (Spare(v) => Nowhere(v))

\* Neither nothing nor what a move leaves is one of them.
LEMMA NoValues == Null \notin Values /\ Moved \notin Values
BY NamesAssumption, ValuesAssumption DEF Values

\* A value put into a buffer has one place there, if it had none.
LEMMA PushPlaces ==
  ASSUME BufferInv, NEW ch \in Channels, NEW x, Push(ch, x), NEW v
  PROVE  /\ v # x => Placed(v)' = Placed(v)
         /\ Placed(v) = {} => Few(Placed(v)')
<1>1. PICK s : s = buffer[ch]
  OBVIOUS
<1>2. PICK S : s \in Seq(S)
  BY <1>1 DEF BufferInv
<1>3. PICK T : T = S \union {x}
  OBVIOUS
<1>4. s \in Seq(T) /\ x \in T /\ Len(s) \in Nat
  <2>1. Len(s) \in Nat /\ s \in [1 .. Len(s) -> S]
    BY <1>2, LenProperties
  <2>2. s \in [1 .. Len(s) -> T]
    BY <1>3, <2>1
  <2> QED
    BY <1>3, <2>1, <2>2, SeqDef
<1>5. PICK t : t = Append(s, x)
  OBVIOUS
<1>6. /\ Len(t) = Len(s) + 1 /\ t[Len(s) + 1] = x
      /\ \A i \in 1 .. Len(s) : t[i] = s[i]
  BY <1>4, <1>5, AppendProperties
<1>7. \A i \in Nat : (i \in 1 .. Len(s) /\ s[i] = v) => (i \in 1 .. Len(t) /\ t[i] = v)
  BY <1>4, <1>6, SMT
<1>8. \A i \in Nat : (i \in 1 .. Len(t) /\ t[i] = v) =>
                       (i \in 1 .. Len(s) /\ s[i] = v) \/ (i = Len(s) + 1 /\ v = x)
  BY <1>4, <1>6, SMT
<1>9. \A k \in Channels : buffer'[k] = IF k = ch THEN t ELSE buffer[k]
  BY <1>1, <1>5 DEF Push, BufferInv
<1>10. \A p \in Channels \X Nat : p \in Placed(v) => p \in Placed(v)'
  BY <1>1, <1>7, <1>9 DEF Placed
<1>11. \A p \in Channels \X Nat :
         p \in Placed(v)' => p \in Placed(v) \/ (p = <<ch, Len(s) + 1>> /\ v = x)
  BY <1>1, <1>8, <1>9 DEF Placed
<1>12. Placed(v) \subseteq Channels \X Nat /\ Placed(v)' \subseteq Channels \X Nat
  BY DEF Placed
<1> QED
  BY <1>10, <1>11, <1>12 DEF Few

\* One taken out of a buffer has no place left, and the others have as many as before.
LEMMA PopPlaces ==
  ASSUME BufferInv, NEW ch \in Channels, HasValue(ch), PopFront(ch), NEW v
  PROVE  /\ Placed(v) = {} => Placed(v)' = {}
         /\ Few(Placed(v)) => Few(Placed(v)')
         /\ v = Head(buffer[ch]) => Placed(v) # {} /\ (Few(Placed(v)) => Placed(v)' = {})
<1>1. PICK s : s = buffer[ch]
  OBVIOUS
<1>2. PICK S : s \in Seq(S)
  BY <1>1 DEF BufferInv
<1>3. s # <<>>
  BY <1>1 DEF HasValue
<1>4. PICK t : t = Tail(s)
  OBVIOUS
<1>5. /\ Head(s) = s[1] /\ Len(s) \in Nat /\ Len(t) = Len(s) - 1
      /\ \A i \in 1 .. Len(t) : t[i] = s[i + 1]
  BY <1>2, <1>3, <1>4, HeadIsFirst, HeadTailProperties, LenProperties
<1>6. Len(s) # 0
  BY <1>2, <1>3, EmptySeq
<1>7. \A k \in Channels : buffer'[k] = IF k = ch THEN t ELSE buffer[k]
  BY <1>1, <1>4 DEF PopFront, BufferInv
<1>8. \A i \in Nat : i \in 1 .. Len(t) =>
        i + 1 \in Nat /\ i + 1 \in 1 .. Len(s) /\ i + 1 # 1
  BY <1>5, <1>6, SMT
<1> DEFINE Old(p) == IF p[1] = ch THEN <<ch, p[2] + 1>> ELSE p
<1>9. \A p \in Placed(v)' : Old(p) \in Placed(v) /\ Old(p) # <<ch, 1>>
  <2> SUFFICES ASSUME NEW k \in Channels, NEW i \in Nat, <<k, i>> \in Placed(v)'
               PROVE  Old(<<k, i>>) \in Placed(v) /\ Old(<<k, i>>) # <<ch, 1>>
    BY DEF Placed
  <2>1. i \in 1 .. Len(buffer'[k]) /\ buffer'[k][i] = v
    BY DEF Placed
  <2>2. CASE k = ch
    <3>1. i \in 1 .. Len(t) /\ t[i] = v
      BY <1>7, <2>1, <2>2
    <3>2. i + 1 \in Nat /\ i + 1 \in 1 .. Len(s) /\ i + 1 # 1 /\ s[i + 1] = v
      BY <1>5, <1>8, <3>1
    <3>3. Old(<<k, i>>) = <<ch, i + 1>>
      BY <2>2
    <3> QED
      BY <1>1, <3>2, <3>3 DEF Placed
  <2>3. CASE k # ch
    <3>1. Old(<<k, i>>) = <<k, i>> /\ <<k, i>> # <<ch, 1>>
      BY <2>3
    <3>2. buffer'[k] = buffer[k]
      BY <1>7, <2>3
    <3> QED
      BY <2>1, <3>1, <3>2 DEF Placed
  <2> QED
    BY <2>2, <2>3
<1>10. \A p, q \in Placed(v)' : Old(p) = Old(q) => p = q
  <2> SUFFICES ASSUME NEW k \in Channels, NEW i \in Nat, NEW m \in Channels, NEW j \in Nat,
                      Old(<<k, i>>) = Old(<<m, j>>)
               PROVE  <<k, i>> = <<m, j>>
    BY DEF Placed
  <2>1. CASE k = ch /\ m = ch
    <3>1. i + 1 = j + 1
      BY <2>1
    <3> QED
      BY <2>1, <3>1
  <2>2. CASE ~(k = ch /\ m = ch)
    BY <2>2
  <2> QED
    BY <2>1, <2>2
<1>11. v = Head(buffer[ch]) => <<ch, 1>> \in Placed(v)
  <2>1. 1 \in 1 .. Len(s) /\ 1 \in Nat
    BY <1>5, <1>6, SMT
  <2> QED
    BY <1>1, <1>5, <2>1 DEF Placed
<1> HIDE DEF Old
<1> QED
  BY <1>9, <1>10, <1>11 DEF Few

\* What one step does to the copies of a value.
LEMMA OneCopyKept ==
  ASSUME NEW v, OneCopy(v), Spare(v) => Nowhere(v), Spare(v)' => Spare(v),
         Few(Placed(v)) => Few(Placed(v)'), Placed(v) = {} => Placed(v)' = {},
         \/ /\ Held(v)' \subseteq Held(v)
            /\ v \in received' =>
                 \/ v \in received
                 \/ Held(v) # {} /\ Held(v)' = {} /\ Placed(v)' = {}
                 \/ Placed(v) # {} /\ Placed(v)' = {}
         \/ /\ Placed(v) # {} /\ Placed(v)' = {} /\ received' = received
            /\ Few(Held(v)')
  PROVE  OneCopy(v)' /\ (Spare(v)' => Nowhere(v)')
<1>1. CASE /\ Held(v)' \subseteq Held(v)
           /\ v \in received' =>
                \/ v \in received
                \/ Held(v) # {} /\ Held(v)' = {} /\ Placed(v)' = {}
                \/ Placed(v) # {} /\ Placed(v)' = {}
  BY <1>1 DEF OneCopy, Nowhere, Few
<1>2. CASE /\ Placed(v) # {} /\ Placed(v)' = {} /\ received' = received /\ Few(Held(v)')
  BY <1>2 DEF OneCopy, Nowhere
<1> QED
  BY <1>1, <1>2

\* What a step of the list, the gate or the timer may do to a sender.
Passes(c) ==
  /\ awaits'[c] = awaits[c] /\ sent'[c] = sent[c]
  /\ \/ st'[c] = st[c]
     \/ st[c] = "awaiting" /\ st'[c] = "runnable"
     \/ st[c] = "relook" /\ st'[c] = "done"
  /\ \/ sus'[c] = sus[c]
     \/ sus[c] = "arm" /\ sus'[c] = "add"
     \/ sus[c] = "add" /\ sus'[c] \in {"none", "check"}
     \/ sus[c] = "gate" /\ sus'[c] = "none"
     \/ st[c] = "done" /\ sus'[c] = "none"

\* Another coroutine's step leaves a sender as it is.
LEMMA OthersPass ==
  ASSUME ChannelInv, BufferInv, NEW d \in Coros, NEW c \in Coros, d # c, IsSender(c),
         \/ SendReady(d) \/ RegisterWaiter(d) \/ CheckSend(d) \/ StoreSent(d)
         \/ ResumeSend(d) \/ ResumeReceive(d) \/ SelectSecond(d)
         \/ \E ch \in Channels :
              ReceiveReady(d, ch) \/ ReceiveSuspend(d, ch) \/ CheckReceive(d, ch)
  PROVE  Passes(c)
<1>1. WaitersType /\ role[d] \in Roles /\ DeadlineInv(d) /\ sent \in [Coros -> BOOLEAN]
  BY DEF ChannelInv, Waiting, WaitersInv, RolesInv, BufferInv
<1>2. ASSUME \/ awaits' = awaits
             \/ awaits' = [awaits EXCEPT ![d] = @ + 1],
             st' = st \/ \E p : st' = [st EXCEPT ![d] = p],
             sus' = sus \/ \E p : sus' = [sus EXCEPT ![d] = p],
             sent' = sent \/ \E p : sent' = [sent EXCEPT ![d] = p]
      PROVE  Passes(c)
  BY <1>1, <1>2 DEF Passes, WaitersType
<1>3. CASE SendReady(d)
  BY <1>2, <1>3 DEF SendReady, GoOn, Suspend, SentIf
<1>4. CASE RegisterWaiter(d)
  BY <1>2, <1>4 DEF RegisterWaiter, Register, SusGoto, channelVars
<1>5. CASE CheckSend(d) \/ StoreSent(d)
  BY <1>2, <1>5 DEF CheckSend, StoreSent, SusOnly, SusGoto, SentIf
<1>6. CASE ResumeSend(d) \/ ResumeReceive(d) \/ SelectSecond(d)
  BY <1>2, <1>6 DEF ResumeSend, ResumeReceive, SelectSecond, Resume, ResumeAt, SentIf, frameVars
<1>7. ASSUME NEW ch \in Channels,
             ReceiveReady(d, ch) \/ ReceiveSuspend(d, ch) \/ CheckReceive(d, ch)
      PROVE  Passes(c)
  <2>1. CASE ReceiveReady(d, ch)
    BY <1>2, <2>1 DEF ReceiveReady, GoOn
  <2>2. CASE ReceiveSuspend(d, ch)
    <3>1. role[d] \in {"receive", "timed_receive", "select"}
      BY <1>1, <2>2 DEF ReceiveSuspend, ReceivesFrom, IsSender, Roles, DeadlineInv
    <3>2. GoOn(d) \/ (\E k, p : Suspend(d, k, p)) \/ SusOnly(d, "ready second")
      BY <2>2, <3>1 DEF ReceiveSuspend
    <3> QED
      BY <1>2, <2>2, <3>2 DEF ReceiveSuspend, GoOn, Suspend, SusOnly, SusGoto
  <2>3. CASE CheckReceive(d, ch)
    BY <1>2, <2>3 DEF CheckReceive, SusOnly, SusGoto
  <2> QED
    BY <1>7, <2>1, <2>2, <2>3
<1> QED
  BY <1>3, <1>4, <1>5, <1>6, <1>7

\* The steps of a sender; all others pass it by.
LEMMA SenderSteps ==
  ASSUME ChannelInv, BufferInv, [ChannelNext]_<<waiterVars, channelVars>>,
         NEW c \in Coros, IsSender(c)
  PROVE  SendReady(c) \/ CheckSend(c) \/ StoreSent(c) \/ ResumeSend(c) \/ Passes(c)
<1>1. /\ WaitersInv /\ WaitersType /\ DeadlineInv(c) /\ sent \in [Coros -> BOOLEAN]
  BY DEF ChannelInv, Waiting, WaitersInv, BufferInv
<1>2. ASSUME NEW cs \in SUBSET Coros, \A x \in cs : Reached(x), Deliver(cs)
      PROVE  st'[c] = st[c] \/ (st[c] = "awaiting" /\ st'[c] = "runnable")
  BY <1>1, <1>2, DeliverFacts
<1>3. CASE UNCHANGED <<waiterVars, channelVars>>
  BY <1>3 DEF Passes, waiterVars, channelVars
<1>4. ASSUME NEW d \in Coros, ChannelCoro(d)
      PROVE  SendReady(c) \/ CheckSend(c) \/ StoreSent(c) \/ ResumeSend(c) \/ Passes(c)
  <2>1. CASE d # c
    BY <1>4, <2>1, OthersPass DEF ChannelCoro
  <2>2. CASE d = c
    <3>1. CASE RegisterWaiter(c)
      <4>1. sus[c] = "add"
        BY <1>1, <3>1 DEF RegisterWaiter, DeadlineInv, IsSender
      <4>2. sus'[c] \in {"none", "check"}
        BY <1>1, <3>1, <4>1 DEF RegisterWaiter, Register, SusGoto, IsSender, WaitersType
      <4>3. awaits' = awaits /\ st' = st /\ sent' = sent
        BY <3>1 DEF RegisterWaiter, Register, channelVars
      <4> QED
        BY <4>1, <4>2, <4>3 DEF Passes
    <3>2. ASSUME ResumeReceive(c) PROVE FALSE
      BY <3>2 DEF ResumeReceive
    <3>3. ASSUME SelectSecond(c) PROVE Passes(c)
      <4>1. /\ st[c] = "relook" /\ st' = [st EXCEPT ![c] = "done"]
            /\ sus' = sus /\ awaits' = awaits /\ sent' = sent
        BY <3>3 DEF SelectSecond, frameVars
      <4> QED
        BY <1>1, <4>1 DEF Passes, WaitersType
    <3>4. ASSUME NEW ch \in Channels,
                 ReceiveReady(c, ch) \/ ReceiveSuspend(c, ch) \/ CheckReceive(c, ch)
          PROVE  FALSE
      BY <1>1, <3>4
         DEF ReceiveReady, ReceiveSuspend, CheckReceive, ReceivesFrom, IsSender, DeadlineInv
    <3> QED
      BY <1>4, <2>2, <3>1, <3>2, <3>3, <3>4 DEF ChannelCoro
  <2> QED
    BY <2>1, <2>2
<1>5. ASSUME NEW w \in Wakers, NEW ch \in Channels,
             SendValue(w, ch) \/ ReceiveValue(w, ch) \/ Close(w, ch)
      PROVE  Passes(c)
  BY <1>5 DEF SendValue, ReceiveValue, Close, CallChannel, frameVars, Passes
<1>6. ASSUME NEW d \in Coros, Arm(d) \/ TakeGate(d) \/ TimerFires(d) \/ Abandon(d),
             UNCHANGED channelVars
      PROVE  Passes(c)
  <2>1. awaits' = awaits /\ sent' = sent
    BY <1>6 DEF Arm, TakeGate, TimerFires, Abandon, channelVars
  <2>2. st'[c] = st[c] \/ (st[c] = "awaiting" /\ st'[c] = "runnable")
    <3>1. CASE Arm(d) \/ Abandon(d)
      BY <3>1 DEF Arm, Abandon
    <3>2. CASE TakeGate(d) \/ TimerFires(d)
      <4>1. PICK cs : cs = {d}
        OBVIOUS
      <4>2. cs \in SUBSET Coros /\ Deliver(cs) /\ \A x \in cs : Reached(x)
        BY <3>2, <4>1 DEF TakeGate, TimerFires, Reached
      <4> QED
        BY <1>2, <4>2
    <3> QED
      BY <1>6, <3>1, <3>2
  <2>3. \/ sus' = sus
        \/ sus[d] = "arm" /\ sus' = [sus EXCEPT ![d] = "add"]
        \/ sus[d] = "gate" /\ sus' = [sus EXCEPT ![d] = "none"]
        \/ st[d] = "done" /\ sus' = [sus EXCEPT ![d] = "none"]
    BY <1>6 DEF Arm, TakeGate, TimerFires, Abandon, Gone, SusGoto
  <2>4. \/ sus'[c] = sus[c]
        \/ sus[c] = "arm" /\ sus'[c] = "add"
        \/ sus[c] = "gate" /\ sus'[c] = "none"
        \/ st[c] = "done" /\ sus'[c] = "none"
    BY <1>1, <2>3 DEF WaitersType
  <2> QED
    BY <2>1, <2>2, <2>4 DEF Passes
<1>7. ASSUME NEW w \in Wakers, WakeStep(w), UNCHANGED channelVars PROVE Passes(c)
  <2>1. w \in Actors
    BY DEF Actors
  <2>2. sus' = sus /\ awaits' = awaits /\ sent' = sent
    BY <1>1, <1>7, <2>1, WakeDelivers DEF channelVars
  <2>3. \/ st' = st
        \/ \E cs \in SUBSET Coros : Deliver(cs) /\ \A x \in cs : Reached(x)
    BY <1>1, <1>7, <2>1, WakeDelivers
  <2>4. st'[c] = st[c] \/ (st[c] = "awaiting" /\ st'[c] = "runnable")
    BY <1>2, <2>3
  <2> QED
    BY <2>2, <2>4 DEF Passes
<1> QED
  BY <1>3, <1>4, <1>5, <1>6, <1>7 DEF ChannelNext

\* A value is spare only as long as it was, and its sender does nothing before it awaits.
LEMMA SpareShrinks ==
  ASSUME ChannelInv, BufferInv, ValuesInv, [ChannelNext]_<<waiterVars, channelVars>>,
         role' = role, moves' = moves,
         \A c \in Coros : awaits'[c] <= 1, NEW c \in Coros, IsSender(c)
  PROVE  /\ awaits'[c] = 0 \/ (~moves /\ MaySend(c)') =>
              awaits[c] = 0 \/ (~moves /\ MaySend(c))
         /\ BeginsSend(c)'
<1>1. WaitersType /\ sent \in [Coros -> BOOLEAN] /\ BeginsSend(c) /\ awaits[c] \in Nat
  BY DEF ChannelInv, Waiting, WaitersInv, WaitersType, BufferInv, ValuesInv
<1>2. CASE SendReady(c)
  <2>1. awaits' = [awaits EXCEPT ![c] = @ + 1] /\ awaits'[c] <= 1
    BY <1>2 DEF SendReady, GoOn, Suspend
  <2>2. awaits'[c] = awaits[c] + 1
    BY <1>1, <2>1 DEF WaitersType
  <2>3. awaits[c] = 0 /\ awaits'[c] # 0
    BY <1>1, <2>1, <2>2, SMT
  <2> QED
    BY <2>3 DEF BeginsSend
<1>3. CASE CheckSend(c)
  BY <1>1, <1>3 DEF CheckSend, SusOnly, MaySend, BeginsSend
<1>4. CASE StoreSent(c)
  <2>1. /\ sus[c] \in {"sent", "unsent"} /\ st' = st /\ awaits' = awaits
        /\ sus' = [sus EXCEPT ![c] = "gate"] \/ sus' = [sus EXCEPT ![c] = "none"]
    BY <1>4 DEF StoreSent, SusOnly, SusGoto
  <2>2. sus'[c] \in {"gate", "none"}
    BY <1>1, <2>1 DEF WaitersType
  <2>3. sus[c] = "sent" => sent'[c]
    BY <1>1, <1>4 DEF StoreSent, SentIf
  <2> QED
    BY <1>1, <2>1, <2>2, <2>3 DEF MaySend, BeginsSend
<1>5. CASE ResumeSend(c)
  <2>1. st[c] = "runnable" /\ st' = [st EXCEPT ![c] = "done"] /\ sus' = sus /\ awaits' = awaits
    BY <1>5 DEF ResumeSend, Resume, ResumeAt, frameVars
  <2>2. st'[c] = "done"
    BY <1>1, <2>1 DEF WaitersType
  <2> QED
    BY <1>1, <2>1, <2>2 DEF MaySend, BeginsSend
<1>6. CASE Passes(c)
  <2>1. BeginsSend(c)'
    BY <1>1, <1>6 DEF Passes, BeginsSend
  <2>2. MaySend(c)' => MaySend(c)
    BY <1>6 DEF Passes, MaySend
  <2> QED
    BY <1>6, <2>1, <2>2 DEF Passes
<1> QED
  BY <1>2, <1>3, <1>4, <1>5, <1>6, SenderSteps

\* The same of all values, and the numbers of calls.
LEMMA StillSpare ==
  ASSUME ChannelInv, BufferInv, ValuesInv, [ChannelNext]_<<waiterVars, channelVars>>,
         role' = role, moves' = moves, \A c \in Coros : awaits'[c] <= 1
  PROVE  /\ ncalls' \in [Wakers -> Nat]
         /\ \A v : Spare(v)' => Spare(v)
         /\ \A c \in Coros : IsSender(c) => BeginsSend(c)'
<1>1. ncalls' = ncalls \/ \E w \in Wakers : ncalls' = [ncalls EXCEPT ![w] = @ + 1]
  BY DEF ChannelNext, ChannelCoro, SendReady, RegisterWaiter, CheckSend, StoreSent, ResumeSend,
         ResumeReceive, SelectSecond, ReceiveReady, ReceiveSuspend, CheckReceive, SendValue,
         ReceiveValue, Close, CallChannel, channelVars
<1>2. \A n, m \in Nat : (n + 1 <= m => n <= m) /\ n + 1 \in Nat
  BY SMT
<1>3. /\ ncalls' \in [Wakers -> Nat]
      /\ \A w \in Wakers : \A n \in Nat : ncalls'[w] <= n => ncalls[w] <= n
  BY <1>1, <1>2 DEF ValuesInv
<1>4. \A c \in Coros : IsSender(c)' <=> IsSender(c)
  BY DEF IsSender
<1>5. \A c \in Coros : IsSender(c) =>
        /\ awaits'[c] = 0 \/ (~moves /\ MaySend(c)') => awaits[c] = 0 \/ (~moves /\ MaySend(c))
        /\ BeginsSend(c)'
  BY SpareShrinks
<1>6. \A v : Spare(v)' => Spare(v)
  BY <1>3, <1>4, <1>5 DEF Spare
<1> QED
  BY <1>3, <1>5, <1>6

\* No value becomes the result of a coroutine.
HeldShrinks ==
  \/ held' = held
  \/ \E c \in Coros : \E x : (x \notin Values \/ IsSender(c)) /\ held' = [held EXCEPT ![c] = x]

\* So none comes to hold one.
LEMMA HeldLess ==
  ASSUME ValuesInv, HeldShrinks, role' = role, NEW v \in Values
  PROVE  Held(v)' \subseteq Held(v)
<1>1. CASE held' = held
  BY <1>1 DEF Held, IsSender
<1>2. ASSUME NEW c \in Coros, NEW x, x \notin Values \/ IsSender(c),
             held' = [held EXCEPT ![c] = x]
      PROVE  Held(v)' \subseteq Held(v)
  <2>1. \A d \in Coros : held'[d] = IF d = c THEN x ELSE held[d]
    BY <1>2 DEF ValuesInv
  <2> QED
    BY <1>2, <2>1 DEF Held, IsSender
<1> QED
  BY <1>1, <1>2 DEF HeldShrinks

\* x is put into a buffer for the last time, or its sender was overtaken.
Spends(x) == x \in Values => x \in overtaken' \/ (Spare(x) /\ ~Spare(x)')

\* The ways in which values move.
ValueMoves ==
  \/ buffer' = buffer /\ received' = received /\ HeldShrinks
  \/ /\ \E ch \in Channels : \E x :
          Push(ch, x) /\ Spends(x)
     /\ received' = received /\ HeldShrinks
  \/ \E ch \in Channels : \E c \in Coros :
       /\ HasValue(ch) /\ PopFront(ch) /\ received' = received
       /\ held' = [held EXCEPT ![c] = Head(buffer[ch])]
  \/ \E ch \in Channels :
       /\ HasValue(ch) /\ PopFront(ch) /\ received' = received \union {Head(buffer[ch])}
       /\ HeldShrinks
  \/ \E c \in Coros :
       /\ ~IsSender(c) /\ buffer' = buffer /\ received' = received \union {held[c]}
       /\ held' = [held EXCEPT ![c] = Null]

\* None of them copies one.
LEMMA ValuesMove ==
  ASSUME ValuesInv, BufferInv, ValueMoves, role' = role, overtaken \subseteq overtaken',
         NEW v \in Values \ overtaken', Spare(v)' => Spare(v)
  PROVE  OneCopy(v)' /\ (Spare(v)' => Nowhere(v)')
<1>1. OneCopy(v) /\ (Spare(v) => Nowhere(v))
  BY DEF ValuesInv
<1>2. CASE buffer' = buffer /\ received' = received /\ HeldShrinks
  <2>1. Placed(v)' = Placed(v) /\ Held(v)' \subseteq Held(v)
    BY <1>2, HeldLess DEF Placed
  <2> QED
    BY <1>1, <1>2, <2>1, OneCopyKept
<1>3. ASSUME NEW ch \in Channels, NEW x, Push(ch, x),
             Spends(x), received' = received, HeldShrinks
      PROVE  OneCopy(v)' /\ (Spare(v)' => Nowhere(v)')
  <2>1. Held(v)' \subseteq Held(v)
    BY <1>3, HeldLess
  <2>2. CASE v # x
    <3>1. Placed(v)' = Placed(v)
      BY <1>3, <2>2, PushPlaces
    <3> QED
      BY <1>1, <1>3, <2>1, <3>1, OneCopyKept
  <2>3. CASE v = x
    <3>1. Nowhere(v) /\ ~Spare(v)'
      BY <1>1, <1>3, <2>3 DEF Spends
    <3>2. Few(Placed(v)')
      BY <1>3, <3>1, PushPlaces DEF Nowhere
    <3> QED
      BY <1>3, <2>1, <3>1, <3>2 DEF Nowhere, OneCopy, Few
  <2> QED
    BY <2>2, <2>3
<1>4. ASSUME NEW ch \in Channels, NEW c \in Coros, HasValue(ch), PopFront(ch),
             received' = received, held' = [held EXCEPT ![c] = Head(buffer[ch])]
      PROVE  OneCopy(v)' /\ (Spare(v)' => Nowhere(v)')
  <2>1. PICK x : x = Head(buffer[ch])
    OBVIOUS
  <2>2. \A d \in Coros : held'[d] = IF d = c THEN x ELSE held[d]
    BY <1>4, <2>1 DEF ValuesInv
  <2>3. /\ Placed(v) = {} => Placed(v)' = {}
        /\ Few(Placed(v)) => Few(Placed(v)')
        /\ v = x => Placed(v) # {} /\ (Few(Placed(v)) => Placed(v)' = {})
    BY <1>4, <2>1, PopPlaces
  <2>4. CASE v = x
    <3>1. Placed(v) # {} /\ Placed(v)' = {} /\ Held(v) = {}
      BY <1>1, <2>3, <2>4 DEF OneCopy
    <3>2. Few(Held(v)')
      BY <2>2, <3>1 DEF Held, Few, IsSender
    <3> QED
      BY <1>1, <1>4, <2>3, <3>1, <3>2, OneCopyKept
  <2>5. CASE v # x
    <3>1. Held(v)' \subseteq Held(v)
      BY <2>2, <2>5 DEF Held, IsSender
    <3> QED
      BY <1>1, <1>4, <2>3, <3>1, OneCopyKept
  <2> QED
    BY <2>4, <2>5
<1>5. ASSUME NEW ch \in Channels, HasValue(ch), PopFront(ch),
             received' = received \union {Head(buffer[ch])}, HeldShrinks
      PROVE  OneCopy(v)' /\ (Spare(v)' => Nowhere(v)')
  <2>1. PICK x : x = Head(buffer[ch])
    OBVIOUS
  <2>2. /\ Placed(v) = {} => Placed(v)' = {}
        /\ Few(Placed(v)) => Few(Placed(v)')
        /\ v = x => Placed(v) # {} /\ (Few(Placed(v)) => Placed(v)' = {})
    BY <1>5, <2>1, PopPlaces
  <2>3. Held(v)' \subseteq Held(v)
    BY <1>5, HeldLess
  <2>4. v \in received' => v \in received \/ (Placed(v) # {} /\ Placed(v)' = {})
    BY <1>1, <1>5, <2>1, <2>2 DEF OneCopy
  <2> QED
    BY <1>1, <2>2, <2>3, <2>4, OneCopyKept
<1>6. ASSUME NEW c \in Coros, ~IsSender(c), buffer' = buffer,
             received' = received \union {held[c]}, held' = [held EXCEPT ![c] = Null]
      PROVE  OneCopy(v)' /\ (Spare(v)' => Nowhere(v)')
  <2>1. Placed(v)' = Placed(v)
    BY <1>6 DEF Placed
  <2>2. \A d \in Coros : held'[d] = IF d = c THEN Null ELSE held[d]
    BY <1>6 DEF ValuesInv
  <2>3. Held(v)' \subseteq Held(v)
    BY <2>2, NoValues DEF Held, IsSender
  <2>4. ASSUME v = held[c] PROVE Held(v) # {} /\ Held(v)' = {} /\ Placed(v)' = {}
    <3>1. c \in Held(v)
      BY <1>6, <2>4 DEF Held
    <3>2. Placed(v) = {} /\ \A d \in Held(v) : d = c
      BY <1>1, <3>1 DEF OneCopy, Few
    <3>3. Held(v)' = {}
      BY <2>2, <3>2, NoValues DEF Held, IsSender
    <3> QED
      BY <2>1, <3>1, <3>2, <3>3
  <2>5. v \in received' =>
          v \in received \/ (Held(v) # {} /\ Held(v)' = {} /\ Placed(v)' = {})
    BY <1>6, <2>4
  <2> QED
    BY <1>1, <2>1, <2>3, <2>5, OneCopyKept
<1> QED
  BY <1>2, <1>3, <1>4, <1>5, <1>6 DEF ValueMoves

\* Every step moves values in one of these ways.
LEMMA ChannelMovesValues ==
  ASSUME ChannelInv, BufferInv, ValuesInv, [ChannelNext]_<<waiterVars, channelVars>>,
         role' = role, moves' = moves, overtaken \subseteq overtaken',
         \A c \in Coros : awaits'[c] <= 1
  PROVE  /\ ValueMoves
         /\ held' = [c \in Coros |-> held'[c]]
         /\ \A c \in Coros : IsSender(c) => KeepsOwn(c)'
<1> DEFINE Keeps(c) == held'[c] \notin Values \/ (~moves /\ held'[c] = c)
<1> DEFINE Goal == /\ ValueMoves
                   /\ held' = [c \in Coros |-> held'[c]]
                   /\ \A c \in Coros : IsSender(c) => Keeps(c)
<1> SUFFICES Goal
  BY DEF KeepsOwn, Values
<1>1. /\ WaitersType /\ First \in Channels /\ Second \in Channels
      /\ Null \notin Values /\ Moved \notin Values
  BY NoValues DEF ChannelInv, Waiting, WaitersInv, Channels
<1>2. /\ held = [c \in Coros |-> held[c]]
      /\ \A c \in Coros : IsSender(c) => KeepsOwn(c) /\ BeginsSend(c)
      /\ ncalls \in [Wakers -> Nat] /\ sent \in [Coros -> BOOLEAN]
  BY DEF ValuesInv, BufferInv
<1>3. ASSUME NEW c \in Coros, NEW x, held' = [held EXCEPT ![c] = x],
             x \notin Values \/ ~IsSender(c) \/ (~moves /\ x = c)
      PROVE  /\ held' = [d \in Coros |-> held'[d]]
             /\ \A d \in Coros : IsSender(d) => Keeps(d)
  <2>1. held' = [d \in Coros |-> IF d = c THEN x ELSE held[d]]
    BY <1>2, <1>3
  <2>2. \A d \in Coros : held'[d] = IF d = c THEN x ELSE held[d]
    BY <2>1
  <2>3. \A d \in Coros : IsSender(d) => Keeps(d)
    BY <1>2, <1>3, <2>2 DEF KeepsOwn
  <2> QED
    BY <2>1, <2>3
<1>4. CASE held' = held /\ ValueMoves
  BY <1>2, <1>4 DEF KeepsOwn
<1> HIDE DEF Keeps
<1>5. CASE UNCHANGED channelVars
  BY <1>4, <1>5 DEF channelVars, ValueMoves, HeldShrinks
\* The value that a sender puts into the buffer, if there is room.
<1>6. ASSUME NEW c \in Coros, NEW v, IsSender(c), TrySend(c, v), received' = received,
             v \notin Values \/ (v = c /\ (~moves \/ awaits[c] = 0)),
             HasRoom(First) => Spends(v)
      PROVE  Goal
  <2>1. PICK x : x = IF moves THEN Moved ELSE v
    OBVIOUS
  <2>2. held' = [held EXCEPT ![c] = x] /\ HeldShrinks
    BY <1>6, <2>1 DEF TrySend, HeldShrinks
  <2>3. x \notin Values \/ (~moves /\ x = c)
    BY <1>1, <1>6, <2>1
  <2>4. buffer' = buffer \/ (Push(First, v) /\ Spends(v))
    BY <1>6 DEF TrySend
  <2>5. ValueMoves
    BY <1>1, <1>6, <2>2, <2>4 DEF ValueMoves
  <2> QED
    BY <1>3, <2>2, <2>3, <2>5
\* Its value is its own, and nobody else's.
<1>7. ASSUME NEW c \in Coros, IsSender(c)
      PROVE  /\ Spare(c) <=> awaits[c] = 0 \/ (~moves /\ MaySend(c))
             /\ Spare(c)' <=> awaits'[c] = 0 \/ (~moves /\ MaySend(c)')
  <2>1. c \notin Wakers \X Nat
    BY ValuesAssumption
  <2>2. \A w \in Wakers, n \in Nat : c # <<w, n>>
    BY <2>1
  <2>3. IsSender(c)'
    BY <1>7 DEF IsSender
  <2> QED
    BY <1>7, <2>2, <2>3 DEF Spare
<1>8. ASSUME NEW c \in Coros, SendReady(c) PROVE Goal
  <2>1. CASE role[c] = "timed_send" /\ closed[First]
    BY <1>4, <1>8, <2>1 DEF SendReady, ValueMoves, HeldShrinks
  <2>2. CASE ~(role[c] = "timed_send" /\ closed[First])
    <3>1. TrySend(c, c) /\ received' = received /\ IsSender(c) /\ SentIf(c, HasRoom(First))
      BY <1>8, <2>2 DEF SendReady
    <3>2. awaits' = [awaits EXCEPT ![c] = @ + 1] /\ awaits'[c] <= 1
      BY <1>8, <2>2 DEF SendReady, GoOn, Suspend
    <3>3. awaits'[c] = awaits[c] + 1 /\ awaits[c] \in Nat
      BY <1>1, <3>2 DEF WaitersType
    <3>4. awaits[c] = 0 /\ awaits'[c] # 0
      BY <3>2, <3>3, SMT
    <3>5. ASSUME HasRoom(First) PROVE Spends(c)
      <4>1. GoOn(c)
        BY <1>8, <2>2, <3>5 DEF SendReady
      <4>2. st'[c] = "runnable" /\ sus'[c] = "none"
        BY <1>1, <4>1 DEF GoOn, WaitersType
      <4>3. sent'[c]
        BY <1>2, <3>1, <3>5 DEF SentIf
      <4>4. ~MaySend(c)'
        BY <4>2, <4>3 DEF MaySend
      <4> QED
        BY <1>7, <3>1, <3>4, <4>4 DEF Spends
    <3> QED
      BY <1>6, <3>1, <3>4, <3>5
  <2> QED
    BY <2>1, <2>2
<1>9. ASSUME NEW c \in Coros, CheckSend(c) PROVE Goal
  <2>1. /\ IsSender(c) /\ received' = received /\ TrySend(c, held[c]) /\ sus[c] = "check"
        /\ awaits' = awaits
    BY <1>9 DEF CheckSend, IsSender, SusOnly
  <2>2. awaits[c] # 0 /\ KeepsOwn(c)
    BY <1>2, <2>1 DEF BeginsSend
  <2>3. PICK v : v = held[c]
    OBVIOUS
  <2>4. v \notin Values \/ (v = c /\ ~moves)
    BY <2>2, <2>3 DEF KeepsOwn
  <2>5. ASSUME HasRoom(First) PROVE Spends(v)
    <3>1. sus'[c] = "sent"
      BY <1>1, <1>9, <2>5 DEF CheckSend, SusOnly, SusGoto, WaitersType
    <3>2. MaySend(c) /\ ~MaySend(c)'
      BY <2>1, <3>1 DEF MaySend
    <3> QED
      BY <1>7, <2>1, <2>2, <2>4, <3>2 DEF Spends
  <2> QED
    BY <1>6, <2>1, <2>3, <2>4, <2>5
<1>10. ASSUME NEW c \in Coros, ResumeSend(c) PROVE Goal
  <2>1. IsSender(c) /\ received' = received
    BY <1>10 DEF ResumeSend
  <2>2. CASE buffer' = buffer /\ held' = held
    BY <1>4, <2>1, <2>2 DEF ValueMoves, HeldShrinks
  <2>3. CASE TrySend(c, held[c]) /\ ~sent[c]
    <3>1. /\ st[c] = "runnable" /\ st' = [st EXCEPT ![c] = "done"]
          /\ sus' = sus /\ awaits' = awaits
      BY <1>10 DEF ResumeSend, Resume, ResumeAt, frameVars
    <3>2. awaits[c] # 0 /\ KeepsOwn(c) /\ st'[c] = "done"
      BY <1>1, <1>2, <2>1, <3>1 DEF BeginsSend, WaitersType
    <3>3. PICK v : v = held[c]
      OBVIOUS
    <3>4. v \notin Values \/ (v = c /\ ~moves)
      BY <3>2, <3>3 DEF KeepsOwn
    <3>5. Spends(v)
      <4>1. CASE v \notin Values
        BY <4>1 DEF Spends
      <4>2. CASE v = c /\ ~moves /\ sus[c] \notin {"none", "gate"}
        <5>1. c \in overtaken'
          BY <1>10, <4>2 DEF ResumeSend
        <5> QED
          BY <4>2, <5>1 DEF Spends
      <4>3. CASE v = c /\ ~moves /\ sus[c] \in {"none", "gate"}
        <5>1. MaySend(c) /\ ~MaySend(c)'
          BY <2>3, <3>1, <3>2, <4>3 DEF MaySend
        <5> QED
          BY <1>7, <2>1, <3>1, <3>2, <4>3, <5>1 DEF Spends
      <4> QED
        BY <3>4, <4>1, <4>2, <4>3
    <3> QED
      BY <1>6, <2>1, <2>3, <3>3, <3>4, <3>5
  <2> QED
    BY <1>10, <2>2, <2>3 DEF ResumeSend
<1>11. ASSUME NEW c \in Coros, NEW ch \in Channels, ~IsSender(c), HasValue(ch), PopFront(ch),
              received' = received, held' = [held EXCEPT ![c] = Head(buffer[ch])]
       PROVE  Goal
  <2>1. ValueMoves
    BY <1>11 DEF ValueMoves
  <2>2. PICK x : x = Head(buffer[ch])
    OBVIOUS
  <2> QED
    BY <1>3, <1>11, <2>1, <2>2
<1>12. ASSUME NEW c \in Coros, held' = [held EXCEPT ![c] = Null], buffer' = buffer,
              received' = received
       PROVE  Goal
  <2>1. ValueMoves
    BY <1>1, <1>12 DEF ValueMoves, HeldShrinks
  <2> QED
    BY <1>1, <1>3, <1>12, <2>1
<1>13. ASSUME NEW ch \in Channels, HasValue(ch), PopFront(ch),
              received' = received \union {Head(buffer[ch])},
              held' = held \/ \E c \in Coros : held' = [held EXCEPT ![c] = Null]
       PROVE  Goal
  <2>1. ValueMoves
    BY <1>1, <1>13 DEF ValueMoves, HeldShrinks
  <2> QED
    BY <1>1, <1>3, <1>4, <1>13, <2>1
<1>14. ASSUME NEW c \in Coros, ~IsSender(c), buffer' = buffer,
              received' = received \union {held[c]}, held' = [held EXCEPT ![c] = Null]
       PROVE  Goal
  <2>1. ValueMoves
    BY <1>14 DEF ValueMoves
  <2> QED
    BY <1>1, <1>3, <1>14, <2>1
<1>15. ASSUME NEW c \in Coros, NEW ch \in Channels,
              ReceiveReady(c, ch) \/ ReceiveSuspend(c, ch) \/ CheckReceive(c, ch)
       PROVE  Goal
  <2>1. received' = received /\ ~IsSender(c)
    <3>1. DeadlineInv(c)
      BY DEF ChannelInv
    <3> QED
      BY <1>15, <3>1
         DEF ReceiveReady, ReceiveSuspend, CheckReceive, ReceivesFrom, IsSender, DeadlineInv
  <2>2. \/ /\ HasValue(ch) /\ PopFront(ch)
           /\ held' = [held EXCEPT ![c] = Head(buffer[ch])]
        \/ held' = [held EXCEPT ![c] = Null] /\ buffer' = buffer
    BY <1>15 DEF ReceiveReady, ReceiveSuspend, CheckReceive
  <2> QED
    BY <1>11, <1>12, <2>1, <2>2
<1>16. ASSUME NEW c \in Coros, ResumeReceive(c) PROVE Goal
  <2>1. held' = [held EXCEPT ![c] = Null] /\ ~IsSender(c)
    BY <1>16 DEF ResumeReceive
  <2>2. \/ buffer' = buffer /\ received' = received \union {held[c]}
        \/ /\ HasValue(First) /\ PopFront(First)
           /\ received' = received \union {Head(buffer[First])}
        \/ buffer' = buffer /\ received' = received
    BY <1>16 DEF ResumeReceive, Got
  <2> QED
    BY <1>1, <1>12, <1>13, <1>14, <2>1, <2>2
<1>17. ASSUME NEW c \in Coros, SelectSecond(c) PROVE Goal
  <2>1. held' = held
    BY <1>17 DEF SelectSecond
  <2>2. \/ /\ HasValue(Second) /\ PopFront(Second)
           /\ received' = received \union {Head(buffer[Second])}
        \/ buffer' = buffer /\ received' = received
    BY <1>17 DEF SelectSecond, Got
  <2>3. CASE buffer' = buffer /\ received' = received
    BY <1>4, <2>1, <2>3 DEF ValueMoves, HeldShrinks
  <2> QED
    BY <1>1, <1>13, <2>1, <2>2, <2>3
<1>18. ASSUME NEW w \in Wakers, NEW ch \in Channels, SendValue(w, ch) PROVE Goal
  <2>1. /\ held' = held /\ received' = received /\ Push(ch, <<w, ncalls[w]>>)
        /\ ncalls' = [ncalls EXCEPT ![w] = @ + 1]
    BY <1>18 DEF SendValue, CallChannel
  <2>2. PICK x : x = <<w, ncalls[w]>>
    OBVIOUS
  <2>3. ncalls[w] \in Nat /\ ncalls'[w] = ncalls[w] + 1 /\ x \notin Coros
    <3>1. x \in Wakers \X Nat
      BY <1>2, <2>2
    <3> QED
      BY <1>2, <2>1, <3>1, ValuesAssumption
  <2>4. \A n \in Nat : n <= n /\ ~(n + 1 <= n)
    BY SMT
  <2>5. Spare(x)
    BY <2>2, <2>3, <2>4 DEF Spare
  <2>6. ~Spare(x)'
    BY <2>2, <2>3, <2>4 DEF Spare
  <2>7. ValueMoves
    BY <2>1, <2>2, <2>5, <2>6 DEF ValueMoves, HeldShrinks, Spends
  <2> QED
    BY <1>4, <2>1, <2>7
<1>19. ASSUME NEW w \in Wakers, NEW ch \in Channels, ReceiveValue(w, ch) PROVE Goal
  BY <1>13, <1>19 DEF ReceiveValue, CallChannel, Got
<1>20. ASSUME NEW w \in Wakers, NEW ch \in Channels, Close(w, ch) PROVE Goal
  BY <1>4, <1>20 DEF Close, CallChannel, ValueMoves, HeldShrinks
<1>21. ASSUME NEW c \in Coros, StoreSent(c) PROVE Goal
  BY <1>4, <1>21 DEF StoreSent, ValueMoves, HeldShrinks
<1> QED
  BY <1>5, <1>8, <1>9, <1>10, <1>15, <1>16, <1>17, <1>18, <1>19, <1>20, <1>21
     DEF ChannelNext, ChannelCoro, RegisterWaiter, channelVars

\* Where the values are, step by step.
LEMMA ValuesStep ==
  ASSUME ChannelInv, BufferInv, ValuesInv, [ChannelNext]_<<waiterVars, channelVars>>,
         \A c \in Coros : awaits'[c] <= 1
  PROVE  ValuesInv'
<1>1. role' = role /\ moves' = moves /\ overtaken \subseteq overtaken'
  BY RolesStay, OvertakenGrow DEF ChannelInv, Waiting
<1>2. /\ ncalls' \in [Wakers -> Nat]
      /\ \A v : Spare(v)' => Spare(v)
      /\ \A c \in Coros : IsSender(c) => BeginsSend(c)'
  BY <1>1, StillSpare
<1>3. /\ ValueMoves /\ held' = [c \in Coros |-> held'[c]]
      /\ \A c \in Coros : IsSender(c) => KeepsOwn(c)'
  BY <1>1, ChannelMovesValues
<1>4. \A c \in Coros : IsSender(c)' => KeepsOwn(c)' /\ BeginsSend(c)'
  BY <1>1, <1>2, <1>3 DEF IsSender
<1>5. \A v \in Values \ overtaken' : OneCopy(v)' /\ (Spare(v)' => Nowhere(v)')
  BY <1>1, <1>2, <1>3, ValuesMove
<1> QED
  BY <1>2, <1>3, <1>4, <1>5 DEF ValuesInv, Values

\* A set whose elements are equal has one or none.
LEMMA FewAreOne ==
  ASSUME NEW S, Few(S)
  PROVE  Cardinality(S) \in {0, 1} /\ (S = {} => Cardinality(S) = 0)
<1>1. CASE S = {}
  BY <1>1, FS_EmptySet
<1>2. CASE S # {}
  <2>1. PICK x : S = {x}
    BY <1>2 DEF Few
  <2> QED
    BY <1>2, <2>1, FS_Singleton
<1> QED
  BY <1>1, <1>2

\* One copy at most, counted.
LEMMA CountedOnce ==
  ASSUME \A v \in Values \ overtaken : OneCopy(v), overtaken \subseteq Coros
  PROVE  EachValueOnce
<1> SUFFICES ASSUME NEW v \in (Coros \ overtaken) \union (Wakers \X (0 .. MaxCalls)),
                    NEW P, P = {p \in Channels \X (1 .. Capacity) :
                                  p[2] <= Len(buffer[p[1]]) /\ buffer[p[1]][p[2]] = v},
                    NEW H, H = {c \in Coros : ~IsSender(c) /\ held[c] = v},
                    NEW G, G = received \intersect {v}
             PROVE  Cardinality(P) + Cardinality(H) + Cardinality(G) <= 1
  BY DEF EachValueOnce
<1>1. v \in Values \ overtaken
  <2>1. CASE v \in Coros \ overtaken
    BY <2>1 DEF Values
  <2>2. CASE v \in Wakers \X (0 .. MaxCalls)
    <3>1. v \in Wakers \X Nat
      BY <2>2
    <3> QED
      BY <3>1, ValuesAssumption DEF Values
  <2> QED
    BY <2>1, <2>2
<1>2. OneCopy(v) /\ H = Held(v)
  BY <1>1 DEF Held
<1>3. P \subseteq Placed(v)
  <2> SUFFICES ASSUME NEW ch \in Channels, NEW i \in 1 .. Capacity, i <= Len(buffer[ch]),
                      buffer[ch][i] = v
               PROVE  <<ch, i>> \in Placed(v)
    OBVIOUS
  <2>1. i \in Nat /\ i \in 1 .. Len(buffer[ch])
    OBVIOUS
  <2> QED
    BY <2>1 DEF Placed
<1>4. Few(P) /\ Few(H) /\ Few(G)
  BY <1>2, <1>3 DEF OneCopy, Few
<1>5. (P = {} \/ H = {}) /\ (G # {} => P = {} /\ H = {})
  BY <1>2, <1>3 DEF OneCopy
<1>6. /\ Cardinality(P) \in {0, 1} /\ Cardinality(H) \in {0, 1} /\ Cardinality(G) \in {0, 1}
      /\ P = {} => Cardinality(P) = 0
      /\ H = {} => Cardinality(H) = 0
      /\ G = {} => Cardinality(G) = 0
  BY <1>4, FewAreOne
<1> QED
  BY <1>5, <1>6

\* The channels of an object of another kind stay as they were.
ChannelValues ==
  IF which = "channel" THEN ValuesInv ELSE \A v \in Values : Nowhere(v)

\* At first no value is anywhere.
LEMMA ValuesBegin == Init => ChannelValues
<1> SUFFICES ASSUME Init PROVE ChannelValues
  OBVIOUS
<1>1. WaitersInit /\ ChannelInit
  BY DEF Init
<1>2. ASSUME NEW v \in Values PROVE Nowhere(v)
  <2>1. \A i \in Nat : i \notin 1 .. Len(<<>>)
    <3>1. Len(<<>>) = 0
      OBVIOUS
    <3> QED
      BY <3>1, SMT
  <2>2. \A ch \in Channels : buffer[ch] = <<>>
    BY <1>1 DEF ChannelInit
  <2>3. Placed(v) = {}
    BY <2>1, <2>2 DEF Placed
  <2> QED
    BY <1>1, <2>3, NoValues DEF ChannelInit, Nowhere, Held
<1>3. \A v \in Values : OneCopy(v)
  BY <1>2 DEF Nowhere, OneCopy, Few
<1>4. /\ held = [c \in Coros |-> held[c]] /\ ncalls \in [Wakers -> Nat]
      /\ \A c \in Coros : KeepsOwn(c) /\ BeginsSend(c)
  BY <1>1, NoValues DEF ChannelInit, WaitersInit, KeepsOwn, BeginsSend
<1> QED
  BY <1>2, <1>3, <1>4 DEF ChannelValues, ValuesInv

\* A step leaves one of each.
LEMMA ValuesGoOn ==
  ASSUME AsyncInv, ChannelValues, [Next]_<<which, waiterVars, primitiveVars, channelVars>>
  PROVE  ChannelValues'
<1>1. CASE which = "channel"
  <2>1. /\ ChannelInv /\ BufferInv /\ ValuesInv /\ which' = which
        /\ [ChannelNext]_<<waiterVars, channelVars>>
    BY <1>1 DEF Next, AsyncInv, ObjectInv, ChannelValues
  <2>2. CASE \A c \in Coros : awaits'[c] <= 1
    BY <1>1, <2>1, <2>2, ValuesStep DEF ChannelValues
  <2>3. CASE UNCHANGED <<which, waiterVars, primitiveVars, channelVars>>
    <3>1. UNCHANGED <<st, sus, awaits, buffer, role, held, sent, moves, overtaken, received,
                      ncalls>>
      BY <2>3 DEF waiterVars, channelVars
    <3>2. \A v : Placed(v)' = Placed(v) /\ Held(v)' = Held(v)
      BY <3>1 DEF Placed, Held, IsSender
    <3>3. \A v : Spare(v)' => Spare(v)
      BY <3>1 DEF Spare, MaySend, IsSender
    <3>4. \A v \in Values \ overtaken' : OneCopy(v)' /\ (Spare(v)' => Nowhere(v)')
      BY <2>1, <3>1, <3>2, <3>3 DEF ValuesInv, OneCopy, Nowhere, Few
    <3>5. ValuesInv'
      BY <2>1, <3>1, <3>4 DEF ValuesInv, KeepsOwn, BeginsSend, IsSender
    <3> QED
      BY <1>1, <2>1, <3>5 DEF ChannelValues
  <2> QED
    BY <1>1, <2>2, <2>3 DEF Next
<1>2. CASE which # "channel"
  <2>1. which' = which /\ UNCHANGED channelVars
    BY <1>2 DEF Next
  <2>2. UNCHANGED <<buffer, role, held, received>>
    BY <2>1 DEF channelVars
  <2>3. \A v : Placed(v)' = Placed(v) /\ Held(v)' = Held(v)
    BY <2>2 DEF Placed, Held, IsSender
  <2> QED
    BY <1>2, <2>1, <2>2, <2>3 DEF ChannelValues, Nowhere
<1> QED
  BY <1>1, <1>2

\* What was sent is counted once at most.
LEMMA ValuesHold == AsyncInv /\ ChannelValues => EachValueOnce
BY CountedOnce DEF AsyncInv, ChannelValues, ValuesInv, Nowhere, OneCopy, Few

\* A value that was sent is in one place: no race of the coroutines that look for it
\* duplicates it, but for the sender that is resumed while its suspend_impl sends a value
\* that a move leaves as it was.
THEOREM ValuesAreNotCopied == Spec => []EachValueOnce
<1>1. Init => AsyncInv /\ ChannelValues
  BY AsyncInit, ValuesBegin
<1>2. AsyncInv /\ ChannelValues /\ [Next]_<<which, waiterVars, primitiveVars, channelVars>> =>
        AsyncInv' /\ ChannelValues'
  BY AsyncStep, ValuesGoOn
<1> QED
  BY <1>1, <1>2, ValuesHold, PTL DEF Spec

=============================================================================
