--------------------------- MODULE WsDeque_proofs ---------------------------
(***************************************************************************)
(* ws_deque returns each item once, loses none and is linearizable, for    *)
(* any number of thieves and pushes and any initial capacity.              *)
(***************************************************************************)
EXTENDS WsDeque, FiniteSetTheorems, SequenceTheorems, TLAPS

Pushing == dpc[Owner] \in {"grow", "put", "putting", "pushed"}
Popping == dpc[Owner] \in {"poptop", "popcas", "popfix"}

\* What array k holds for the index i.
Cell(k, i) == arrays[k][Slot(k, i)]

Sizes == 1 .. 2 * InitCap + 2 * MaxPush
Arrays == UNION {[0 .. n - 1 -> Values] : n \in Sizes}

\* The shape of the state; the newest array is the current one.
ShapeInv ==
  /\ top \in Indices /\ bottom \in Indices
  /\ arrays \in Seq(Arrays) /\ current = Len(arrays) /\ current \in Nat \ {0}
  /\ dpc \in [Users -> OwnerPcs \union ThiefPcs]
  /\ dpc[Owner] \in OwnerPcs /\ \A p \in Thieves : dpc[p] \in ThiefPcs
  /\ b \in [Users -> Indices] /\ t \in [Users -> Indices]
  /\ arr \in [Thieves -> 1 .. current]
  /\ item \in [Users -> Values]
  /\ pushed \in 0 .. MaxPush
  /\ logical \in [Indices -> Items \union {None}]
  /\ got \in [Values -> Nat]

\* How the owner's local variables and the indices are related. A push has compared an
\* old top_, which is as good: thieves only make room.
OwnerInv ==
  /\ top <= End /\ End - top <= CapacityOf(current)
  /\ ~Pushing => End <= pushed
  /\ dpc[Owner] = "idle" => item[Owner] = None
  /\ Pushing => /\ b[Owner] = bottom /\ bottom < pushed
                /\ t[Owner] <= top /\ item[Owner] = pushed
  /\ dpc[Owner] = "grow" => /\ bottom - t[Owner] <= CapacityOf(current)
                           /\ CapacityOf(current) <= MaxPush
  /\ dpc[Owner] \in {"put", "putting", "pushed"} => bottom - t[Owner] < CapacityOf(current)
  /\ dpc[Owner] = "pushed" => Cell(current, bottom) = pushed
  /\ Popping => b[Owner] = bottom
  /\ dpc[Owner] = "poptop" => item[Owner] = None
  /\ dpc[Owner] = "popcas" => /\ t[Owner] = bottom /\ top >= bottom
                             /\ item[Owner] = logical[bottom]
  /\ dpc[Owner] = "popfix" => top = bottom + 1 /\ item[Owner] \in (1 .. pushed) \union {None}

\* A thief whose top_ is still the top has, or will find, what is there, in whichever
\* array it looks.
ThiefInv ==
  \A p \in Thieves :
    /\ dpc[p] # "idle" => t[p] <= top
    /\ dpc[p] \in {"array", "get", "cas"} /\ t[p] = top => top < End
    /\ dpc[p] = "get" /\ t[p] = top => Cell(arr[p], top) = logical[top]
    /\ dpc[p] = "cas" /\ t[p] = top => item[p] = logical[top]

\* The content: its items are in the current array, differ, and have not come out.
HeldInv ==
  /\ \A i \in top .. End - 1 :
       /\ Cell(current, i) = logical[i]
       /\ logical[i] \in 1 .. pushed /\ got[logical[i]] = 0
       /\ logical[i] = item[Owner] => dpc[Owner] = "popcas" /\ i = bottom
  /\ \A i, j \in top .. End - 1 : logical[i] = logical[j] => i = j

\* What has come out: nothing twice, nothing that is still to be pushed or returned, and
\* the last item if a pop has lost the race for it.
OutInv ==
  /\ \A v \in Items : got[v] \in {0, 1}
  /\ \A v \in Items : v > pushed => got[v] = 0
  /\ (Pushing \/ dpc[Owner] = "popfix") /\ item[Owner] # None => got[item[Owner]] = 0
  /\ dpc[Owner] = "popcas" /\ top > bottom => got[item[Owner]] = 1
  /\ got[Torn] = 0

IInv == ShapeInv /\ OwnerInv /\ ThiefInv /\ HeldInv /\ OutInv /\ NothingLost

-----------------------------------------------------------------------------
(* The circular arrays.                                                    *)

\* A larger multiple is larger by at least the factor.
LEMMA Multiples ==
  ASSUME NEW n \in Nat, NEW q \in Int, NEW r \in Int, q < r
  PROVE  n * q + n <= n * r
<1>1. n * (q + 1) <= n * r
  BY SMT
<1>2. n * (q + 1) = n * q + n
  BY SMT
<1> QED
  BY <1>1, <1>2, SMT

\* Quotient and remainder.
LEMMA DivMod ==
  ASSUME NEW n \in Nat \ {0}, NEW i \in Nat
  PROVE  i \div n \in Int /\ i % n \in 0 .. n - 1 /\ i = n * (i \div n) + (i % n)
<1>1. i \div n \in Int /\ i = n * (i \div n) + (i % n)
  BY SMT
<1>2. i % n \in 0 .. n - 1
  BY SMT
<1> QED
  BY <1>1, <1>2

\* Indices that are less than a capacity apart have different slots.
LEMMA SlotsDiffer ==
  ASSUME NEW n \in Nat \ {0}, NEW i \in Nat, NEW j \in Nat, i # j, i - j < n, j - i < n
  PROVE  i % n # j % n
<1>1. /\ i \div n \in Int /\ i % n \in Int /\ i = n * (i \div n) + (i % n)
      /\ j \div n \in Int /\ j % n \in Int /\ j = n * (j \div n) + (j % n)
  BY DivMod
<1> DEFINE q == i \div n
           r == j \div n
<1>2. n * q \in Int /\ n * r \in Int
  BY <1>1, SMT
<1>3. SUFFICES ASSUME i % n = j % n PROVE FALSE
  OBVIOUS
<1>4. i - j = n * q - n * r
  BY <1>1, <1>2, <1>3, SMT
<1>5. CASE q < r
  <2>1. n * q + n <= n * r
    BY <1>1, <1>5, Multiples
  <2> QED
    BY <2>1, <1>2, <1>4, SMT
<1>6. CASE r < q
  <2>1. n * r + n <= n * q
    BY <1>1, <1>6, Multiples
  <2> QED
    BY <2>1, <1>2, <1>4, SMT
<1>7. CASE q = r
  BY <1>4, <1>7, <1>2, SMT
<1> QED
  BY <1>1, <1>5, <1>6, <1>7, SMT

\* An array of n slots has the capacity n.
LEMMA ArrayFacts ==
  ASSUME NEW a, NEW n \in Nat \ {0}, a \in [0 .. n - 1 -> Values]
  PROVE  Cardinality(DOMAIN a) = n /\ \A i \in Nat : i % n \in 0 .. n - 1
<1>1. DOMAIN a = 0 .. n - 1
  OBVIOUS
<1>2. Cardinality(0 .. n - 1) = n
  BY FS_Interval
<1>3. \A i \in Nat : i % n \in 0 .. n - 1
  BY SMT
<1> QED
  BY <1>1, <1>2, <1>3

\* Every array has a capacity, and a value in each slot.
LEMMA CapacityFacts ==
  ASSUME ShapeInv, NEW k \in 1 .. current
  PROVE  /\ CapacityOf(k) \in Sizes
         /\ arrays[k] \in [0 .. CapacityOf(k) - 1 -> Values]
         /\ \A i \in Nat : Slot(k, i) \in 0 .. CapacityOf(k) - 1 /\ Cell(k, i) \in Values
<1>1. arrays[k] \in Arrays
  BY DEF ShapeInv
<1>2. PICK n \in Sizes : arrays[k] \in [0 .. n - 1 -> Values]
  BY <1>1 DEF Arrays
<1>3. n \in Nat \ {0}
  BY <1>2, DequeSizesAssumption DEF Sizes
<1>4. CapacityOf(k) = n
  BY <1>2, <1>3, ArrayFacts DEF CapacityOf
<1>5. \A i \in Nat : i % n \in 0 .. n - 1
  BY <1>2, <1>3, ArrayFacts
<1> QED
  BY <1>2, <1>4, <1>5 DEF Slot, Cell

\* put() changes one slot of the current array.
LEMMA PutFacts ==
  ASSUME ShapeInv, NEW i \in Nat, NEW v \in Values, Put(current, i, v)
  PROVE  /\ arrays' \in Seq(Arrays) /\ Len(arrays') = current
         /\ \A k \in 1 .. current :
              /\ CapacityOf(k)' = CapacityOf(k)
              /\ k # current => \A j \in Nat : Cell(k, j)' = Cell(k, j)
              /\ k = current =>
                   /\ Cell(k, i)' = v
                   /\ \A j \in Nat : j # i /\ j - i < CapacityOf(k) /\ i - j < CapacityOf(k)
                                       => Cell(k, j)' = Cell(k, j)
<1>1. PICK c \in Nat \ {0} : c = current
  BY DEF ShapeInv
<1>2. c \in 1 .. Len(arrays) /\ arrays \in Seq(Arrays) /\ c = Len(arrays) /\ c \in 1 .. current
  BY <1>1 DEF ShapeInv
<1>3. PICK n \in Nat \ {0} : n = CapacityOf(c) /\ n \in Sizes
  BY <1>2, CapacityFacts, DequeSizesAssumption DEF Sizes
<1>4. arrays[c] \in [0 .. n - 1 -> Values] /\ i % n \in 0 .. n - 1
  BY <1>2, <1>3, CapacityFacts, DivMod
<1> DEFINE new == [arrays[c] EXCEPT ![i % n] = v]
<1>5. new \in [0 .. n - 1 -> Values] /\ new \in Arrays
  BY <1>3, <1>4 DEF Arrays
<1>6. arrays' = [arrays EXCEPT ![c] = new]
  BY <1>1, <1>3 DEF Put, Slot
<1>a. new[i % n] = v /\ \A m \in 0 .. n - 1 : m # i % n => new[m] = arrays[c][m]
  BY <1>4
<1> HIDE DEF new
<1>7. /\ arrays' \in Seq(Arrays) /\ Len(arrays') = Len(arrays) /\ arrays'[c] = new
      /\ \A k \in 1 .. Len(arrays) : k # c => arrays'[k] = arrays[k]
  BY <1>2, <1>5, <1>6
<1>8. Cardinality(DOMAIN new) = n /\ Cardinality(DOMAIN arrays[c]) = n
  BY <1>3, <1>4, <1>5, ArrayFacts
<1>9. ASSUME NEW k \in 1 .. current
      PROVE  /\ CapacityOf(k)' = CapacityOf(k)
             /\ k # current => \A j \in Nat : Cell(k, j)' = Cell(k, j)
             /\ k = current =>
                  /\ Cell(k, i)' = v
                  /\ \A j \in Nat : j # i /\ j - i < CapacityOf(k) /\ i - j < CapacityOf(k)
                                      => Cell(k, j)' = Cell(k, j)
  <2>1. CASE k # current
    BY <1>1, <1>2, <1>7, <2>1 DEF CapacityOf, Cell, Slot
  <2>2. CASE k = current
    <3>1. /\ CapacityOf(k)' = n /\ CapacityOf(k) = n
          /\ \A j \in Nat : Cell(k, j)' = new[j % n] /\ Cell(k, j) = arrays[c][j % n]
      BY <1>1, <1>7, <1>8, <2>2 DEF CapacityOf, Cell, Slot
    <3>2. \A j \in Nat : j # i /\ j - i < n /\ i - j < n => j % n # i % n
      BY SlotsDiffer
    <3>3. \A j \in Nat : j % n \in 0 .. n - 1
      BY DivMod
    <3> QED
      BY <3>1, <3>2, <3>3, <1>a, <2>2
  <2> QED
    BY <2>1, <2>2
<1> QED
  BY <1>1, <1>2, <1>7, <1>9

\* grow() copies what is live into an array of twice the capacity, and leaves the old ones.
LEMMA GrowFacts ==
  ASSUME ShapeInv, Grow, CapacityOf(current) <= MaxPush,
         b[Owner] - t[Owner] <= CapacityOf(current)
  PROVE  /\ arrays' \in Seq(Arrays) /\ Len(arrays') = current + 1
         /\ \A k \in 1 .. current :
              CapacityOf(k)' = CapacityOf(k) /\ \A j \in Nat : Cell(k, j)' = Cell(k, j)
         /\ \A k \in 1 .. current : k = current =>
              /\ \A l : l = k + 1 => CapacityOf(l)' = 2 * CapacityOf(k)
              /\ \A j \in t[Owner] .. b[Owner] - 1 :
                   \A l : l = k + 1 => Cell(l, j)' = Cell(k, j)
<1>1. PICK c \in Nat \ {0}, lo \in Nat, hi \in Nat :
        c = current /\ lo = t[Owner] /\ hi = b[Owner]
  <2>1. Owner \in Users /\ \A i \in Indices : i \in Nat
    BY DequeSizesAssumption DEF Users, Indices
  <2>2. current \in Nat \ {0} /\ t[Owner] \in Nat /\ b[Owner] \in Nat
    BY <2>1 DEF ShapeInv
  <2> QED
    BY <2>2
<1>2. c \in 1 .. Len(arrays) /\ arrays \in Seq(Arrays) /\ c = Len(arrays) /\ c \in 1 .. current
  BY <1>1 DEF ShapeInv
<1>3. PICK m \in Nat \ {0} : m = CapacityOf(c) /\ m \in Sizes /\ m <= MaxPush /\ hi - lo <= m
  <2>1. CapacityOf(c) \in Sizes
    BY <1>2, CapacityFacts
  <2>2. CapacityOf(c) <= MaxPush /\ hi - lo <= CapacityOf(c)
    BY <1>1
  <2> QED
    BY <2>1, <2>2, DequeSizesAssumption DEF Sizes
<1>4. arrays[c] \in [0 .. m - 1 -> Values] /\ \A i \in Nat : i % m \in 0 .. m - 1
  BY <1>2, <1>3, CapacityFacts, DivMod
<1>5. PICK n \in Nat \ {0} : n = 2 * m /\ n \in Sizes /\ hi - lo <= n
  BY <1>3, DequeSizesAssumption DEF Sizes
<1> DEFINE live == lo .. hi - 1
           new == [s \in 0 .. n - 1 |->
                     IF \E i \in live : i % n = s
                     THEN arrays[c][Slot(c, CHOOSE i \in live : i % n = s)]
                     ELSE None]
<1>6. arrays' = Append(arrays, new)
  BY <1>1, <1>3, <1>5 DEF Grow
<1>7. ASSUME NEW i \in live
      PROVE  i % n \in 0 .. n - 1 /\ (CHOOSE x \in live : x % n = i % n) = i
  <2>1. \A x \in live : x % n = i % n => x = i
    <3>1. ASSUME NEW x \in live, x # i PROVE x % n # i % n
      <4>1. x \in Nat /\ i \in Nat /\ x - i < n /\ i - x < n
        BY <1>5
      <4> QED
        BY <3>1, <4>1, SlotsDiffer
    <3> QED
      BY <3>1
  <2>2. i \in Nat
    OBVIOUS
  <2> QED
    BY <2>1, <2>2, DivMod
<1>8. \A i \in live : new[i % n] = arrays[c][i % m]
  BY <1>7, <1>3 DEF Slot
<1>9. new \in [0 .. n - 1 -> Values]
  <2>1. ASSUME NEW s \in 0 .. n - 1, \E i \in live : i % n = s
        PROVE  arrays[c][Slot(c, CHOOSE x \in live : x % n = s)] \in Values
    <3>1. (CHOOSE x \in live : x % n = s) \in live
      BY <2>1
    <3>2. \A i \in live : i \in Nat
      OBVIOUS
    <3>3. \A i \in live : Slot(c, i) \in 0 .. m - 1
      BY <1>3, <1>4, <3>2 DEF Slot
    <3>4. Slot(c, CHOOSE x \in live : x % n = s) \in 0 .. m - 1
      BY <3>1, <3>3
    <3> QED
      BY <3>4, <1>4
  <2>2. None \in Values
    BY DEF Values
  <2> QED
    BY <2>1, <2>2
<1>a. new \in Arrays
  BY <1>5, <1>9 DEF Arrays
<1> HIDE DEF new, live
<1>b. /\ arrays' \in Seq(Arrays) /\ Len(arrays') = c + 1 /\ arrays'[c + 1] = new
      /\ \A k \in 1 .. c : arrays'[k] = arrays[k]
  BY <1>2, <1>6, <1>a
<1>c. Cardinality(DOMAIN new) = n
  BY <1>9, ArrayFacts
<1>d. \A k \in 1 .. current :
        CapacityOf(k)' = CapacityOf(k) /\ \A j \in Nat : Cell(k, j)' = Cell(k, j)
  BY <1>1, <1>b DEF CapacityOf, Cell, Slot
<1>e. ASSUME NEW l, l = c + 1
      PROVE  /\ CapacityOf(l)' = 2 * CapacityOf(c)
             /\ \A j \in live : Cell(l, j)' = Cell(c, j)
  <2>1. CapacityOf(l)' = n
    BY <1>b, <1>c, <1>e DEF CapacityOf
  <2>2. \A j \in live : Cell(l, j)' = new[j % n]
    BY <2>1, <1>b, <1>e DEF Cell, Slot
  <2>3. \A j \in live : Cell(c, j) = arrays[c][j % m]
    BY <1>3 DEF Cell, Slot
  <2> QED
    BY <2>1, <2>2, <2>3, <1>3, <1>5, <1>8
<1> QED
  BY <1>1, <1>b, <1>d, <1>e DEF live

\* Where the arrays stay so do their cells.
LEMMA SameArrays ==
  ASSUME UNCHANGED arrays
  PROVE  \A k : CapacityOf(k)' = CapacityOf(k) /\ \A i : Cell(k, i)' = Cell(k, i)
  BY DEF CapacityOf, Cell, Slot

-----------------------------------------------------------------------------
(* What every step's proof starts from.                                    *)

\* The threads differ, the numbers are numbers, and no item is None or Torn.
LEMMA Basics ==
  ASSUME ShapeInv
  PROVE  /\ Owner \in Users /\ \A p \in Thieves : p \in Users /\ p # Owner
         /\ top \in Nat /\ bottom \in Nat /\ pushed \in Nat /\ MaxPush \in Nat
         /\ \A x \in Users : b[x] \in Nat /\ t[x] \in Nat
         /\ current \in 1 .. current /\ CapacityOf(current) \in Nat \ {0}
         /\ \A v \in Items : v \in Nat \ {0} /\ v # None /\ v # Torn
         /\ None \in Values /\ Torn \in Values /\ None # Torn /\ Items \subseteq Values
         /\ \A i \in Indices : i \in Nat /\ logical[i] \in Items \union {None}
<1>1. current \in Nat \ {0} /\ current \in 1 .. current
  BY DEF ShapeInv
<1>2. CapacityOf(current) \in Nat \ {0}
  BY <1>1, CapacityFacts, DequeSizesAssumption DEF Sizes
<1>3. top \in Nat /\ bottom \in Nat /\ pushed \in Nat /\ MaxPush \in Nat
  BY DequeSizesAssumption DEF ShapeInv, Indices
<1>4. Owner \in Users /\ \A p \in Thieves : p \in Users /\ p # Owner
  BY OwnerAssumption DEF Users
<1>5. \A i \in Indices : i \in Nat /\ logical[i] \in Items \union {None}
  BY DequeSizesAssumption DEF ShapeInv, Indices
<1>6. \A x \in Users : b[x] \in Nat /\ t[x] \in Nat
  BY <1>5 DEF ShapeInv
<1>7. /\ \A v \in Items : v \in Nat \ {0} /\ v # None /\ v # Torn
      /\ None \in Values /\ Torn \in Values /\ None # Torn /\ Items \subseteq Values
  BY DequeSizesAssumption, TornAssumption DEF Items, None, Values
<1> QED
  BY <1>1, <1>2, <1>3, <1>4, <1>5, <1>6, <1>7

\* The content ends at or before what was pushed, so at an index that is in bounds.
LEMMA EndBound ==
  ASSUME ShapeInv, OwnerInv
  PROVE  /\ End \in Nat /\ top <= End /\ End <= pushed /\ End <= MaxPush
         /\ \A i \in top .. End - 1 : i \in Indices
<1>1. End \in Nat /\ top <= End
  BY Basics DEF OwnerInv, End
<1>2. End <= pushed
  BY Basics DEF OwnerInv, End, Pushing
<1>3. pushed <= MaxPush
  BY Basics DEF ShapeInv
<1> QED
  BY <1>1, <1>2, <1>3, Basics DEF Indices

\* A thief that changes nothing but its own state leaves what is said of the rest.
LEMMA OwnerFrame ==
  ASSUME IInv, UNCHANGED <<top, bottom, arrays, current, pushed, logical, got>>,
         dpc'[Owner] = dpc[Owner], b'[Owner] = b[Owner], t'[Owner] = t[Owner],
         item'[Owner] = item[Owner]
  PROVE  OwnerInv' /\ HeldInv' /\ OutInv' /\ NothingLost' /\ End' = End
<1>1. End' = End
  BY DEF End
<1>2. OwnerInv'
  BY <1>1 DEF IInv, OwnerInv, Pushing, Popping, Cell, Slot, CapacityOf
<1>3. HeldInv'
  BY <1>1 DEF IInv, HeldInv, Cell, Slot, CapacityOf
<1>4. OutInv'
  BY DEF IInv, OutInv, Pushing
<1>5. NothingLost'
  BY <1>1 DEF IInv, NothingLost
<1> QED
  BY <1>1, <1>2, <1>3, <1>4, <1>5

-----------------------------------------------------------------------------
(* The thieves' steps.                                                     *)

\* steal() loads top_: a lower bound of what top_ will be.
LEMMA StealTopStep ==
  ASSUME IInv, NEW p \in Thieves, StealTop(p)
  PROVE  IInv'
<1>1. ShapeInv'
  BY Basics DEF IInv, ShapeInv, StealTop, DequeGoto, ThiefPcs
<1>2. OwnerInv' /\ HeldInv' /\ OutInv' /\ NothingLost' /\ End' = End
  BY Basics, OwnerFrame DEF IInv, ShapeInv, StealTop, DequeGoto
<1>3. ThiefInv'
  <2>1. /\ UNCHANGED <<top, arrays, arr, logical, item>> /\ dpc'[p] = "bottom" /\ t'[p] = top
        /\ \A q \in Thieves : q # p => dpc'[q] = dpc[q] /\ t'[q] = t[q]
    BY Basics DEF IInv, ShapeInv, StealTop, DequeGoto
  <2> QED
    BY <1>2, <2>1, Basics DEF IInv, ThiefInv, Cell, Slot, CapacityOf
<1> QED
  BY <1>1, <1>2, <1>3 DEF IInv

\* steal() loads bottom_: below it there is an item at the thief's index.
LEMMA StealBottomStep ==
  ASSUME IInv, NEW p \in Thieves, StealBottom(p)
  PROVE  IInv'
<1>1. UNCHANGED <<top, bottom, arrays, current, arr, pushed, logical, got>>
  BY DEF StealBottom, Return
<1>2. \/ /\ t[p] < bottom /\ b' = [b EXCEPT ![p] = bottom] /\ UNCHANGED <<t, item>>
         /\ dpc' = [dpc EXCEPT ![p] = "array"]
      \/ /\ b' = [b EXCEPT ![p] = 0] /\ t' = [t EXCEPT ![p] = 0]
         /\ item' = [item EXCEPT ![p] = None] /\ dpc' = [dpc EXCEPT ![p] = "idle"]
  BY DEF StealBottom, Return, DequeGoto
<1>3. dpc[p] = "bottom" /\ 0 \in Indices /\ bottom <= End
  BY Basics DEF IInv, StealBottom, End, Indices
<1>4. ShapeInv'
  <2>1. b' \in [Users -> Indices]
    <3>1. b \in [Users -> Indices] /\ bottom \in Indices
      BY DEF IInv, ShapeInv
    <3>2. b' = [b EXCEPT ![p] = bottom] \/ b' = [b EXCEPT ![p] = 0]
      BY <1>2
    <3> QED
      BY <1>3, <3>1, <3>2
  <2>2. t' \in [Users -> Indices] /\ item' \in [Users -> Values]
    <3>1. t \in [Users -> Indices] /\ item \in [Users -> Values] /\ None \in Values
      BY Basics DEF IInv, ShapeInv
    <3>2. /\ t' = t \/ t' = [t EXCEPT ![p] = 0]
          /\ item' = item \/ item' = [item EXCEPT ![p] = None]
      BY <1>2
    <3> QED
      BY <1>3, <3>1, <3>2
  <2>3. dpc' \in [Users -> OwnerPcs \union ThiefPcs]
    BY <1>2 DEF IInv, ShapeInv, ThiefPcs
  <2>4. dpc'[Owner] \in OwnerPcs /\ \A q \in Thieves : dpc'[q] \in ThiefPcs
    BY <1>2, Basics DEF IInv, ShapeInv, ThiefPcs
  <2> QED
    BY <1>1, <2>1, <2>2, <2>3, <2>4 DEF IInv, ShapeInv
<1>5. OwnerInv' /\ HeldInv' /\ OutInv' /\ NothingLost' /\ End' = End
  BY <1>1, <1>2, Basics, OwnerFrame DEF IInv, ShapeInv
<1>6. ThiefInv'
  <2>1. ASSUME NEW q \in Thieves, q # p
        PROVE  dpc'[q] = dpc[q] /\ t'[q] = t[q] /\ item'[q] = item[q]
    BY <1>2, <2>1, Basics DEF IInv, ShapeInv
  <2>2. \/ dpc'[p] = "idle"
        \/ dpc'[p] = "array" /\ t'[p] = t[p] /\ t[p] <= top /\ t[p] < End
    <3>1. t[p] \in Nat /\ t[p] <= top /\ (t[p] < bottom => t[p] < End)
      BY <1>3, Basics, EndBound DEF IInv, ThiefInv
    <3> QED
      BY <1>2, <3>1, Basics DEF IInv, ShapeInv
  <2> QED
    BY <1>1, <1>5, <2>1, <2>2 DEF IInv, ThiefInv, Cell, Slot, CapacityOf
<1> QED
  BY <1>4, <1>5, <1>6 DEF IInv

\* steal() loads array_: this array holds the content, and keeps its cells.
LEMMA StealArrayStep ==
  ASSUME IInv, NEW p \in Thieves, StealArray(p)
  PROVE  IInv'
<1>1. ShapeInv'
  BY Basics DEF IInv, ShapeInv, StealArray, DequeGoto, ThiefPcs
<1>2. OwnerInv' /\ HeldInv' /\ OutInv' /\ NothingLost' /\ End' = End
  BY Basics, OwnerFrame DEF IInv, ShapeInv, StealArray, DequeGoto
<1>3. top < End => Cell(current, top) = logical[top]
  BY Basics, EndBound DEF IInv, HeldInv
<1>4. ThiefInv'
  BY <1>2, <1>3, Basics, EndBound
     DEF IInv, ShapeInv, ThiefInv, StealArray, DequeGoto, Cell, Slot, CapacityOf
<1> QED
  BY <1>1, <1>2, <1>4 DEF IInv

\* steal() reads the slot: if top_ has not moved it holds the item at the top.
LEMMA StealGetStep ==
  ASSUME IInv, NEW p \in Thieves, StealGet(p)
  PROVE  IInv'
<1>1. ShapeInv'
  <2>1. Cell(arr[p], t[p]) \in Values
    BY Basics, CapacityFacts DEF IInv, ShapeInv
  <2> QED
    BY <2>1, Basics DEF IInv, ShapeInv, StealGet, DequeGoto, ThiefPcs, Cell
<1>2. OwnerInv' /\ HeldInv' /\ OutInv' /\ NothingLost' /\ End' = End
  BY Basics, OwnerFrame DEF IInv, ShapeInv, StealGet, DequeGoto
<1>3. ThiefInv'
  BY <1>2, Basics, EndBound
     DEF IInv, ShapeInv, ThiefInv, StealGet, DequeGoto, Cell, Slot, CapacityOf
<1> QED
  BY <1>1, <1>2, <1>3 DEF IInv

\* The winner takes what is at the top: it has never come out.
LEMMA StealCasStep ==
  ASSUME IInv, NEW p \in Thieves, StealCas(p)
  PROVE  IInv'
<1> DEFINE v == item[p]
<1>0. /\ dpc[p] = "cas" /\ 0 \in Indices /\ p \in Users /\ p # Owner
      /\ UNCHANGED <<bottom, arrays, current, arr, pushed, logical>>
      /\ dpc' = [dpc EXCEPT ![p] = "idle"] /\ b' = [b EXCEPT ![p] = 0]
      /\ t' = [t EXCEPT ![p] = 0] /\ item' = [item EXCEPT ![p] = None]
  BY Basics DEF IInv, StealCas, Return, DequeGoto, Indices
<1>1. CASE top # t[p]
  <2>0. UNCHANGED <<top, got>>
    BY <1>1 DEF StealCas, Return
  <2>1. ShapeInv'
    BY <1>0, <2>0, Basics DEF IInv, ShapeInv, ThiefPcs
  <2>2. OwnerInv' /\ HeldInv' /\ OutInv' /\ NothingLost' /\ End' = End
    BY <1>0, <2>0, OwnerFrame DEF IInv, ShapeInv
  <2>3. ThiefInv'
    BY <1>0, <2>0, <2>2 DEF IInv, ShapeInv, ThiefInv, Cell, Slot, CapacityOf
  <2> QED
    BY <2>1, <2>2, <2>3 DEF IInv
<1>2. CASE top = t[p]
  <2>0. v = logical[top] /\ top < End /\ top \in top .. End - 1
    BY <1>0, <1>2, Basics, EndBound DEF IInv, ThiefInv
  <2>1. v \in 1 .. pushed /\ v \in Items /\ got[v] = 0
    BY <2>0, Basics DEF IInv, HeldInv, ShapeInv, Items
  <2>2. /\ top' = top + 1 /\ got' = [got EXCEPT ![v] = 1]
        /\ item[Owner] = v => dpc[Owner] = "popcas" /\ top = bottom
    <3>1. v # None /\ v \in Values
      BY <2>1, Basics DEF IInv
    <3>2. top' = top + 1 /\ got' = [got EXCEPT ![v] = @ + 1]
      BY <1>2, <3>1 DEF StealCas, Return
    <3>3. item[Owner] = v => dpc[Owner] = "popcas" /\ top = bottom
      BY <2>0 DEF IInv, HeldInv
    <3> QED
      BY <2>1, <3>1, <3>2, <3>3 DEF IInv, ShapeInv
  <2>3. UNCHANGED <<bottom, arrays, current, arr, pushed, logical>>
    BY <1>0
  <2>4. ShapeInv'
    <3>1. top' \in Indices
      BY <2>0, <2>2, Basics, EndBound DEF IInv, Indices
    <3>2. got' \in [Values -> Nat]
      BY <2>2 DEF IInv, ShapeInv
    <3> QED
      BY <1>0, <2>3, <3>1, <3>2, Basics DEF IInv, ShapeInv, ThiefPcs
  <2>5. /\ dpc'[Owner] = dpc[Owner] /\ b'[Owner] = b[Owner] /\ t'[Owner] = t[Owner]
        /\ item'[Owner] = item[Owner] /\ End' = End
    BY <1>0, Basics DEF IInv, ShapeInv, End
  <2>6. OwnerInv'
    BY <2>0, <2>2, <2>3, <2>5, Basics, EndBound
       DEF IInv, OwnerInv, Pushing, Popping, End, Cell, Slot, CapacityOf
  <2>7. ThiefInv'
    <3>1. dpc'[p] = "idle"
      BY <1>0 DEF IInv, ShapeInv
    <3>2. \A q \in Thieves : q # p => dpc'[q] = dpc[q] /\ t'[q] = t[q]
      BY <1>0, Basics DEF IInv, ShapeInv
    <3>3. \A q \in Thieves : dpc[q] # "idle" => t[q] \in Nat /\ t[q] <= top
      BY Basics DEF IInv, ThiefInv
    <3> QED
      BY <2>2, <3>1, <3>2, <3>3, Basics DEF IInv, ThiefInv
  <2>8. HeldInv'
    <3>1. \A i \in top + 1 .. End - 1 : i \in top .. End - 1 /\ logical[i] # v
      BY <2>0, <2>1, <2>2, Basics, EndBound DEF IInv, HeldInv
    <3>2. \A i \in top + 1 .. End - 1 : logical[i] \in Items
      <4>1. \A x \in 1 .. pushed : x \in Items
        BY Basics DEF IInv, ShapeInv, Items
      <4> QED
        BY <3>1, <4>1 DEF IInv, HeldInv
    <3>3. \A i \in top + 1 .. End - 1 : got'[logical[i]] = 0
      <4>1. \A i \in top + 1 .. End - 1 : got[logical[i]] = 0
        BY <3>1 DEF IInv, HeldInv
      <4>2. \A w \in Items : w # v => got'[w] = got[w]
        BY <2>2, Basics DEF IInv, ShapeInv
      <4> HIDE DEF v
      <4> QED
        BY <3>1, <3>2, <4>1, <4>2
    <3>4. \A i \in top + 1 .. End - 1 : Cell(current, i)' = Cell(current, i)
      BY <2>3 DEF Cell, Slot, CapacityOf
    <3> QED
      BY <2>2, <2>3, <2>5, <3>1, <3>3, <3>4 DEF IInv, HeldInv
  <2>9. OutInv'
    <3>1. \A w \in Values : got'[w] = IF w = v THEN 1 ELSE got[w]
      BY <2>1, <2>2, Basics DEF IInv, ShapeInv
    <3>2. Pushing' = Pushing
      BY <2>5 DEF Pushing
    <3>3. item[Owner] \in Values
      BY Basics DEF IInv, ShapeInv
    <3>4. dpc[Owner] = "popcas" => item[Owner] = logical[bottom] /\ End = bottom + 1
      BY DEF IInv, OwnerInv, End
    <3>5. dpc[Owner] = "popcas" /\ top' > bottom => item[Owner] = v
      BY <2>0, <2>2, <3>4, Basics DEF IInv
    <3>6. dpc'[Owner] = "popcas" /\ top' > bottom' => got'[item'[Owner]] = 1
      BY <2>3, <2>5, <3>1, <3>3, <3>5
    <3> QED
      BY <2>1, <2>2, <2>3, <2>5, <3>1, <3>2, <3>3, <3>6, Basics DEF IInv, OutInv, Pushing
  <2>a. NothingLost'
    <3>1. \A i \in 1 .. pushed : i \in Items
      BY Basics DEF IInv, ShapeInv, Items
    <3>2. \A i \in Items : got'[i] = IF i = v THEN 1 ELSE got[i]
      BY <2>1, <2>2, Basics DEF IInv, ShapeInv
    <3>3. \A k \in top .. End - 1 : k = top \/ k \in top + 1 .. End - 1
      BY Basics, EndBound DEF IInv
    <3>4. ASSUME NEW i \in 1 .. pushed
          PROVE  \/ got'[i] = 1
                 \/ \E k \in top + 1 .. End - 1 : logical[k] = i
                 \/ item[Owner] = i
      BY <2>0, <3>1, <3>2, <3>3, <3>4 DEF IInv, NothingLost
    <3> HIDE DEF v
    <3> QED
      BY <2>2, <2>3, <2>5, <3>4 DEF NothingLost
  <2> QED
    BY <2>4, <2>6, <2>7, <2>8, <2>9, <2>a DEF IInv
<1> QED
  BY <1>1, <1>2

-----------------------------------------------------------------------------
(* The owner's push.                                                       *)

\* push() loads the indices: the array has room for b, or grow() makes it.
LEMMA PushLoadStep ==
  ASSUME IInv, PushLoad
  PROVE  IInv'
<1>1. /\ UNCHANGED <<top, bottom, arrays, current, arr, logical, got>>
      /\ dpc[Owner] = "idle" /\ pushed < MaxPush /\ pushed' = pushed + 1
      /\ item' = [item EXCEPT ![Owner] = pushed + 1]
      /\ b' = [b EXCEPT ![Owner] = bottom] /\ t' = [t EXCEPT ![Owner] = top]
  BY DEF PushLoad
<1>2. \/ /\ dpc' = [dpc EXCEPT ![Owner] = "grow"]
         /\ bottom - top > CapacityOf(current) - 1
      \/ /\ dpc' = [dpc EXCEPT ![Owner] = "put"]
         /\ bottom - top <= CapacityOf(current) - 1
  <2>1. CASE bottom - top > CapacityOf(current) - 1
    BY <2>1 DEF PushLoad, DequeGoto
  <2>2. CASE ~(bottom - top > CapacityOf(current) - 1)
    <3>1. bottom - top <= CapacityOf(current) - 1
      BY <2>2, Basics DEF IInv
    <3> QED
      BY <2>2, <3>1 DEF PushLoad, DequeGoto
  <2> QED
    BY <2>1, <2>2
<1>3. pushed + 1 \in Items /\ pushed + 1 \in Values /\ pushed + 1 \in 0 .. MaxPush
  BY <1>1, Basics DEF IInv, Items
<1>4. /\ dpc'[Owner] \in {"grow", "put"} /\ item'[Owner] = pushed + 1
      /\ b'[Owner] = bottom /\ t'[Owner] = top /\ End = bottom /\ End' = End
  BY <1>1, <1>2, Basics DEF IInv, ShapeInv, End
<1>5. \A p \in Thieves : dpc'[p] = dpc[p] /\ t'[p] = t[p] /\ item'[p] = item[p]
  BY <1>1, <1>2, Basics DEF IInv, ShapeInv
<1>6. ShapeInv'
  <2>1. b' \in [Users -> Indices] /\ t' \in [Users -> Indices]
    BY <1>1 DEF IInv, ShapeInv
  <2>2. item' \in [Users -> Values]
    BY <1>1, <1>3 DEF IInv, ShapeInv
  <2>3. dpc' \in [Users -> OwnerPcs \union ThiefPcs]
    BY <1>2 DEF IInv, ShapeInv, OwnerPcs
  <2>4. dpc'[Owner] \in OwnerPcs /\ \A q \in Thieves : dpc'[q] \in ThiefPcs
    BY <1>4, <1>5 DEF IInv, ShapeInv, OwnerPcs
  <2> QED
    BY <1>1, <1>3, <2>1, <2>2, <2>3, <2>4 DEF IInv, ShapeInv
<1>7. OwnerInv'
  <2>1. /\ CapacityOf(current)' = CapacityOf(current)
        /\ dpc'[Owner] = "grow" => bottom - top >= CapacityOf(current)
        /\ dpc'[Owner] = "put" => bottom - top < CapacityOf(current)
    <3>1. CapacityOf(current)' = CapacityOf(current)
      BY <1>1 DEF CapacityOf
    <3>2. \/ dpc'[Owner] = "grow" /\ bottom - top > CapacityOf(current) - 1
          \/ dpc'[Owner] = "put" /\ bottom - top <= CapacityOf(current) - 1
      BY <1>2, Basics DEF IInv, ShapeInv
    <3> QED
      BY <3>1, <3>2, Basics DEF IInv
  <2>2. top <= bottom /\ bottom - top <= CapacityOf(current) /\ bottom <= pushed
    BY <1>4, EndBound DEF IInv, OwnerInv
  <2> QED
    BY <1>1, <1>4, <2>1, <2>2, Basics DEF IInv, OwnerInv, Pushing, Popping
<1>8. ThiefInv'
  BY <1>1, <1>4, <1>5 DEF IInv, ThiefInv, Cell, Slot, CapacityOf
<1>9. HeldInv'
  BY <1>1, <1>4, Basics DEF IInv, HeldInv, Cell, Slot, CapacityOf
<1>a. OutInv'
  BY <1>1, <1>3, <1>4, Basics DEF IInv, OutInv
<1>b. NothingLost'
  <2>1. item[Owner] = None /\ \A i \in 1 .. pushed' : i # None
    BY <1>1, Basics DEF IInv, OwnerInv, None
  <2>2. \A i \in 1 .. pushed' : i \in 1 .. pushed \/ i = pushed + 1
    BY <1>1, Basics DEF IInv
  <2> QED
    BY <1>1, <1>4, <2>1, <2>2 DEF IInv, NothingLost
<1> QED
  BY <1>6, <1>7, <1>8, <1>9, <1>a, <1>b DEF IInv

\* put() writes where no index of the content has its slot.
LEMMA PutStep ==
  ASSUME IInv, NEW v \in Values, NEW next \in {"putting", "pushed"},
         dpc[Owner] \in {"put", "putting"}, dpc' = [dpc EXCEPT ![Owner] = next],
         next = "pushed" => v = pushed, Put(current, b[Owner], v),
         UNCHANGED <<top, bottom, current, b, t, arr, item, pushed, logical, got>>
  PROVE  IInv'
<1>1. PICK c \in Nat \ {0}, n \in Nat \ {0} : c = current /\ n = CapacityOf(c) /\ c \in 1 .. current
  BY Basics DEF IInv, ShapeInv
<1>2. /\ bottom \in Nat /\ b[Owner] = bottom /\ End = bottom /\ top <= bottom
      /\ t[Owner] <= top /\ bottom - t[Owner] < n /\ t[Owner] \in Nat
  BY <1>1, Basics, EndBound DEF IInv, OwnerInv, Pushing, End
<1>3. /\ arrays' \in Seq(Arrays) /\ Len(arrays') = current
      /\ \A k \in 1 .. current :
           /\ CapacityOf(k)' = CapacityOf(k)
           /\ k # current => \A j \in Nat : Cell(k, j)' = Cell(k, j)
           /\ k = current =>
                /\ Cell(k, bottom)' = v
                /\ \A j \in Nat : j # bottom /\ j - bottom < CapacityOf(k)
                                       /\ bottom - j < CapacityOf(k)
                                    => Cell(k, j)' = Cell(k, j)
  <2>1. Put(current, bottom, v)
    BY <1>2
  <2> QED
    BY <1>2, <2>1, PutFacts DEF IInv
<1>4. \A k \in 1 .. current : \A j \in top .. bottom - 1 : Cell(k, j)' = Cell(k, j)
  <2>1. ASSUME NEW j \in top .. bottom - 1
        PROVE  j \in Nat /\ j # bottom /\ j - bottom < n /\ bottom - j < n
    BY <1>2, Basics DEF IInv
  <2> QED
    BY <1>1, <1>3, <2>1
<1>5. CapacityOf(current)' = n /\ Cell(current, bottom)' = v
  <2>1. CapacityOf(current)' = CapacityOf(c)' /\ Cell(current, bottom)' = Cell(c, bottom)'
    BY <1>1 DEF CapacityOf, Cell, Slot
  <2> QED
    BY <1>1, <1>3, <2>1
<1>6. /\ dpc'[Owner] = next /\ End' = End
      /\ \A p \in Thieves : dpc'[p] = dpc[p]
  BY Basics DEF IInv, ShapeInv, End
<1>7. ShapeInv'
  <2>1. dpc' \in [Users -> OwnerPcs \union ThiefPcs]
    BY DEF IInv, ShapeInv, OwnerPcs
  <2> QED
    BY <1>3, <1>6, <2>1 DEF IInv, ShapeInv, OwnerPcs
<1>8. OwnerInv'
  BY <1>1, <1>2, <1>5, <1>6, Basics DEF IInv, OwnerInv, Pushing, Popping
<1>9. ThiefInv'
  <2>1. ASSUME NEW p \in Thieves, dpc[p] = "get", t[p] = top
        PROVE  Cell(arr[p], top)' = logical[top]
    <3>1. top \in top .. bottom - 1 /\ Cell(arr[p], top) = logical[top]
      BY <1>2, <2>1, Basics DEF IInv, ThiefInv
    <3>2. PICK k \in 1 .. current, j \in top .. bottom - 1 : k = arr[p] /\ j = top
      BY <3>1 DEF IInv, ShapeInv
    <3>3. Cell(arr[p], top)' = Cell(k, j)'
      BY <3>2 DEF Cell, Slot, CapacityOf
    <3> QED
      BY <1>4, <3>1, <3>2, <3>3
  <2> QED
    BY <1>6, <2>1 DEF IInv, ThiefInv
<1>a. HeldInv'
  <2>1. ASSUME NEW i \in top .. bottom - 1
        PROVE  Cell(current, i)' = Cell(current, i)
    <3>1. Cell(current, i)' = Cell(c, i)'
      BY <1>1 DEF Cell, Slot, CapacityOf
    <3> QED
      BY <1>1, <1>4, <3>1
  <2> QED
    BY <1>2, <1>6, <2>1 DEF IInv, HeldInv
<1>b. OutInv'
  BY <1>6 DEF IInv, OutInv, Pushing
<1>c. NothingLost'
  BY <1>6 DEF IInv, NothingLost
<1> QED
  BY <1>7, <1>8, <1>9, <1>a, <1>b, <1>c DEF IInv

\* put() begins: what is in the slot is nobody's.
LEMMA PutBeginStep ==
  ASSUME IInv, PutBegin
  PROVE  IInv'
<1>1. Torn \in Values
  BY Basics DEF IInv
<1> QED
  BY <1>1, PutStep DEF PutBegin, DequeGoto

\* put() ends: the slot holds the item.
LEMMA PutEndStep ==
  ASSUME IInv, PutEnd
  PROVE  IInv'
<1>1. item[Owner] \in Values /\ item[Owner] = pushed
  BY Basics DEF IInv, ShapeInv, OwnerInv, Pushing, PutEnd
<1> QED
  BY <1>1, PutStep DEF PutEnd, DequeGoto

\* The copy holds the content, as the live range that was loaded contains it.
LEMMA GrowStep ==
  ASSUME IInv, Grow
  PROVE  IInv'
<1>1. PICK c \in Nat \ {0}, n \in Nat \ {0} : c = current /\ n = CapacityOf(c) /\ c \in 1 .. current
  BY Basics DEF IInv, ShapeInv
<1>2. /\ dpc[Owner] = "grow" /\ current' = current + 1 /\ dpc' = [dpc EXCEPT ![Owner] = "put"]
      /\ UNCHANGED <<top, bottom, b, t, arr, item, pushed, logical, got>>
  BY DEF Grow, DequeGoto
<1>3. /\ bottom \in Nat /\ b[Owner] = bottom /\ End = bottom /\ top <= bottom
      /\ t[Owner] <= top /\ bottom - t[Owner] <= n /\ n <= MaxPush /\ t[Owner] \in Nat
  BY <1>1, <1>2, Basics, EndBound DEF IInv, OwnerInv, Pushing, End
<1>4. /\ arrays' \in Seq(Arrays) /\ Len(arrays') = current + 1
      /\ \A k \in 1 .. current :
           CapacityOf(k)' = CapacityOf(k) /\ \A j \in Nat : Cell(k, j)' = Cell(k, j)
      /\ \A l : l = c + 1 =>
           CapacityOf(l)' = 2 * n /\ \A j \in t[Owner] .. bottom - 1 : Cell(l, j)' = Cell(c, j)
  <2>1. CapacityOf(current) <= MaxPush /\ b[Owner] - t[Owner] <= CapacityOf(current)
    BY <1>1, <1>3
  <2> QED
    BY <1>1, <1>3, <2>1, GrowFacts DEF IInv
<1>5. CapacityOf(current)' = 2 * n
  <2>1. PICK l \in Nat : l = c + 1
    OBVIOUS
  <2>2. CapacityOf(current)' = CapacityOf(l)'
    BY <1>1, <1>2, <2>1 DEF CapacityOf
  <2> QED
    BY <1>4, <2>1, <2>2
<1>6. \A j \in top .. bottom - 1 : Cell(current, j)' = Cell(current, j)
  <2>1. PICK l \in Nat : l = c + 1
    OBVIOUS
  <2>2. \A j : Cell(current, j)' = Cell(l, j)' /\ Cell(current, j) = Cell(c, j)
    BY <1>1, <1>2, <2>1 DEF Cell, Slot, CapacityOf
  <2>3. \A j \in top .. bottom - 1 : j \in t[Owner] .. bottom - 1
    BY <1>3, Basics DEF IInv
  <2> QED
    BY <1>4, <2>1, <2>2, <2>3
<1>7. /\ dpc'[Owner] = "put" /\ End' = End
      /\ \A p \in Thieves : dpc'[p] = dpc[p]
  BY <1>2, Basics DEF IInv, ShapeInv, End
<1>8. ShapeInv'
  <2>1. dpc' \in [Users -> OwnerPcs \union ThiefPcs]
    BY <1>2 DEF IInv, ShapeInv, OwnerPcs
  <2>2. arr' \in [Thieves -> 1 .. current'] /\ current' \in Nat \ {0}
    BY <1>1, <1>2 DEF IInv, ShapeInv
  <2> QED
    BY <1>2, <1>4, <1>7, <2>1, <2>2 DEF IInv, ShapeInv, OwnerPcs
<1>9. OwnerInv'
  BY <1>1, <1>2, <1>3, <1>5, <1>7, Basics DEF IInv, OwnerInv, Pushing, Popping
<1>a. ThiefInv'
  <2>1. ASSUME NEW p \in Thieves, dpc[p] = "get", t[p] = top
        PROVE  Cell(arr[p], top)' = logical[top]
    <3>1. top \in Nat /\ Cell(arr[p], top) = logical[top]
      BY <2>1, Basics DEF IInv, ThiefInv
    <3>2. PICK k \in 1 .. current, j \in Nat : k = arr[p] /\ j = top
      BY <3>1 DEF IInv, ShapeInv
    <3>3. Cell(arr[p], top)' = Cell(k, j)'
      BY <1>2, <3>2 DEF Cell, Slot, CapacityOf
    <3> QED
      BY <1>4, <3>1, <3>2, <3>3
  <2> QED
    BY <1>2, <1>7, <2>1 DEF IInv, ThiefInv
<1>b. HeldInv'
  BY <1>2, <1>3, <1>6, <1>7 DEF IInv, HeldInv
<1>c. OutInv'
  BY <1>2, <1>7 DEF IInv, OutInv, Pushing
<1>d. NothingLost'
  BY <1>2, <1>7 DEF IInv, NothingLost
<1> QED
  BY <1>8, <1>9, <1>a, <1>b, <1>c, <1>d DEF IInv

\* The new item joins the content, in the slot that put() wrote.
LEMMA PushBottomStep ==
  ASSUME IInv, PushBottom
  PROVE  IInv'
<1>1. /\ dpc[Owner] = "pushed" /\ UNCHANGED <<top, arrays, current, arr, pushed, got>>
      /\ bottom' = b[Owner] + 1 /\ logical' = [logical EXCEPT ![b[Owner]] = item[Owner]]
      /\ b' = [b EXCEPT ![Owner] = 0] /\ t' = [t EXCEPT ![Owner] = 0]
      /\ item' = [item EXCEPT ![Owner] = None] /\ dpc' = [dpc EXCEPT ![Owner] = "idle"]
  BY DEF PushBottom, Return, DequeGoto
<1>2. /\ b[Owner] = bottom /\ bottom < pushed /\ item[Owner] = pushed /\ t[Owner] <= top
      /\ bottom - t[Owner] < CapacityOf(current) /\ Cell(current, bottom) = pushed
      /\ End = bottom /\ top <= bottom /\ bottom \in Indices /\ bottom + 1 \in Indices
      /\ pushed \in Items /\ pushed # None /\ got[pushed] = 0
  <2>1. pushed \in Items /\ pushed # None
    BY <1>1, Basics DEF IInv, ShapeInv, OwnerInv, Pushing, Items, None
  <2>2. End = bottom /\ top <= bottom
    BY <1>1, EndBound DEF IInv, End
  <2>3. bottom < pushed /\ pushed <= MaxPush
    BY <1>1, Basics DEF IInv, ShapeInv, OwnerInv, Pushing
  <2>4. bottom \in Indices /\ bottom + 1 \in Indices
    BY <2>3, Basics DEF IInv, Indices
  <2>5. got[item[Owner]] = 0 /\ item[Owner] = pushed
    BY <1>1, <2>1 DEF IInv, OwnerInv, OutInv, Pushing
  <2> QED
    BY <1>1, <2>1, <2>2, <2>3, <2>4, <2>5 DEF IInv, OwnerInv, Pushing
<1>3. /\ bottom' = bottom + 1 /\ dpc'[Owner] = "idle" /\ item'[Owner] = None
      /\ End' = bottom + 1 /\ logical'[bottom] = pushed
      /\ \A i \in Indices : i # bottom => logical'[i] = logical[i]
      /\ \A p \in Thieves : dpc'[p] = dpc[p] /\ t'[p] = t[p] /\ item'[p] = item[p]
  BY <1>1, <1>2, Basics DEF IInv, ShapeInv, End
<1>4. \A i \in top .. End' - 1 : i \in Indices /\ (i \in top .. End - 1 \/ i = bottom)
  BY <1>2, <1>3, EndBound, Basics DEF IInv
<1>5. ShapeInv'
  <2>1. 0 \in Indices
    BY Basics DEF IInv, Indices
  <2>2. b' \in [Users -> Indices] /\ t' \in [Users -> Indices]
    BY <1>1, <2>1 DEF IInv, ShapeInv
  <2>3. item' \in [Users -> Values]
    BY <1>1, Basics DEF IInv, ShapeInv
  <2>4. logical' \in [Indices -> Items \union {None}]
    BY <1>1, <1>2 DEF IInv, ShapeInv
  <2>5. dpc' \in [Users -> OwnerPcs \union ThiefPcs]
    BY <1>1 DEF IInv, ShapeInv, OwnerPcs
  <2> QED
    BY <1>1, <1>2, <1>3, <2>2, <2>3, <2>4, <2>5 DEF IInv, ShapeInv, OwnerPcs
<1>6. OwnerInv'
  <2>1. CapacityOf(current)' = CapacityOf(current)
    BY <1>1 DEF CapacityOf
  <2> QED
    BY <1>1, <1>2, <1>3, <2>1, Basics DEF IInv, OwnerInv, Pushing, Popping
<1>7. ThiefInv'
  <2>1. \A p \in Thieves : dpc[p] \in {"array", "get", "cas"} /\ t[p] = top => top < bottom
    BY <1>2 DEF IInv, ThiefInv
  <2>2. top < bottom => logical'[top] = logical[top]
    BY <1>2, <1>3, Basics DEF IInv, ShapeInv
  <2> QED
    BY <1>1, <1>2, <1>3, <2>1, <2>2, Basics DEF IInv, ThiefInv, Cell, Slot, CapacityOf
<1>8. HeldInv'
  <2>1. ASSUME NEW i \in top .. End' - 1
        PROVE  /\ Cell(current, i)' = logical'[i]
               /\ logical'[i] \in 1 .. pushed /\ got[logical'[i]] = 0
               /\ logical'[i] # None
               /\ i # bottom => logical'[i] = logical[i] /\ logical[i] # pushed
                                /\ i \in top .. End - 1
    <3>1. Cell(current, i)' = Cell(current, i)
      BY <1>1 DEF Cell, Slot, CapacityOf
    <3>2. CASE i = bottom
      BY <1>1, <1>2, <1>3, <3>1, <3>2, Basics DEF IInv, None
    <3>3. CASE i # bottom
      <4>1. i \in top .. End - 1 /\ logical'[i] = logical[i]
        BY <1>3, <1>4, <2>1, <3>3
      <4>2. logical[i] # pushed
        BY <1>1, <1>2, <4>1 DEF IInv, HeldInv
      <4>3. \A v \in 1 .. pushed : v # None
        BY DEF None
      <4> QED
        BY <3>1, <4>1, <4>2, <4>3 DEF IInv, HeldInv
    <3> QED
      BY <3>2, <3>3
  <2>2. \A i, j \in top .. End' - 1 : logical'[i] = logical'[j] => i = j
    BY <1>3, <2>1 DEF IInv, HeldInv
  <2> QED
    BY <1>1, <1>3, <2>1, <2>2 DEF HeldInv
<1>9. OutInv'
  BY <1>1, <1>3 DEF IInv, OutInv, Pushing
<1>a. NothingLost'
  <2>1. /\ bottom \in top .. End' - 1
        /\ \A k \in top .. End - 1 : k \in top .. End' - 1 /\ k # bottom
    BY <1>2, <1>3, Basics DEF IInv
  <2>2. \A k \in top .. End - 1 : logical'[k] = logical[k]
    BY <1>3, <2>1, EndBound DEF IInv
  <2> QED
    BY <1>1, <1>2, <1>3, <2>1, <2>2 DEF IInv, NothingLost
<1> QED
  BY <1>5, <1>6, <1>7, <1>8, <1>9, <1>a DEF IInv

-----------------------------------------------------------------------------
(* The owner's pop.                                                        *)

\* pop() stores bottom_ - 1: the index still belongs to the content.
LEMMA PopReserveStep ==
  ASSUME IInv, PopReserve
  PROVE  IInv'
<1>1. /\ dpc[Owner] = "idle" /\ bottom # 0 /\ bottom' = bottom - 1
      /\ UNCHANGED <<top, arrays, current, t, arr, item, pushed, logical, got>>
      /\ b' = [b EXCEPT ![Owner] = bottom - 1] /\ dpc' = [dpc EXCEPT ![Owner] = "poptop"]
  BY DEF PopReserve, DequeGoto
<1>2. bottom - 1 \in Indices /\ bottom - 1 \in Nat /\ End = bottom
  BY <1>1, Basics, DequeSizesAssumption DEF IInv, ShapeInv, Indices, End
<1>3. /\ dpc'[Owner] = "poptop" /\ b'[Owner] = bottom - 1 /\ End' = End
      /\ \A p \in Thieves : dpc'[p] = dpc[p]
  BY <1>1, <1>2, Basics DEF IInv, ShapeInv, End
<1>4. ShapeInv'
  <2>1. b' \in [Users -> Indices] /\ dpc' \in [Users -> OwnerPcs \union ThiefPcs]
    BY <1>1, <1>2 DEF IInv, ShapeInv, OwnerPcs
  <2> QED
    BY <1>1, <1>2, <1>3, <2>1 DEF IInv, ShapeInv, OwnerPcs
<1>5. OwnerInv'
  <2>1. CapacityOf(current)' = CapacityOf(current)
    BY <1>1 DEF CapacityOf
  <2> QED
    BY <1>1, <1>2, <1>3, <2>1, EndBound, Basics DEF IInv, OwnerInv, Pushing, Popping
<1>6. ThiefInv'
  BY <1>1, <1>3 DEF IInv, ThiefInv, Cell, Slot, CapacityOf
<1>7. HeldInv'
  <2>1. \A i \in top .. End - 1 : logical[i] # item[Owner]
    BY <1>1 DEF IInv, HeldInv
  <2> QED
    BY <1>1, <1>3, <2>1 DEF IInv, HeldInv, Cell, Slot, CapacityOf
<1>8. OutInv'
  BY <1>1, <1>3 DEF IInv, OutInv, Pushing
<1>9. NothingLost'
  BY <1>1, <1>3 DEF IInv, NothingLost
<1> QED
  BY <1>4, <1>5, <1>6, <1>7, <1>8, <1>9 DEF IInv

\* Empty, the last item, or an item that no thief can reach any more.
LEMMA PopTopStep ==
  ASSUME IInv, PopTop
  PROVE  IInv'
<1> DEFINE v == logical[bottom]
<1>1. /\ dpc[Owner] = "poptop" /\ b[Owner] = bottom /\ End = bottom + 1 /\ item[Owner] = None
      /\ UNCHANGED <<top, bottom, arrays, current, arr, pushed, logical>>
      /\ 0 \in Indices /\ top \in Nat /\ bottom \in Nat /\ top <= bottom + 1
  BY Basics, EndBound DEF IInv, PopTop, OwnerInv, Popping, End, Indices
<1>2. top <= bottom => /\ bottom \in top .. End - 1 /\ Cell(current, bottom) = v
                       /\ v \in 1 .. pushed /\ v \in Items /\ v \in Values /\ v # None
                       /\ got[v] = 0
  <2>1. ASSUME top <= bottom
        PROVE  bottom \in top .. End - 1
    BY <1>1, <2>1
  <2>2. ASSUME bottom \in top .. End - 1
        PROVE  Cell(current, bottom) = v /\ v \in 1 .. pushed /\ got[v] = 0
    BY <2>2 DEF IInv, HeldInv
  <2>3. \A x \in 1 .. pushed : x \in Items /\ x \in Values /\ x # None
    BY Basics DEF IInv, ShapeInv, Items, Values, None
  <2> QED
    BY <2>1, <2>2, <2>3
<1>3. CapacityOf(current)' = CapacityOf(current) /\ \A i : Cell(current, i)' = Cell(current, i)
  BY <1>1 DEF CapacityOf, Cell, Slot
<1>4. CASE top > bottom
  <2>1. UNCHANGED <<b, t, item, got>> /\ dpc' = [dpc EXCEPT ![Owner] = "popfix"]
    BY <1>1, <1>4 DEF PopTop, DequeGoto
  <2>2. /\ dpc'[Owner] = "popfix" /\ End' = End /\ top = bottom + 1
        /\ \A p \in Thieves : dpc'[p] = dpc[p]
    BY <1>1, <1>4, <2>1, Basics DEF IInv, ShapeInv, End
  <2>3. ShapeInv'
    BY <1>1, <2>1, <2>2 DEF IInv, ShapeInv, OwnerPcs
  <2>4. OwnerInv'
    BY <1>1, <1>3, <2>1, <2>2, Basics DEF IInv, OwnerInv, Pushing, Popping
  <2>5. ThiefInv'
    BY <1>1, <2>1, <2>2 DEF IInv, ThiefInv, Cell, Slot, CapacityOf
  <2>6. HeldInv'
    BY <1>1, <2>1, <2>2 DEF IInv, HeldInv
  <2>7. OutInv'
    BY <1>1, <2>1, <2>2 DEF IInv, OutInv, Pushing
  <2>8. NothingLost'
    BY <1>1, <2>1, <2>2 DEF IInv, NothingLost
  <2> QED
    BY <2>3, <2>4, <2>5, <2>6, <2>7, <2>8 DEF IInv
<1>5. CASE top = bottom
  <2>1. /\ UNCHANGED <<b, got>> /\ dpc' = [dpc EXCEPT ![Owner] = "popcas"]
        /\ t' = [t EXCEPT ![Owner] = top] /\ item' = [item EXCEPT ![Owner] = v]
    BY <1>1, <1>2, <1>5 DEF PopTop, DequeGoto, Cell
  <2>2. /\ dpc'[Owner] = "popcas" /\ End' = End /\ t'[Owner] = top /\ item'[Owner] = v
        /\ \A p \in Thieves : dpc'[p] = dpc[p] /\ t'[p] = t[p] /\ item'[p] = item[p]
    BY <1>1, <2>1, Basics DEF IInv, ShapeInv, End
  <2>3. ShapeInv'
    <3>1. t' \in [Users -> Indices] /\ item' \in [Users -> Values]
      <4>1. top \in Indices /\ v \in Values
        BY <1>1, <1>2, <1>5 DEF IInv, ShapeInv
      <4> HIDE DEF v
      <4> QED
        BY <2>1, <4>1 DEF IInv, ShapeInv
    <3>2. dpc' \in [Users -> OwnerPcs \union ThiefPcs]
      BY <2>1 DEF IInv, ShapeInv, OwnerPcs
    <3> QED
      BY <1>1, <2>1, <2>2, <3>1, <3>2 DEF IInv, ShapeInv, OwnerPcs
  <2>4. OwnerInv'
    BY <1>1, <1>3, <1>5, <2>1, <2>2, Basics DEF IInv, OwnerInv, Pushing, Popping
  <2>5. ThiefInv'
    BY <1>1, <2>1, <2>2 DEF IInv, ThiefInv, Cell, Slot, CapacityOf
  <2>6. HeldInv'
    <3>1. \A i \in top .. End - 1 : i = bottom
      BY <1>1, <1>5
    <3> QED
      BY <1>1, <1>3, <2>1, <2>2, <3>1 DEF IInv, HeldInv
  <2>7. OutInv'
    BY <1>1, <1>5, <2>1, <2>2 DEF IInv, OutInv, Pushing
  <2>8. NothingLost'
    <3>1. \A i \in 1 .. pushed : i # item[Owner]
      BY <1>1 DEF None
    <3> QED
      BY <1>1, <2>1, <2>2, <3>1 DEF IInv, NothingLost
  <2> QED
    BY <2>3, <2>4, <2>5, <2>6, <2>7, <2>8 DEF IInv
<1>6. CASE top < bottom
  <2>1. /\ got' = [got EXCEPT ![v] = 1] /\ dpc' = [dpc EXCEPT ![Owner] = "idle"]
        /\ b' = [b EXCEPT ![Owner] = 0] /\ t' = [t EXCEPT ![Owner] = 0]
        /\ item' = [item EXCEPT ![Owner] = None]
    <3>1. Return(Owner, v)
      BY <1>1, <1>2, <1>6 DEF PopTop, Cell
    <3>2. v # None /\ v \in Values /\ got[v] = 0
      BY <1>1, <1>2, <1>6
    <3> HIDE DEF v
    <3>3. got' = [got EXCEPT ![v] = @ + 1]
      BY <3>1, <3>2 DEF Return
    <3> QED
      BY <3>1, <3>2, <3>3 DEF Return, DequeGoto, IInv, ShapeInv
  <2>2. /\ dpc'[Owner] = "idle" /\ End' = bottom /\ item'[Owner] = None
        /\ \A p \in Thieves : dpc'[p] = dpc[p] /\ t'[p] = t[p] /\ item'[p] = item[p]
    BY <1>1, <2>1, Basics DEF IInv, ShapeInv, End
  <2>3. \A w \in Values : got'[w] = IF w = v THEN 1 ELSE got[w]
    BY <2>1 DEF IInv, ShapeInv
  <2>4. ShapeInv'
    <3>1. b' \in [Users -> Indices] /\ t' \in [Users -> Indices]
      BY <1>1, <2>1 DEF IInv, ShapeInv
    <3>2. item' \in [Users -> Values] /\ got' \in [Values -> Nat]
      BY <2>1, Basics DEF IInv, ShapeInv
    <3>3. dpc' \in [Users -> OwnerPcs \union ThiefPcs]
      BY <2>1 DEF IInv, ShapeInv, OwnerPcs
    <3> QED
      BY <1>1, <2>1, <2>2, <3>1, <3>2, <3>3 DEF IInv, ShapeInv, OwnerPcs
  <2>5. OwnerInv'
    BY <1>1, <1>3, <1>6, <2>1, <2>2, EndBound, Basics DEF IInv, OwnerInv, Pushing, Popping
  <2>6. ThiefInv'
    BY <1>1, <1>6, <2>1, <2>2 DEF IInv, ThiefInv, Cell, Slot, CapacityOf
  <2>7. \A i \in top .. bottom - 1 : i \in top .. End - 1 /\ i # bottom
    BY <1>1
  <2>8. HeldInv'
    <3>1. \A i \in top .. bottom - 1 : logical[i] # v /\ logical[i] \in 1 .. pushed
      <4>1. bottom \in top .. End - 1
        BY <1>1, <1>2, <1>6
      <4> QED
        BY <4>1, <2>7 DEF IInv, HeldInv
    <3>2. \A x \in 1 .. pushed : x \in Values /\ x # None
      BY Basics DEF IInv, ShapeInv, Items, Values, None
    <3>3. \A i \in top .. bottom - 1 : got'[logical[i]] = 0 /\ logical[i] # None
      BY <2>3, <2>7, <3>1, <3>2 DEF IInv, HeldInv
    <3> QED
      BY <1>1, <1>3, <2>2, <2>7, <3>1, <3>3 DEF IInv, HeldInv
  <2>9. OutInv'
    BY <1>1, <1>2, <1>6, <2>2, <2>3, Basics DEF IInv, OutInv, Pushing
  <2>a. NothingLost'
    <3>1. \A x \in 1 .. pushed : x \in Values /\ x # None
      BY Basics DEF IInv, ShapeInv, Items, Values, None
    <3>2. \A k \in top .. End - 1 : k \in top .. bottom - 1 \/ logical[k] = v
      BY <1>1
    <3>3. ASSUME NEW x \in 1 .. pushed
          PROVE  got'[x] = 1 \/ \E k \in top .. bottom - 1 : logical[k] = x
      BY <1>1, <2>3, <3>1, <3>2 DEF IInv, NothingLost
    <3> QED
      BY <1>1, <2>2, <3>3 DEF NothingLost
  <2> QED
    BY <2>4, <2>5, <2>6, <2>8, <2>9, <2>a DEF IInv
<1> QED
  BY <1>1, <1>4, <1>5, <1>6

\* The last item is the owner's if top_ has not moved; else a thief has returned it.
LEMMA PopCasStep ==
  ASSUME IInv, PopCas
  PROVE  IInv'
<1> DEFINE v == logical[bottom]
<1>1. /\ dpc[Owner] = "popcas" /\ b[Owner] = bottom /\ t[Owner] = bottom /\ End = bottom + 1
      /\ item[Owner] = v /\ top >= bottom /\ top <= bottom + 1
      /\ UNCHANGED <<bottom, arrays, current, b, t, arr, pushed, logical, got>>
      /\ dpc' = [dpc EXCEPT ![Owner] = "popfix"]
  BY Basics, EndBound DEF IInv, PopCas, OwnerInv, Popping, End, DequeGoto
<1>2. /\ dpc'[Owner] = "popfix" /\ End' = End /\ bottom + 1 \in Indices
      /\ \A p \in Thieves : dpc'[p] = dpc[p]
  <2>1. Owner \in Users /\ \A p \in Thieves : p \in Users /\ p # Owner
    BY Basics DEF IInv
  <2>2. dpc'[Owner] = "popfix" /\ \A p \in Thieves : dpc'[p] = dpc[p]
    BY <1>1, <2>1 DEF IInv, ShapeInv
  <2>3. bottom + 1 \in Indices
    <3>1. End <= MaxPush /\ bottom \in Nat /\ MaxPush \in Nat
      BY EndBound, Basics DEF IInv
    <3> QED
      BY <1>1, <3>1 DEF Indices
  <2>4. End' = End
    BY <1>1, <2>2 DEF End
  <2> QED
    BY <2>2, <2>3, <2>4
<1>3. CapacityOf(current)' = CapacityOf(current) /\ \A i : Cell(current, i)' = Cell(current, i)
  BY <1>1 DEF CapacityOf, Cell, Slot
<1>4. dpc' \in [Users -> OwnerPcs \union ThiefPcs]
  BY <1>1 DEF IInv, ShapeInv, OwnerPcs
<1>5. CASE top = bottom
  <2>1. top' = bottom + 1 /\ UNCHANGED item
    BY <1>1, <1>5 DEF PopCas
  <2>2. v \in 1 .. pushed /\ v \in Items /\ got[v] = 0
    <3>1. bottom \in top .. End - 1
      BY <1>1, <1>5, Basics DEF IInv
    <3>2. v \in 1 .. pushed /\ got[v] = 0
      BY <3>1 DEF IInv, HeldInv
    <3> QED
      BY <3>2, Basics DEF IInv, ShapeInv, Items
  <2>3. ShapeInv'
    BY <1>1, <1>2, <1>4, <2>1 DEF IInv, ShapeInv, OwnerPcs
  <2>4. OwnerInv'
    BY <1>1, <1>2, <1>3, <2>1, <2>2, EndBound, Basics DEF IInv, OwnerInv, Pushing, Popping
  <2>5. ThiefInv'
    <3>1. \A p \in Thieves : dpc[p] # "idle" => t[p] \in Nat /\ t[p] <= bottom
      BY <1>5, Basics DEF IInv, ThiefInv
    <3> QED
      BY <1>1, <1>2, <2>1, <3>1, Basics DEF IInv, ThiefInv
  <2>6. HeldInv'
    BY <1>1, <1>2, <2>1, Basics DEF IInv, HeldInv
  <2>7. OutInv'
    BY <1>1, <1>2, <2>1, <2>2 DEF IInv, OutInv, Pushing
  <2>8. NothingLost'
    <3>1. \A k \in top .. End - 1 : k = bottom
      BY <1>1, <1>5, Basics DEF IInv
    <3> QED
      BY <1>1, <2>1, <3>1 DEF IInv, NothingLost
  <2> QED
    BY <2>3, <2>4, <2>5, <2>6, <2>7, <2>8 DEF IInv
<1>6. CASE top # bottom
  <2>1. UNCHANGED top /\ item' = [item EXCEPT ![Owner] = None] /\ top = bottom + 1
    BY <1>1, <1>6, Basics DEF IInv, PopCas
  <2>2. /\ item'[Owner] = None /\ got[v] = 1
        /\ \A p \in Thieves : item'[p] = item[p]
    BY <1>1, <2>1, Basics DEF IInv, ShapeInv, OutInv
  <2>3. ShapeInv'
    <3>1. item' \in [Users -> Values]
      BY <2>1, Basics DEF IInv, ShapeInv
    <3> QED
      BY <1>1, <1>2, <1>4, <2>1, <3>1 DEF IInv, ShapeInv, OwnerPcs
  <2>4. OwnerInv'
    BY <1>1, <1>2, <1>3, <2>1, <2>2, EndBound, Basics DEF IInv, OwnerInv, Pushing, Popping
  <2>5. ThiefInv'
    BY <1>1, <1>2, <2>1, <2>2 DEF IInv, ThiefInv, Cell, Slot, CapacityOf
  <2>6. HeldInv'
    BY <1>1, <1>2, <2>1, Basics DEF IInv, HeldInv
  <2>7. OutInv'
    BY <1>1, <1>2, <2>1, <2>2 DEF IInv, OutInv, Pushing
  <2>8. NothingLost'
    BY <1>1, <1>2, <2>1, <2>2 DEF IInv, NothingLost
  <2> QED
    BY <2>3, <2>4, <2>5, <2>6, <2>7, <2>8 DEF IInv
<1> QED
  BY <1>5, <1>6

\* pop() restores bottom_ and returns what it won, which had not come out.
LEMMA PopFixStep ==
  ASSUME IInv, PopFix
  PROVE  IInv'
<1> DEFINE v == item[Owner]
<1>1. /\ dpc[Owner] = "popfix" /\ b[Owner] = bottom /\ End = bottom + 1 /\ top = bottom + 1
      /\ v \in (1 .. pushed) \union {None} /\ bottom' = bottom + 1
      /\ UNCHANGED <<top, arrays, current, arr, pushed, logical>>
      /\ b' = [b EXCEPT ![Owner] = 0] /\ t' = [t EXCEPT ![Owner] = 0]
      /\ item' = [item EXCEPT ![Owner] = None] /\ dpc' = [dpc EXCEPT ![Owner] = "idle"]
  BY Basics DEF IInv, PopFix, OwnerInv, Popping, End, Return, DequeGoto
<1>2. /\ dpc'[Owner] = "idle" /\ End' = End /\ item'[Owner] = None
      /\ bottom + 1 \in Indices /\ 0 \in Indices
      /\ \A p \in Thieves : dpc'[p] = dpc[p] /\ t'[p] = t[p] /\ item'[p] = item[p]
  <2>1. Owner \in Users /\ \A p \in Thieves : p \in Users /\ p # Owner
    BY Basics DEF IInv
  <2>2. dpc'[Owner] = "idle" /\ item'[Owner] = None
    BY <1>1, <2>1 DEF IInv, ShapeInv
  <2>3. \A p \in Thieves : dpc'[p] = dpc[p] /\ t'[p] = t[p] /\ item'[p] = item[p]
    BY <1>1, <2>1 DEF IInv, ShapeInv
  <2>4. bottom + 1 \in Indices /\ 0 \in Indices
    <3>1. End <= MaxPush /\ bottom \in Nat /\ MaxPush \in Nat
      BY EndBound, Basics DEF IInv
    <3> QED
      BY <1>1, <3>1 DEF Indices
  <2>5. End' = End
    BY <1>1, <2>2 DEF End
  <2> QED
    BY <2>2, <2>3, <2>4, <2>5
<1>3. \A w \in Values : got'[w] = IF w = v /\ v # None THEN 1 ELSE got[w]
  <2>1. v # None => got[v] = 0
    BY <1>1 DEF IInv, OutInv
  <2> QED
    BY <2>1 DEF IInv, ShapeInv, PopFix, Return
<1>4. ShapeInv'
  <2>1. b' \in [Users -> Indices] /\ t' \in [Users -> Indices]
    BY <1>1, <1>2 DEF IInv, ShapeInv
  <2>2. item' \in [Users -> Values]
    BY <1>1, Basics DEF IInv, ShapeInv
  <2>3. got' \in [Values -> Nat]
    <3>1. got' = IF v = None THEN got ELSE [got EXCEPT ![v] = @ + 1]
      BY DEF PopFix, Return
    <3>2. v \in Values
      BY Basics DEF IInv, ShapeInv
    <3> HIDE DEF v
    <3>3. got \in [Values -> Nat] /\ got[v] + 1 \in Nat
      BY <3>2 DEF IInv, ShapeInv
    <3> QED
      BY <3>1, <3>3
  <2>4. dpc' \in [Users -> OwnerPcs \union ThiefPcs]
    BY <1>1 DEF IInv, ShapeInv, OwnerPcs
  <2> QED
    BY <1>1, <1>2, <2>1, <2>2, <2>3, <2>4 DEF IInv, ShapeInv, OwnerPcs
<1>5. OwnerInv'
  <2>1. CapacityOf(current)' = CapacityOf(current)
    BY <1>1 DEF CapacityOf
  <2> QED
    BY <1>1, <1>2, <2>1, EndBound, Basics DEF IInv, OwnerInv, Pushing, Popping
<1>6. ThiefInv'
  BY <1>1, <1>2 DEF IInv, ThiefInv, Cell, Slot, CapacityOf
<1>7. HeldInv'
  BY <1>1, <1>2, Basics DEF IInv, HeldInv
<1>8. OutInv'
  <2>1. \A w \in Items : w \in Values /\ (w > pushed => w # v)
    <3>1. v = None \/ v \in 1 .. pushed
      BY <1>1
    <3> HIDE DEF v
    <3> QED
      BY <3>1, Basics DEF IInv
  <2>2. \A w \in Items : got'[w] \in {0, 1} /\ (w > pushed' => got'[w] = 0)
    BY <1>1, <1>3, <2>1 DEF IInv, OutInv
  <2>3. Torn # v \/ v = None
    BY <1>1, <2>1, Basics DEF IInv, ShapeInv, Items
  <2>4. got'[Torn] = 0
    BY <1>3, <2>3, Basics DEF IInv, OutInv
  <2> QED
    BY <1>2, <2>2, <2>4 DEF OutInv, Pushing
<1>9. NothingLost'
  <2>1. \A x \in 1 .. pushed : x \in Values /\ x # None
    BY Basics DEF IInv, ShapeInv, Items, Values, None
  <2>2. ASSUME NEW x \in 1 .. pushed
        PROVE  got'[x] = 1 \/ \E k \in top .. End - 1 : logical[k] = x
    BY <1>3, <2>1 DEF IInv, NothingLost
  <2> QED
    BY <1>1, <1>2, <2>2 DEF NothingLost
<1> QED
  BY <1>4, <1>5, <1>6, <1>7, <1>8, <1>9 DEF IInv

-----------------------------------------------------------------------------
(* The invariant, and what follows from it.                                *)

\* The constructor makes the invariant true.
LEMMA InitInv ==
  ASSUME DequeInit
  PROVE  IInv
<1>1. CapacityOf(1) = InitCap /\ InitCap \in Sizes
  <2>1. Cardinality(DOMAIN [k \in 0 .. InitCap - 1 |-> None]) = InitCap
    BY DequeSizesAssumption, FS_Interval
  <2> QED
    BY <2>1, DequeSizesAssumption DEF DequeInit, CapacityOf, Sizes
<1>2. ShapeInv
  <2>1. None \in Values /\ 0 \in Indices /\ Owner \in Users /\ 0 \in 0 .. MaxPush
    BY DequeSizesAssumption DEF Values, Indices, Users
  <2>2. arrays \in Seq(Arrays) /\ Len(arrays) = 1
    <3>1. [k \in 0 .. InitCap - 1 |-> None] \in Arrays
      BY <1>1, <2>1 DEF Arrays
    <3> QED
      BY <3>1 DEF DequeInit
  <2>3. \A p \in Thieves : p \in Users
    BY DEF Users
  <2> QED
    BY <2>1, <2>2, <2>3 DEF DequeInit, ShapeInv, OwnerPcs, ThiefPcs
<1>3. End = 0 /\ dpc[Owner] = "idle" /\ item[Owner] = None /\ top = 0 /\ pushed = 0
  BY <1>2, Basics DEF DequeInit, End
<1>4. OwnerInv
  <2>1. InitCap \in Nat /\ current = 1
    BY DequeSizesAssumption DEF DequeInit
  <2> QED
    BY <1>1, <1>3, <2>1 DEF OwnerInv, Pushing, Popping
<1>5. ThiefInv
  BY <1>2, Basics DEF DequeInit, ThiefInv
<1>6. HeldInv
  BY <1>3 DEF HeldInv
<1>7. OutInv
  BY <1>2, <1>3, Basics DEF DequeInit, OutInv, Pushing
<1>8. NothingLost
  BY <1>3 DEF NothingLost
<1> QED
  BY <1>2, <1>4, <1>5, <1>6, <1>7, <1>8 DEF IInv

\* Every step of every thread keeps it.
LEMMA InductiveStep ==
  ASSUME IInv, [DequeNext]_dequeVars
  PROVE  IInv'
<1>1. CASE UNCHANGED dequeVars
  <2>1. ShapeInv'
    BY <1>1 DEF IInv, ShapeInv, dequeVars
  <2>2. \A p \in Thieves : UNCHANGED <<dpc[p], t[p], item[p], arr[p]>>
    BY <1>1 DEF dequeVars
  <2>3. ThiefInv'
    BY <1>1 DEF IInv, ThiefInv, End, dequeVars, Cell, Slot, CapacityOf
  <2>4. OwnerInv' /\ HeldInv' /\ OutInv' /\ NothingLost'
    BY <1>1, OwnerFrame DEF dequeVars
  <2> QED
    BY <2>1, <2>3, <2>4 DEF IInv
<1>2. CASE DequeNext
  <2>1. ASSUME NEW p \in Thieves, ThiefStep(p) PROVE IInv'
    BY <2>1, StealTopStep, StealBottomStep, StealArrayStep, StealGetStep, StealCasStep
       DEF ThiefStep
  <2>2. CASE OwnerStep
    BY <2>2, PushLoadStep, GrowStep, PutBeginStep, PutEndStep, PushBottomStep,
       PopReserveStep, PopTopStep, PopCasStep, PopFixStep DEF OwnerStep
  <2> QED
    BY <1>2, <2>1, <2>2 DEF DequeNext
<1> QED
  BY <1>1, <1>2

\* So it holds always.
LEMMA Invariance == DequeSpec => []IInv
<1>1. DequeInit => IInv
  BY InitInv
<1>2. IInv /\ [DequeNext]_dequeVars => IInv'
  BY InductiveStep
<1> QED
  BY <1>1, <1>2, PTL DEF DequeSpec

\* No item is returned twice, whatever the thieves' compare-exchanges and the owner's pops
\* do to each other, and no slot that push is writing is returned.
THEOREM EachItemOnce == DequeSpec => []ReturnedOnce
<1>1. IInv => ReturnedOnce
  BY DEF IInv, OutInv, ReturnedOnce
<1> QED
  BY <1>1, Invariance, PTL

\* The thief that wins the compare-exchange on top_ holds the item that is there, also when
\* it has read it from an array that grow() has replaced since.
THEOREM StaleArraysAreHarmless == DequeSpec => []WinnerHoldsTop
<1>1. IInv => WinnerHoldsTop
  BY DEF IInv, ThiefInv, WinnerHoldsTop
<1> QED
  BY <1>1, Invariance, PTL

\* What push() put in is in the array where pop() and steal() look for it, until one of
\* them has returned it, and bottom_ never falls below zero.
THEOREM NothingIsLost == DequeSpec => []ContentInv
<1>1. ASSUME IInv PROVE ContentInv
  <2>1. DequeTypeOK
    <3>1. \A k \in DOMAIN arrays : \E n \in 1 .. 2 * InitCap + 2 * MaxPush :
            arrays[k] \in [0 .. n - 1 -> Values]
      <4>1. \A k \in DOMAIN arrays : arrays[k] \in Arrays
        BY <1>1 DEF IInv, ShapeInv
      <4> QED
        BY <4>1 DEF Arrays, Sizes
    <3>2. DOMAIN arrays = 1 .. current /\ current \in DOMAIN arrays
      BY <1>1 DEF IInv, ShapeInv
    <3> QED
      BY <1>1, <3>1, <3>2 DEF IInv, ShapeInv, DequeTypeOK
  <2>2. ArrayHoldsContent
    BY <1>1 DEF IInv, HeldInv, ArrayHoldsContent, Cell
  <2> QED
    BY <1>1, <2>1, <2>2 DEF IInv, ContentInv
<1> QED
  BY <1>1, Invariance, PTL

-----------------------------------------------------------------------------
(* The refinement: what the steps do to the content.                       *)

\* The values of f from index lo up to hi, which is not included.
Segment(f, lo, hi) == [k \in 1 .. hi - lo |-> f[lo + k - 1]]

\* A segment is a sequence of its values.
LEMMA SegmentFacts ==
  ASSUME NEW f, NEW lo \in Nat, NEW hi \in Nat, lo <= hi,
         \A i \in lo .. hi - 1 : f[i] \in Items
  PROVE  /\ Segment(f, lo, hi) \in Seq(Items) /\ Len(Segment(f, lo, hi)) = hi - lo
         /\ \A k \in 1 .. hi - lo : Segment(f, lo, hi)[k] = f[lo + k - 1]
<1>1. PICK n \in Nat : n = hi - lo
  OBVIOUS
<1>2. \A k \in 1 .. n : lo + k - 1 \in lo .. hi - 1
  BY <1>1
<1>3. Segment(f, lo, hi) \in [1 .. n -> Items]
  BY <1>1, <1>2 DEF Segment
<1>4. Segment(f, lo, hi) \in Seq(Items) /\ Len(Segment(f, lo, hi)) = n
  BY <1>3
<1> QED
  BY <1>1, <1>4 DEF Segment

\* Without its first value.
LEMMA SegmentTail ==
  ASSUME NEW f, NEW lo \in Nat, NEW hi \in Nat, lo < hi,
         \A i \in lo .. hi - 1 : f[i] \in Items
  PROVE  /\ Segment(f, lo, hi) # <<>> /\ Head(Segment(f, lo, hi)) = f[lo]
         /\ Tail(Segment(f, lo, hi)) = Segment(f, lo + 1, hi)
<1> DEFINE s == Segment(f, lo, hi)
           r == Segment(f, lo + 1, hi)
<1>1. /\ s \in Seq(Items) /\ Len(s) = hi - lo
      /\ \A k \in 1 .. hi - lo : s[k] = f[lo + k - 1]
  <2>1. lo <= hi /\ \A i \in lo .. hi - 1 : f[i] \in Items
    OBVIOUS
  <2> QED
    BY <2>1, SegmentFacts
<1>2. /\ r \in Seq(Items) /\ Len(r) = hi - lo - 1
      /\ \A k \in 1 .. hi - lo - 1 : r[k] = f[lo + k]
  <2>1. PICK m \in Nat : m = lo + 1 /\ m <= hi
    OBVIOUS
  <2>2. \A i \in m .. hi - 1 : f[i] \in Items
    BY <2>1
  <2>3. /\ r \in Seq(Items) /\ Len(r) = hi - m
        /\ \A k \in 1 .. hi - m : r[k] = f[m + k - 1]
    BY <2>1, <2>2, SegmentFacts
  <2>4. \A k \in 1 .. hi - lo - 1 : k \in 1 .. hi - m /\ m + k - 1 = lo + k
    BY <2>1
  <2> QED
    BY <2>1, <2>3, <2>4
<1> HIDE DEF s, r
<1>3. s # <<>> /\ Head(s) = s[1]
  BY <1>1
<1>4. /\ Tail(s) \in Seq(Items) /\ Len(Tail(s)) = hi - lo - 1
      /\ \A k \in 1 .. hi - lo - 1 : Tail(s)[k] = s[k + 1]
  BY <1>1, <1>3, HeadTailProperties
<1>5. \A k \in 1 .. hi - lo - 1 : s[k + 1] = f[lo + k]
  BY <1>1
<1>6. Tail(s) = r
  BY <1>2, <1>4, <1>5, SeqEqual
<1>7. s[1] = f[lo]
  BY <1>1
<1> QED
  BY <1>3, <1>6, <1>7 DEF s, r

\* Without its last value.
LEMMA SegmentFront ==
  ASSUME NEW f, NEW lo \in Nat, NEW hi \in Nat, lo < hi,
         \A i \in lo .. hi - 1 : f[i] \in Items
  PROVE  /\ Segment(f, lo, hi) # <<>>
         /\ Segment(f, lo, hi)[Len(Segment(f, lo, hi))] = f[hi - 1]
         /\ SubSeq(Segment(f, lo, hi), 1, Len(Segment(f, lo, hi)) - 1) = Segment(f, lo, hi - 1)
<1> DEFINE s == Segment(f, lo, hi)
           r == Segment(f, lo, hi - 1)
<1>1. /\ s \in Seq(Items) /\ Len(s) = hi - lo
      /\ \A k \in 1 .. hi - lo : s[k] = f[lo + k - 1]
  BY SegmentFacts
<1>2. /\ r \in Seq(Items) /\ Len(r) = hi - 1 - lo
      /\ \A k \in 1 .. hi - 1 - lo : r[k] = f[lo + k - 1]
  <2>1. PICK m \in Nat : m = hi - 1 /\ lo <= m
    OBVIOUS
  <2>2. \A i \in lo .. m - 1 : f[i] \in Items
    BY <2>1
  <2>3. /\ Segment(f, lo, m) \in Seq(Items) /\ Len(Segment(f, lo, m)) = m - lo
        /\ \A k \in 1 .. m - lo : Segment(f, lo, m)[k] = f[lo + k - 1]
    <3>1. lo \in Nat /\ m \in Nat /\ lo <= m
      BY <2>1
    <3> HIDE DEF r
    <3> QED
      BY <3>1, <2>2, SegmentFacts
  <2>4. Segment(f, lo, m) = r /\ m - lo = hi - 1 - lo
    BY <2>1
  <2> HIDE DEF r
  <2> QED
    BY <2>3, <2>4
<1> HIDE DEF s, r
<1>3. PICK n \in Nat : n = hi - 1 - lo
  OBVIOUS
<1>4. Len(s) - 1 = n /\ s # <<>> /\ Len(s) = n + 1
  BY <1>1, <1>3
<1>5. s[n + 1] = f[hi - 1]
  BY <1>1, <1>3
<1>6. /\ SubSeq(s, 1, n) \in Seq(Items) /\ Len(SubSeq(s, 1, n)) = n
      /\ \A k \in 1 .. n : SubSeq(s, 1, n)[k] = s[k]
  BY <1>1, <1>4
<1>7. SubSeq(s, 1, n) = r
  <2>1. ASSUME NEW k \in 1 .. n
        PROVE  SubSeq(s, 1, n)[k] = r[k]
    <3>1. k \in 1 .. hi - lo /\ k \in 1 .. hi - 1 - lo
      BY <1>3
    <3>2. s[k] = f[lo + k - 1] /\ r[k] = f[lo + k - 1]
      BY <1>1, <1>2, <3>1
    <3> QED
      BY <1>6, <3>2
  <2>2. Len(r) = n
    BY <1>2, <1>3
  <2> QED
    BY <1>2, <1>6, <2>1, <2>2, SeqEqual
<1> QED
  BY <1>4, <1>5, <1>7 DEF s, r

\* With a value more.
LEMMA SegmentAppend ==
  ASSUME NEW f, NEW g, NEW lo \in Nat, NEW hi \in Nat, lo <= hi,
         \A i \in lo .. hi - 1 : f[i] \in Items /\ g[i] = f[i], g[hi] \in Items
  PROVE  Segment(g, lo, hi + 1) = Append(Segment(f, lo, hi), g[hi])
<1> DEFINE s == Segment(f, lo, hi)
           r == Segment(g, lo, hi + 1)
<1>1. /\ s \in Seq(Items) /\ Len(s) = hi - lo
      /\ \A k \in 1 .. hi - lo : s[k] = f[lo + k - 1]
  <2>1. lo <= hi /\ \A i \in lo .. hi - 1 : f[i] \in Items
    OBVIOUS
  <2> QED
    BY <2>1, SegmentFacts
<1>2. /\ r \in Seq(Items) /\ Len(r) = hi + 1 - lo
      /\ \A k \in 1 .. hi + 1 - lo : r[k] = g[lo + k - 1]
  <2>1. \A i \in lo .. hi + 1 - 1 : g[i] \in Items
    <3>1. \A i \in lo .. hi + 1 - 1 : i = hi \/ i \in lo .. hi - 1
      OBVIOUS
    <3> QED
      BY <3>1
  <2> QED
    BY <2>1, SegmentFacts
<1> HIDE DEF s, r
<1>3. PICK n \in Nat : n = hi - lo
  OBVIOUS
<1>4. /\ Append(s, g[hi]) \in Seq(Items) /\ Len(Append(s, g[hi])) = n + 1
      /\ \A k \in 1 .. n : Append(s, g[hi])[k] = s[k]
      /\ Append(s, g[hi])[n + 1] = g[hi]
  BY <1>1, <1>3, AppendProperties
<1>5. \A k \in 1 .. n + 1 : r[k] = Append(s, g[hi])[k]
  <2>1. \A k \in 1 .. n : lo + k - 1 \in lo .. hi - 1
    BY <1>3
  <2>2. \A k \in 1 .. n : r[k] = s[k]
    BY <1>1, <1>2, <1>3, <2>1
  <2>3. r[n + 1] = g[hi]
    BY <1>2, <1>3
  <2>4. \A k \in 1 .. n + 1 : k = n + 1 \/ k \in 1 .. n
    OBVIOUS
  <2> QED
    BY <1>4, <2>2, <2>3, <2>4
<1>6. r = Append(s, g[hi])
  BY <1>2, <1>3, <1>4, <1>5, SeqEqual
<1> QED
  BY <1>6 DEF s, r

\* The content is the segment of the pushed items from top_ to the end.
LEMMA ContentIsSegment ==
  ASSUME IInv
  PROVE  /\ Content = Segment(logical, top, End)
         /\ \A i \in top .. End - 1 : logical[i] \in Items
         /\ top \in Nat /\ End \in Nat /\ top <= End
<1>1. \A i \in top .. End - 1 : logical[i] \in 1 .. pushed
  BY DEF IInv, HeldInv
<1>2. \A x \in 1 .. pushed : x \in Items
  BY Basics DEF IInv, ShapeInv, Items
<1> QED
  BY <1>1, <1>2, Basics, EndBound DEF IInv, Content, Segment

\* The step that delivers v, and those that deliver nothing.
LEMMA DeliveredFacts ==
  ASSUME IInv
  PROVE  \A i \in Items : /\ got[i] \in Nat
                          /\ dpc[Owner] = "popfix" /\ item[Owner] = i => Delivered[i] = got[i] + 1
                          /\ ~(dpc[Owner] = "popfix" /\ item[Owner] = i) => Delivered[i] = got[i]
<1>1. \A i \in Items : got[i] \in Nat
  BY Basics DEF IInv, ShapeInv
<1> QED
  BY <1>1 DEF Delivered

\* A step that moves neither end of the content and returns nothing is invisible.
LEMMA Hidden ==
  ASSUME UNCHANGED <<top, logical, got, End>>,
         \A i \in Items : (dpc'[Owner] = "popfix" /\ item'[Owner] = i)
                            <=> (dpc[Owner] = "popfix" /\ item[Owner] = i)
  PROVE  UNCHANGED Abstract!vars
<1>1. Content' = Content
  BY DEF Content
<1>2. Delivered' = Delivered
  BY DEF Delivered
<1> QED
  BY <1>1, <1>2 DEF Abstract!vars

\* The steps of the thieves that take nothing, and those of the owner that do not.
LEMMA ThiefHidden ==
  ASSUME IInv, NEW p \in Thieves, ThiefStep(p), ~(StealCas(p) /\ top = t[p])
  PROVE  UNCHANGED Abstract!vars
<1>1. UNCHANGED <<top, bottom, logical, got>>
  BY DEF ThiefStep, StealTop, StealBottom, StealArray, StealGet, StealCas, Return
<1>2. dpc'[Owner] = dpc[Owner] /\ item'[Owner] = item[Owner]
  BY Basics DEF IInv, ShapeInv, ThiefStep, StealTop, StealBottom, StealArray, StealGet,
                StealCas, Return, DequeGoto
<1>3. UNCHANGED End
  BY <1>1, <1>2 DEF End
<1> QED
  BY <1>1, <1>2, <1>3, Hidden

\* The winning thief's compare-exchange is StealTop.
LEMMA StealIsAbstract ==
  ASSUME IInv, NEW p \in Thieves, StealCas(p), top = t[p]
  PROVE  Abstract!StealTop
<1> DEFINE v == logical[top]
<1>1. item[p] = v /\ top < End
  BY Basics, EndBound DEF IInv, ThiefInv, StealCas
<1>2. v \in Items /\ v # None
  BY <1>1, ContentIsSegment, Basics DEF IInv
<1>3. /\ top' = top + 1 /\ got' = [got EXCEPT ![v] = @ + 1] /\ UNCHANGED <<bottom, logical>>
      /\ dpc' = [dpc EXCEPT ![p] = "idle"] /\ item' = [item EXCEPT ![p] = None]
  BY <1>1, <1>2 DEF StealCas, Return, DequeGoto
<1>4. dpc'[Owner] = dpc[Owner] /\ item'[Owner] = item[Owner] /\ End' = End
  BY <1>3, Basics DEF IInv, ShapeInv, End
<1>5. Content' = Segment(logical, top + 1, End)
  BY <1>3, <1>4 DEF Content, Segment
<1>6. Content # <<>> /\ Head(Content) = v /\ Content' = Tail(Content)
  BY <1>1, <1>5, ContentIsSegment, SegmentTail
<1>7. Delivered' = [Delivered EXCEPT ![v] = @ + 1]
  <2>1. \A i \in Items : got'[i] = IF i = v THEN got[i] + 1 ELSE got[i]
    BY <1>2, <1>3, Basics DEF IInv, ShapeInv
  <2>2. \A i \in Items : got[i] \in Nat
    BY Basics DEF IInv, ShapeInv
  <2> DEFINE one(i) == IF dpc[Owner] = "popfix" /\ item[Owner] = i THEN 1 ELSE 0
  <2>3. \A i \in Items : one(i) \in Nat
    OBVIOUS
  <2>4. /\ Delivered = [i \in Items |-> got[i] + one(i)]
        /\ Delivered' = [i \in Items |-> got'[i] + one(i)]
    BY <1>4 DEF Delivered
  <2> HIDE DEF one
  <2>5. Delivered' = [i \in Items |-> IF i = v THEN Delivered[i] + 1 ELSE Delivered[i]]
    BY <2>1, <2>2, <2>3, <2>4
  <2> QED
    BY <2>4, <2>5
<1> QED
  BY <1>6, <1>7 DEF Abstract!StealTop, Abstract!Deliver

\* The store of bottom_ that ends a push is PushBottom.
LEMMA PushIsAbstract ==
  ASSUME IInv, PushBottom
  PROVE  Abstract!PushBottom
<1>1. /\ dpc[Owner] = "pushed" /\ UNCHANGED <<top, got>>
      /\ bottom' = b[Owner] + 1 /\ logical' = [logical EXCEPT ![b[Owner]] = item[Owner]]
      /\ item' = [item EXCEPT ![Owner] = None] /\ dpc' = [dpc EXCEPT ![Owner] = "idle"]
  BY DEF PushBottom, Return, DequeGoto
<1>2. /\ b[Owner] = bottom /\ item[Owner] = pushed /\ pushed \in Items /\ End = bottom
      /\ bottom \in Indices
  BY <1>1, Basics DEF IInv, ShapeInv, OwnerInv, Pushing, Items, End
<1>3. /\ dpc'[Owner] = "idle" /\ End' = bottom + 1 /\ logical'[bottom] = pushed
      /\ \A i \in Indices : i # bottom => logical'[i] = logical[i]
  BY <1>1, <1>2, Basics DEF IInv, ShapeInv, End
<1>4. Content' = Segment(logical', top, bottom + 1)
  BY <1>1, <1>3 DEF Content, Segment
<1>5. Content' = Append(Content, pushed)
  <2>1. \A i \in top .. bottom - 1 : logical[i] \in Items /\ logical'[i] = logical[i]
    BY <1>2, <1>3, EndBound, ContentIsSegment DEF IInv
  <2>2. top \in Nat /\ bottom \in Nat /\ top <= bottom /\ Content = Segment(logical, top, bottom)
    BY <1>2, ContentIsSegment
  <2>3. logical'[bottom] \in Items
    BY <1>2, <1>3
  <2>4. Segment(logical', top, bottom + 1)
          = Append(Segment(logical, top, bottom), logical'[bottom])
    <3>1. PICK g : g = logical'
      OBVIOUS
    <3>2. /\ g[bottom] \in Items
          /\ \A i \in top .. bottom - 1 : logical[i] \in Items /\ g[i] = logical[i]
      BY <2>1, <2>3, <3>1
    <3> QED
      BY <2>2, <3>1, <3>2, SegmentAppend
  <2> QED
    BY <1>3, <1>4, <2>2, <2>4
<1>6. Delivered' = Delivered
  BY <1>1, <1>3 DEF Delivered
<1> QED
  BY <1>2, <1>5, <1>6 DEF Abstract!PushBottom

\* A pop takes effect where it can no longer fail: in the load of top_ if there is more
\* than one item, in the compare-exchange if there is one.
LEMMA PopTopIsAbstract ==
  ASSUME IInv, PopTop, top < b[Owner]
  PROVE  Abstract!PopBottom
<1> DEFINE v == logical[bottom]
<1>1. /\ dpc[Owner] = "poptop" /\ b[Owner] = bottom /\ End = bottom + 1 /\ top < bottom
      /\ top \in Nat /\ bottom \in Nat /\ UNCHANGED <<top, bottom, logical>>
  BY Basics DEF IInv, PopTop, OwnerInv, Popping, End
<1>2. bottom \in top .. End - 1 /\ Cell(current, bottom) = v
  <2>1. bottom \in top .. End - 1
    BY <1>1
  <2> QED
    BY <2>1 DEF IInv, HeldInv
<1>3. v \in Items /\ v # None
  BY <1>2, ContentIsSegment, Basics DEF IInv
<1>4. got' = [got EXCEPT ![v] = @ + 1] /\ dpc' = [dpc EXCEPT ![Owner] = "idle"]
  <2>1. Return(Owner, v)
    BY <1>1, <1>2 DEF PopTop, Cell
  <2> HIDE DEF v
  <2> QED
    BY <2>1, <1>3 DEF Return, DequeGoto
<1>5. dpc'[Owner] = "idle" /\ End' = bottom
  BY <1>1, <1>4, Basics DEF IInv, ShapeInv, End
<1>6. Content' = Segment(logical, top, bottom)
  BY <1>1, <1>5 DEF Content, Segment
<1>7. /\ Content # <<>> /\ Content[Len(Content)] = v
      /\ Content' = SubSeq(Content, 1, Len(Content) - 1)
  <2>1. /\ Content # <<>> /\ Content[Len(Content)] = logical[End - 1]
        /\ SubSeq(Content, 1, Len(Content) - 1) = Segment(logical, top, End - 1)
    <3>1. top < End
      BY <1>1
    <3> QED
      BY <3>1, ContentIsSegment, SegmentFront
  <2> QED
    BY <1>1, <1>6, <2>1
<1>8. Delivered' = [Delivered EXCEPT ![v] = @ + 1]
  <2>1. \A i \in Items : got'[i] = IF i = v THEN got[i] + 1 ELSE got[i]
    BY <1>3, <1>4, Basics DEF IInv, ShapeInv
  <2>2. /\ \A i \in Items : Delivered[i] = got[i]
        /\ Delivered = [i \in Items |-> Delivered[i]]
    BY <1>1, DeliveredFacts DEF Delivered
  <2>3. Delivered' = [i \in Items |-> got'[i]]
    <3>1. \A i \in Items : got'[i] \in Nat
      BY <2>1, DeliveredFacts
    <3> QED
      BY <1>5, <3>1 DEF Delivered
  <2> QED
    BY <2>1, <2>2, <2>3
<1> QED
  BY <1>7, <1>8 DEF Abstract!PopBottom, Abstract!Deliver

\* The compare-exchange that wins the last item is PopBottom.
LEMMA PopCasIsAbstract ==
  ASSUME IInv, PopCas, top = t[Owner]
  PROVE  Abstract!PopBottom
<1> DEFINE v == logical[bottom]
<1>1. /\ dpc[Owner] = "popcas" /\ item[Owner] = v /\ End = bottom + 1 /\ top = bottom
      /\ bottom \in Nat /\ UNCHANGED <<bottom, logical, got, item>> /\ top' = bottom + 1
      /\ dpc' = [dpc EXCEPT ![Owner] = "popfix"]
  BY Basics DEF IInv, PopCas, OwnerInv, End, DequeGoto
<1>2. v \in Items
  BY <1>1, ContentIsSegment
<1>3. dpc'[Owner] = "popfix" /\ End' = bottom + 1 /\ item'[Owner] = v
  BY <1>1, Basics DEF IInv, ShapeInv, End
<1>4. Content' = <<>>
  BY <1>1, <1>3 DEF Content
<1>5. /\ Content # <<>> /\ Content[Len(Content)] = logical[End - 1]
      /\ SubSeq(Content, 1, Len(Content) - 1) = Segment(logical, top, End - 1)
  <2>1. top < End
    BY <1>1
  <2> QED
    BY <2>1, ContentIsSegment, SegmentFront
<1>6. /\ Content[Len(Content)] = v
      /\ SubSeq(Content, 1, Len(Content) - 1) = <<>>
  <2>1. Segment(logical, top, End - 1) = <<>>
    BY <1>1 DEF Segment
  <2> QED
    BY <1>1, <1>5, <2>1
<1>7. Delivered' = [Delivered EXCEPT ![v] = @ + 1]
  <2>1. /\ \A i \in Items : Delivered[i] = got[i] /\ got[i] \in Nat
        /\ Delivered = [i \in Items |-> Delivered[i]]
    BY <1>1, DeliveredFacts DEF Delivered
  <2>2. Delivered' = [i \in Items |-> IF i = v THEN got[i] + 1 ELSE got[i]]
    <3>1. Delivered' = [i \in Items |-> got[i] + (IF item'[Owner] = i THEN 1 ELSE 0)]
      BY <1>1, <1>3 DEF Delivered
    <3> QED
      BY <1>3, <2>1, <3>1
  <2> QED
    BY <2>1, <2>2
<1> QED
  BY <1>4, <1>5, <1>6, <1>7 DEF Abstract!PopBottom, Abstract!Deliver

\* The other steps of the owner change neither the content nor what was delivered.
LEMMA OwnerHidden ==
  ASSUME IInv, PushLoad \/ Grow \/ PutBegin \/ PutEnd \/ PopReserve
  PROVE  UNCHANGED Abstract!vars
<1>1. UNCHANGED <<top, logical, got>>
  BY DEF PushLoad, Grow, PutBegin, PutEnd, PopReserve
<1>2. dpc[Owner] # "popfix" /\ dpc'[Owner] # "popfix"
  BY Basics DEF IInv, ShapeInv, PushLoad, Grow, PutBegin, PutEnd, PopReserve, DequeGoto
<1>3. UNCHANGED End
  <2>1. CASE PopReserve
    BY <2>1, Basics DEF IInv, ShapeInv, PopReserve, DequeGoto, End
  <2>2. CASE PushLoad \/ Grow \/ PutBegin \/ PutEnd
    BY <2>2, Basics DEF IInv, ShapeInv, PushLoad, Grow, PutBegin, PutEnd, DequeGoto, End
  <2> QED
    BY <2>1, <2>2
<1> QED
  BY <1>1, <1>2, <1>3, Hidden

\* A pop that finds nothing, or that has yet to race, or that lost, is invisible.
LEMMA PopHidden ==
  ASSUME IInv, (PopTop /\ ~(top < b[Owner])) \/ (PopCas /\ top # t[Owner])
  PROVE  UNCHANGED Abstract!vars
<1>1. /\ UNCHANGED <<top, bottom, logical, got>>
      /\ dpc[Owner] \in {"poptop", "popcas"} /\ dpc'[Owner] \in {"popcas", "popfix"}
  BY Basics DEF IInv, ShapeInv, PopTop, PopCas, DequeGoto
<1>2. dpc'[Owner] = "popfix" => item'[Owner] = None
  <2>1. CASE PopTop /\ ~(top < b[Owner])
    BY <2>1, Basics DEF IInv, ShapeInv, OwnerInv, PopTop, DequeGoto
  <2>2. CASE PopCas /\ top # t[Owner]
    BY <2>2, Basics DEF IInv, ShapeInv, PopCas
  <2> QED
    BY <2>1, <2>2
<1>3. UNCHANGED End
  BY <1>1 DEF End
<1> QED
  BY <1>1, <1>2, <1>3, Basics, Hidden DEF IInv

\* The end of a pop only hands over what was delivered before.
LEMMA PopFixHidden ==
  ASSUME IInv, PopFix
  PROVE  UNCHANGED Abstract!vars
<1> DEFINE v == item[Owner]
<1>1. /\ dpc[Owner] = "popfix" /\ b[Owner] = bottom /\ End = bottom + 1
      /\ UNCHANGED <<top, logical>> /\ bottom' = bottom + 1
      /\ got' = IF v = None THEN got ELSE [got EXCEPT ![v] = @ + 1]
      /\ dpc' = [dpc EXCEPT ![Owner] = "idle"]
  BY Basics DEF IInv, PopFix, OwnerInv, Popping, End, Return, DequeGoto
<1>2. dpc'[Owner] = "idle" /\ End' = End
  BY <1>1, Basics DEF IInv, ShapeInv, End
<1>3. Content' = Content
  BY <1>1, <1>2 DEF Content
<1>4. Delivered' = Delivered
  <2>1. \A i \in Items : got'[i] = IF i = v THEN got[i] + 1 ELSE got[i]
    BY <1>1, Basics DEF IInv, ShapeInv
  <2>2. /\ \A i \in Items : Delivered[i] = got'[i] /\ got'[i] \in Nat
        /\ Delivered = [i \in Items |-> Delivered[i]]
    BY <1>1, <2>1, DeliveredFacts DEF Delivered
  <2>3. Delivered' = [i \in Items |-> got'[i]]
    BY <1>2, <2>2 DEF Delivered
  <2> QED
    BY <2>2, <2>3
<1> QED
  BY <1>3, <1>4 DEF Abstract!vars

\* Each step of the code is a step of the abstract deque, or invisible.
LEMMA RefinementStep ==
  ASSUME IInv, [DequeNext]_dequeVars
  PROVE  [Abstract!Next]_(Abstract!vars)
<1>1. CASE UNCHANGED dequeVars
  BY <1>1, Hidden DEF dequeVars, End
<1>2. ASSUME NEW p \in Thieves, ThiefStep(p) PROVE [Abstract!Next]_(Abstract!vars)
  <2>1. CASE StealCas(p) /\ top = t[p]
    BY <2>1, StealIsAbstract DEF Abstract!Next
  <2>2. CASE ~(StealCas(p) /\ top = t[p])
    BY <1>2, <2>2, ThiefHidden
  <2> QED
    BY <2>1, <2>2
<1>3. CASE OwnerStep
  <2>1. CASE PushBottom
    BY <2>1, PushIsAbstract DEF Abstract!Next
  <2>2. CASE PopTop
    BY <2>2, PopTopIsAbstract, PopHidden DEF Abstract!Next
  <2>3. CASE PopCas
    BY <2>3, PopCasIsAbstract, PopHidden DEF Abstract!Next
  <2> QED
    BY <1>3, <2>1, <2>2, <2>3, OwnerHidden, PopFixHidden DEF OwnerStep
<1> QED
  BY <1>1, <1>2, <1>3 DEF DequeNext

\* The constructor makes the abstract deque empty.
LEMMA RefinementInit == DequeInit => Abstract!Init
<1>1. SUFFICES ASSUME DequeInit PROVE Abstract!Init
  OBVIOUS
<1>2. IInv
  BY <1>1, InitInv
<1>3. End = 0 /\ top = 0 /\ dpc[Owner] = "idle"
  BY <1>1, <1>2, Basics DEF IInv, DequeInit, End
<1>4. Content = <<>>
  BY <1>3 DEF Content
<1>5. \A i \in Items : got[i] = 0
  BY <1>1, <1>2, Basics DEF IInv, DequeInit
<1>6. Delivered = [i \in Items |-> 0]
  BY <1>3, <1>5 DEF Delivered
<1> QED
  BY <1>4, <1>6 DEF Abstract!Init

\* ws_deque is linearizable: with the steps of its operations interleaved, it behaves like a
\* deque whose owner and thieves add and take an item in one instant.
THEOREM Linearizable == DequeSpec => ImplementsWorkDeque
<1>1. IInv /\ [DequeNext]_dequeVars => [Abstract!Next]_(Abstract!vars)
  BY RefinementStep
<1> QED
  BY <1>1, Invariance, RefinementInit, PTL DEF DequeSpec, ImplementsWorkDeque, Abstract!Spec
=============================================================================
