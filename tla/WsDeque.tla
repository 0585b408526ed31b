------------------------------ MODULE WsDeque ------------------------------
(***************************************************************************)
(* ws_deque<T>, the Chase-Lev deque: one owner that pushes and pops at     *)
(* bottom_, thieves that advance top_ with a compare-exchange, and a       *)
(* circular array that the owner replaces by one of twice the size.        *)
(*                                                                         *)
(* Each access to a shared atomic is a step, in the order of the program   *)
(* (sequential consistency).  The slots of the array are not atomic: put() *)
(* writes in two steps, and a thief that reads between them gets Torn.     *)
(* Indices are not wrapped: 2^64 pushes are out of reach of a run.         *)
(***************************************************************************)
EXTENDS Integers, Sequences, FiniteSets

CONSTANTS
  Thieves,  \* threads that steal
  Owner,    \* the thread that pushes and pops
  InitCap,  \* initial_capacity
  MaxPush,  \* bound: number of pushes
  Torn      \* a slot in the middle of being written

ASSUME OwnerAssumption == Owner \notin Thieves
ASSUME DequeSizesAssumption == InitCap \in Nat \ {0} /\ MaxPush \in Nat

Items == 1 .. MaxPush
None == 0
ASSUME TornAssumption == Torn \notin 0 .. MaxPush

Users == Thieves \union {Owner}

VARIABLES
  top, bottom, \* top_ and bottom_
  arrays,      \* every circular_array allocated so far (none is freed)
  current,     \* array_: the index in arrays of the current one
  dpc,         \* where each thread's code is
  b, t,        \* the local variables b and t of each thread's operation
  arr,         \* the array a thief has loaded
  item,        \* the local variable item
  pushed,      \* number of pushes begun; push number i pushes item i
  logical,     \* history: the item pushed at each index, most recently
  got          \* history: how often each item was returned

dequeVars == <<top, bottom, arrays, current, dpc, b, t, arr, item, pushed, logical,
          got>>

OwnerPcs == {"idle", "grow", "put", "putting", "pushed",
             "poptop", "popcas", "popfix"}
ThiefPcs == {"idle", "bottom", "array", "get", "cas"}
Values == Items \union {None, Torn}
Indices == 0 .. MaxPush

\* The shape of the state.
DequeTypeOK ==
  /\ top \in Indices /\ bottom \in Indices
  /\ \A k \in DOMAIN arrays : \E n \in 1 .. 2 * InitCap + 2 * MaxPush :
       arrays[k] \in [0 .. n - 1 -> Values]
  /\ current \in DOMAIN arrays
  /\ dpc \in [Users -> OwnerPcs \union ThiefPcs]
  /\ dpc[Owner] \in OwnerPcs /\ \A p \in Thieves : dpc[p] \in ThiefPcs
  /\ b \in [Users -> Indices] /\ t \in [Users -> Indices]
  /\ arr \in [Thieves -> DOMAIN arrays]
  /\ item \in [Users -> Values]
  /\ pushed \in 0 .. MaxPush
  /\ logical \in [Indices -> Items \union {None}]
  /\ got \in [Values -> Nat]

DequeInit ==
  /\ top = 0 /\ bottom = 0
  /\ arrays = <<[k \in 0 .. InitCap - 1 |-> None]>>
  /\ current = 1
  /\ dpc = [x \in Users |-> "idle"]
  /\ b = [x \in Users |-> 0] /\ t = [x \in Users |-> 0]
  /\ arr = [p \in Thieves |-> 1]
  /\ item = [x \in Users |-> None]
  /\ pushed = 0
  /\ logical = [i \in Indices |-> None]
  /\ got = [v \in Values |-> 0]

DequeGoto(x, p) == dpc' = [dpc EXCEPT ![x] = p]

\* circular_array: capacity(), the slot of index i, put().  Capacities are powers
\* of two, where i & mask_ is i % capacity().
CapacityOf(k) == Cardinality(DOMAIN arrays[k])
Slot(k, i) == i % CapacityOf(k)
Put(k, i, v) == arrays' = [arrays EXCEPT ![k][Slot(k, i)] = v]

\* The operation of x returns v and its locals are dead.
Return(x, v) ==
  /\ got' = IF v = None THEN got ELSE [got EXCEPT ![v] = @ + 1]
  /\ b' = [b EXCEPT ![x] = 0] /\ t' = [t EXCEPT ![x] = 0]
  /\ item' = [item EXCEPT ![x] = None]
  /\ DequeGoto(x, "idle")

-----------------------------------------------------------------------------
(* push                                                                    *)

\* Mutant: off by one, the array is thought to hold one more.
PushLoadOneMore ==
  /\ dpc[Owner] = "idle"
  /\ pushed < MaxPush
  /\ pushed' = pushed + 1
  /\ item' = [item EXCEPT ![Owner] = pushed + 1]
  /\ b' = [b EXCEPT ![Owner] = bottom]
  /\ t' = [t EXCEPT ![Owner] = top]
  /\ DequeGoto(Owner, IF bottom - top > CapacityOf(current) THEN "grow" ELSE "put")
  /\ UNCHANGED <<top, bottom, arrays, current, arr, logical, got>>

\* The loads of bottom_, top_ and array_ and the test for a full array.
PushLoad ==
  /\ dpc[Owner] = "idle"
  /\ pushed < MaxPush
  /\ pushed' = pushed + 1
  /\ item' = [item EXCEPT ![Owner] = pushed + 1]
  /\ b' = [b EXCEPT ![Owner] = bottom]
  /\ t' = [t EXCEPT ![Owner] = top]
  /\ DequeGoto(Owner, IF bottom - top > CapacityOf(current) - 1 THEN "grow" ELSE "put")
  /\ UNCHANGED <<top, bottom, arrays, current, arr, logical, got>>

\* grow(b, t): the live items copied into an array of twice the capacity, which
\* array_ then points to.  The old array stays allocated.
Grow ==
  /\ dpc[Owner] = "grow"
  /\ LET n == 2 * CapacityOf(current)
         live == t[Owner] .. b[Owner] - 1
         copy == [k \in 0 .. n - 1 |->
                    IF \E i \in live : i % n = k
                    THEN arrays[current][Slot(current,
                           CHOOSE i \in live : i % n = k)]
                    ELSE None]
     IN arrays' = Append(arrays, copy)
  /\ current' = current + 1
  /\ DequeGoto(Owner, "put")
  /\ UNCHANGED <<top, bottom, b, t, arr, item, pushed, logical, got>>

\* put(b, item) begins to write the slot.
PutBegin ==
  /\ dpc[Owner] = "put"
  /\ Put(current, b[Owner], Torn)
  /\ DequeGoto(Owner, "putting")
  /\ UNCHANGED <<top, bottom, current, b, t, arr, item, pushed, logical, got>>

PutEnd ==
  /\ dpc[Owner] = "putting"
  /\ Put(current, b[Owner], item[Owner])
  /\ DequeGoto(Owner, "pushed")
  /\ UNCHANGED <<top, bottom, current, b, t, arr, item, pushed, logical, got>>

\* bottom_ = b + 1 makes the item visible.
PushBottom ==
  /\ dpc[Owner] = "pushed"
  /\ bottom' = b[Owner] + 1
  /\ logical' = [logical EXCEPT ![b[Owner]] = item[Owner]]
  /\ Return(Owner, None)
  /\ UNCHANGED <<top, arrays, current, arr, pushed>>

-----------------------------------------------------------------------------
(* pop                                                                     *)

\* The owner reserves the last index: bottom_ = b - 1.
PopReserve ==
  /\ dpc[Owner] = "idle"
  /\ bottom # 0
  /\ bottom' = bottom - 1
  /\ b' = [b EXCEPT ![Owner] = bottom - 1]
  /\ DequeGoto(Owner, "poptop")
  /\ UNCHANGED <<top, arrays, current, t, arr, item, pushed, logical, got>>

\* Mutant: the last item is taken without racing for it.
PopTopNoRace ==
  /\ dpc[Owner] = "poptop"
  /\ IF top > b[Owner]
     THEN /\ DequeGoto(Owner, "popfix")
          /\ UNCHANGED <<b, t, item, got>>
     ELSE Return(Owner, arrays[current][Slot(current, b[Owner])])
  /\ UNCHANGED <<top, bottom, arrays, current, arr, pushed, logical>>

\* The load of top_ after the fence: empty, the last item, or more than one.
PopTop ==
  /\ dpc[Owner] = "poptop"
  /\ LET here == arrays[current][Slot(current, b[Owner])]
     IN \/ /\ top > b[Owner]
           /\ DequeGoto(Owner, "popfix")
           /\ UNCHANGED <<b, t, item, got>>
        \/ /\ top = b[Owner]
           /\ t' = [t EXCEPT ![Owner] = top]
           /\ item' = [item EXCEPT ![Owner] = here]
           /\ DequeGoto(Owner, "popcas")
           /\ UNCHANGED <<b, got>>
        \/ /\ top < b[Owner]
           /\ Return(Owner, here)
  /\ UNCHANGED <<top, bottom, arrays, current, arr, pushed, logical>>

\* The race with the thieves for the last item.
PopCas ==
  /\ dpc[Owner] = "popcas"
  /\ IF top = t[Owner]
     THEN top' = top + 1 /\ UNCHANGED item
     ELSE UNCHANGED top /\ item' = [item EXCEPT ![Owner] = None]
  /\ DequeGoto(Owner, "popfix")
  /\ UNCHANGED <<bottom, arrays, current, b, t, arr, pushed, logical, got>>

\* Mutant: an empty pop leaves bottom_ below top_.
PopFixForgets ==
  /\ dpc[Owner] = "popfix"
  /\ bottom' = IF item[Owner] = None THEN bottom ELSE b[Owner] + 1
  /\ Return(Owner, item[Owner])
  /\ UNCHANGED <<top, arrays, current, arr, pushed, logical>>

\* bottom_ = b + 1, and the operation returns the item it won, or none.
PopFix ==
  /\ dpc[Owner] = "popfix"
  /\ bottom' = b[Owner] + 1
  /\ Return(Owner, item[Owner])
  /\ UNCHANGED <<top, arrays, current, arr, pushed, logical>>

-----------------------------------------------------------------------------
(* steal                                                                   *)

StealTop(p) ==
  /\ dpc[p] = "idle"
  /\ t' = [t EXCEPT ![p] = top]
  /\ DequeGoto(p, "bottom")
  /\ UNCHANGED <<top, bottom, arrays, current, b, arr, item, pushed, logical, got>>

StealBottom(p) ==
  /\ dpc[p] = "bottom"
  /\ IF t[p] < bottom
     THEN /\ b' = [b EXCEPT ![p] = bottom]
          /\ DequeGoto(p, "array")
          /\ UNCHANGED <<t, item, got>>
     ELSE Return(p, None)
  /\ UNCHANGED <<top, bottom, arrays, current, arr, pushed, logical>>

StealArray(p) ==
  /\ dpc[p] = "array"
  /\ arr' = [arr EXCEPT ![p] = current]
  /\ DequeGoto(p, "get")
  /\ UNCHANGED <<top, bottom, arrays, current, b, t, item, pushed, logical, got>>

StealGet(p) ==
  /\ dpc[p] = "get"
  /\ item' = [item EXCEPT ![p] = arrays[arr[p]][Slot(arr[p], t[p])]]
  /\ DequeGoto(p, "cas")
  /\ UNCHANGED <<top, bottom, arrays, current, b, t, arr, pushed, logical, got>>

\* Mutant: the top index is stored, not compared and exchanged.
StealStore(p) ==
  /\ dpc[p] = "cas"
  /\ top' = t[p] + 1
  /\ Return(p, item[p])
  /\ UNCHANGED <<bottom, arrays, current, arr, pushed, logical>>

\* The compare-exchange on top_: the item is the thief's, or another took it.
StealCas(p) ==
  /\ dpc[p] = "cas"
  /\ IF top = t[p]
     THEN top' = top + 1 /\ Return(p, item[p])
     ELSE UNCHANGED top /\ Return(p, None)
  /\ UNCHANGED <<bottom, arrays, current, arr, pushed, logical>>

-----------------------------------------------------------------------------
OwnerStep ==
  \/ PushLoad \/ Grow \/ PutBegin \/ PutEnd \/ PushBottom
  \/ PopReserve \/ PopTop \/ PopCas \/ PopFix

ThiefStep(p) ==
  \/ StealTop(p) \/ StealBottom(p) \/ StealArray(p) \/ StealGet(p) \/ StealCas(p)

DequeNext == OwnerStep \/ \E p \in Thieves : ThiefStep(p)

DequeSpec == DequeInit /\ [][DequeNext]_dequeVars

-----------------------------------------------------------------------------
(* Properties.                                                             *)

\* The first index past the content.  While a pop has reserved an index but not
\* yet settled whether it gets it, that index still belongs to the content.
End == IF dpc[Owner] \in {"poptop", "popcas", "popfix"} THEN bottom + 1 ELSE bottom

Content == [k \in 1 .. End - top |-> logical[top + k - 1]]

\* No item is returned twice, by two thieves or by a thief and the owner, and no
\* operation returns a slot that was being written or was never written.
ReturnedOnce ==
  /\ \A i \in Items : got[i] <= 1
  /\ got[Torn] = 0

\* No item disappears: whatever was pushed has been returned, is in the deque, or
\* is in the hands of a pop that has won it.
NothingLost ==
  \A i \in 1 .. pushed :
    \/ got[i] = 1
    \/ \E k \in top .. End - 1 : logical[k] = i
    \/ item[Owner] = i

\* The array that array_ points to holds the content, whatever the growing, the
\* wrapping around and the reuse of indices did to it.
ArrayHoldsContent ==
  \A i \in top .. End - 1 : arrays[current][Slot(current, i)] = logical[i]

\* What was pushed is where the next operation finds it: nothing is lost, the array
\* holds the content, and the indices, which are unsigned in the code, stay above zero.
ContentInv == DequeTypeOK /\ NothingLost /\ ArrayHoldsContent

\* A thief that will win its compare-exchange holds the item that is at the top,
\* also if it read it from an array that was replaced since.
WinnerHoldsTop ==
  \A p \in Thieves : dpc[p] = "cas" /\ t[p] = top => item[p] = logical[top]

\* How often each item came out, counting the one that a pop has won and is about
\* to return.
Delivered ==
  [i \in Items |->
     got[i] + (IF dpc[Owner] = "popfix" /\ item[Owner] = i THEN 1 ELSE 0)]

\* The deque behaves as if each operation happened in one instant, the owner's at
\* the bottom and the thieves' at the top, and returned what is there.
Abstract == INSTANCE WorkDeque WITH deque <- Content, delivered <- Delivered

ImplementsWorkDeque == Abstract!Spec
=============================================================================
