------------------------------ MODULE WorkDeque ------------------------------
(***************************************************************************)
(* What a work-stealing deque promises: its owner pushes and pops at the   *)
(* bottom (last in, first out), thieves remove at the top (first in, first *)
(* out), and each operation takes effect in one instant, in which it       *)
(* delivers the item that it removes.                                      *)
(***************************************************************************)
EXTENDS Integers, Sequences

CONSTANT Items

VARIABLES deque, delivered \* delivered: how often each item came out

vars == <<deque, delivered>>

Init == deque = <<>> /\ delivered = [i \in Items |-> 0]

Deliver(i) == delivered' = [delivered EXCEPT ![i] = @ + 1]

PushBottom ==
  /\ \E i \in Items : deque' = Append(deque, i)
  /\ UNCHANGED delivered

PopBottom ==
  /\ deque # <<>>
  /\ deque' = SubSeq(deque, 1, Len(deque) - 1)
  /\ Deliver(deque[Len(deque)])

StealTop ==
  /\ deque # <<>>
  /\ deque' = Tail(deque)
  /\ Deliver(Head(deque))

Next == PushBottom \/ PopBottom \/ StealTop

Spec == Init /\ [][Next]_vars
=============================================================================
