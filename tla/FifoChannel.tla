---------------------------- MODULE FifoChannel ----------------------------
(***************************************************************************)
(* What a channel promises: values come out in the order they went in, at  *)
(* most Capacity of them are inside, none goes in once the channel is      *)
(* closed, those inside can still be taken out, and "closed" is reported   *)
(* to a receiver only when no value will ever come.                        *)
(***************************************************************************)
EXTENDS Integers, Sequences

CONSTANTS Values, Capacity

VARIABLES contents, closed, eof \* eof: some receiver was told "closed"

vars == <<contents, closed, eof>>

Init == contents = <<>> /\ closed = FALSE /\ eof = FALSE

Put ==
  /\ ~closed /\ Len(contents) < Capacity
  /\ \E v \in Values : contents' = Append(contents, v)
  /\ UNCHANGED <<closed, eof>>

Take ==
  /\ contents # <<>>
  /\ contents' = Tail(contents)
  /\ UNCHANGED <<closed, eof>>

Close == closed' = TRUE /\ UNCHANGED <<contents, eof>>

ReportClosed ==
  /\ closed /\ contents = <<>>
  /\ eof' = TRUE
  /\ UNCHANGED <<contents, closed>>

Next == Put \/ Take \/ Close \/ ReportClosed

Spec == Init /\ [][Next]_vars
=============================================================================
