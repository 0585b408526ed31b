------------------------------ MODULE MCQueues ------------------------------
(***************************************************************************)
(* Instances of SyncChannel and WsDeque.  They share no state: a behaviour *)
(* is of one of them, `which'; the other stays as it begins.               *)
(***************************************************************************)
EXTENDS SyncChannel, WsDeque

VARIABLE which

MCInit ==
  /\ which \in {"channel", "deque"}
  /\ Init
  /\ DequeInit

MCNext ==
  /\ UNCHANGED which
  /\ \/ which = "channel" /\ Next /\ UNCHANGED dequeVars
     \/ which = "deque" /\ DequeNext /\ UNCHANGED vars

\* The fairness is the channel's: nothing is claimed of the deque that needs any.
MCSpec == MCInit /\ [][MCNext]_<<which, vars, dequeVars>> /\ Fairness
=============================================================================
