---------------------------- MODULE BoundedQueue ----------------------------
(***************************************************************************)
(* What a bounded first-in first-out queue promises: push appends and      *)
(* answers Ok unless the queue already holds N messages, when it answers   *)
(* Err and changes nothing; pop hands out the oldest message, or None when *)
(* there is none.  This is the contract the kernel's message queue         *)
(* (kernel/src/main.rs) is shown to implement by MessageQueue.             *)
(***************************************************************************)
EXTENDS Naturals, Sequences

CONSTANTS Message, N

VARIABLES
  queue,  \* the messages waiting, oldest first
  ret     \* what the last call returned

vars == <<queue, ret>>

Init ==
  /\ queue = <<>>
  /\ ret = <<"new">>

Push(msg) ==
  \/ /\ Len(queue) < N
     /\ queue' = Append(queue, msg)
     /\ ret' = <<"Ok">>
  \/ /\ Len(queue) = N
     /\ ret' = <<"Err">>
     /\ UNCHANGED queue

Pop ==
  \/ /\ queue # <<>>
     /\ queue' = Tail(queue)
     /\ ret' = <<"Some", Head(queue)>>
  \/ /\ queue = <<>>
     /\ ret' = <<"None">>
     /\ UNCHANGED queue

Next == Pop \/ \E msg \in Message : Push(msg)

Spec == Init /\ [][Next]_vars
=============================================================================
