------------------------------ MODULE TrbQueue ------------------------------
(***************************************************************************)
(* What a ring of TRBs promises the driver and the controller that share   *)
(* it: the controller executes every accepted TRB exactly once, in the     *)
(* order of acceptance, and a TRB is refused only while Capacity accepted  *)
(* ones are still to be acknowledged.                                      *)
(***************************************************************************)
EXTENDS Naturals, Sequences

CONSTANTS TRB, NoTrb, Capacity

VARIABLES
  queue,  \* the TRBs accepted and not yet executed, oldest first
  done,   \* how many are executed and not yet acknowledged
  exec,   \* the TRB executed last
  ret     \* what the last push returned

vars == <<queue, done, exec, ret>>

Init ==
  /\ queue = <<>>
  /\ done = 0
  /\ exec = NoTrb
  /\ ret = "Ok"

Push(trb) ==
  \/ /\ Len(queue) + done < Capacity
     /\ queue' = Append(queue, trb)
     /\ ret' = "Ok"
     /\ UNCHANGED <<done, exec>>
  \/ /\ Len(queue) + done = Capacity
     /\ ret' = "RingIsFull"
     /\ UNCHANGED <<queue, done, exec>>

Execute ==
  /\ queue # <<>>
  /\ exec' = Head(queue)
  /\ queue' = Tail(queue)
  /\ done' = done + 1
  /\ UNCHANGED ret

\* Acknowledging a TRB acknowledges every TRB executed before it.
Acknowledge(n) ==
  /\ done' = done - n
  /\ UNCHANGED <<queue, exec, ret>>

Next ==
  \/ \E trb \in TRB : Push(trb)
  \/ Execute
  \/ \E n \in 1 .. done : Acknowledge(n)

Spec == Init /\ [][Next]_vars
=============================================================================
