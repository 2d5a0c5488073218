------------------------------ MODULE EventFifo ------------------------------
(***************************************************************************)
(* What the event ring promises: every event the controller posts reaches  *)
(* the listeners of its kind, once and in the order of posting.            *)
(***************************************************************************)
EXTENDS Sequences

CONSTANTS Event, Kinds

VARIABLES
  posted,    \* events posted and not yet passed on, oldest first
  listener   \* per kind, events passed on and not yet received

vars == <<posted, listener>>

Init ==
  /\ posted = <<>>
  /\ listener = [k \in Kinds |-> <<>>]

Post(e) == posted' = Append(posted, e) /\ UNCHANGED listener

Notify ==
  /\ posted # <<>>
  /\ posted' = Tail(posted)
  /\ listener' = [listener EXCEPT ![Head(posted).kind] = Append(@, Head(posted))]

Receive(k) ==
  /\ listener[k] # <<>>
  /\ listener' = [listener EXCEPT ![k] = Tail(@)]
  /\ UNCHANGED posted

Next ==
  \/ \E e \in Event : Post(e)
  \/ Notify
  \/ \E k \in Kinds : Receive(k)

Spec == Init /\ [][Next]_vars
=============================================================================
