---------------------------- MODULE MessageQueue ----------------------------
(***************************************************************************)
(* MessageQueue<N> of kernel/src/main.rs: the circular buffer behind the   *)
(* static EVENTS, through which the interrupt handlers talk to the main    *)
(* loop.  Every operation runs under the EVENTS lock, so each is one step. *)
(***************************************************************************)
EXTENDS Naturals, Sequences

CONSTANTS
  Message,  \* enum Message
  Default,  \* Message::Xhci, the value MessageQueue::new fills the array with
  N         \* the const parameter, 1024 for EVENTS

ASSUME NAssumption == N \in Nat \ {0}
ASSUME DefaultAssumption == Default \in Message

VARIABLES
  data, read_pos, write_pos, cnt,  \* the fields of the struct
  ret                              \* what the last call returned

vars == <<data, read_pos, write_pos, cnt, ret>>

Slots == 0 .. N - 1

\* (pos + 1) % self.data.len()
wrap(pos) == pos % N

new ==
  /\ data = [i \in Slots |-> Default]
  /\ read_pos = 0
  /\ write_pos = 0
  /\ cnt = 0
  /\ ret = <<"new">>

\* Wrong: the write position is advanced before the message is stored.
push_after_advance(msg) ==
  /\ cnt # N
  /\ cnt' = cnt + 1
  /\ data' = [data EXCEPT ![wrap(write_pos + 1)] = msg]
  /\ write_pos' = wrap(write_pos + 1)
  /\ ret' = <<"Ok">>
  /\ UNCHANGED read_pos

push(msg) ==
  \/ /\ cnt = N
     /\ ret' = <<"Err">>
     /\ UNCHANGED <<data, read_pos, write_pos, cnt>>
  \/ /\ cnt # N
     /\ cnt' = cnt + 1
     /\ data' = [data EXCEPT ![write_pos] = msg]
     /\ write_pos' = wrap(write_pos + 1)
     /\ ret' = <<"Ok">>
     /\ UNCHANGED read_pos

pop ==
  \/ /\ cnt = 0
     /\ ret' = <<"None">>
     /\ UNCHANGED <<data, read_pos, write_pos, cnt>>
  \/ /\ cnt # 0
     /\ cnt' = cnt - 1
     /\ ret' = <<"Some", data[read_pos]>>
     /\ read_pos' = wrap(read_pos + 1)
     /\ UNCHANGED <<data, write_pos>>

Init == new

Next == pop \/ \E msg \in Message : push(msg)

Spec == Init /\ [][Next]_vars

-----------------------------------------------------------------------------
(* The type invariant: positions stay inside the array and cnt within its  *)
(* length, so no indexing of data can panic.                               *)
TypeOK ==
  /\ data \in [Slots -> Message]
  /\ read_pos \in Slots
  /\ write_pos \in Slots
  /\ cnt \in 0 .. N
  /\ ret \in {<<"new">>, <<"Ok">>, <<"Err">>, <<"None">>} \cup ({"Some"} \X Message)

(* The three fields agree: write_pos is cnt slots past read_pos, so that   *)
(* the buffer never mistakes full for empty although both have             *)
(* read_pos = write_pos.                                                   *)
PositionsAgree == write_pos = wrap(read_pos + cnt)

(* The messages held, oldest first.                                        *)
Contents == [i \in 1 .. cnt |-> data[wrap(read_pos + i - 1)]]

Queue == INSTANCE BoundedQueue WITH queue <- Contents

(* The circular buffer implements the bounded queue: across any wrap of    *)
(* the two positions push and pop behave as on a sequence of at most N     *)
(* messages, first in, first out, losing a message only with an Err.       *)
ImplementsQueue == Queue!Spec
=============================================================================
