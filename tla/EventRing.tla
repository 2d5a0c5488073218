------------------------------ MODULE EventRing ------------------------------
(***************************************************************************)
(* ConsumerRing of kernel/src/usb/ring/ring.rs and EventRing of event.rs:  *)
(* the xHC fills a ring of event TRBs, main empties it in on_xhc_interrupt *)
(* and passes each event to the listener of its kind. The xHC learns what  *)
(* has been read only from the register ERDP, written after the last pop.  *)
(***************************************************************************)
EXTENDS Integers, Sequences

CONSTANTS
  Pointer,    \* what an event names: the TRB it reports
  NoPointer,
  M           \* data.len()

ASSUME EventRingAssumption == M \in Nat /\ M >= 3

VARIABLES
  er_data, er_cycle,          \* the event TRBs, and their cycle bits
  er_cycle_state, er_deque,   \* the fields of ConsumerRing
  er_enque, er_pcs, erdp,     \* the xHC: next slot, its cycle state, its ERDP
  er_pc,                      \* where main is in on_xhc_interrupt
  listener                    \* what the three Senders have sent

reader == <<er_cycle_state, er_deque, er_pc, listener>>
event_ring == <<er_data, er_cycle, er_cycle_state, er_deque, er_enque, er_pcs,
                erdp, er_pc, listener>>

Kinds == {"TransferEvent", "CommandCompletion", "PortStatusChange"}
Events == [kind : Kinds, ptr : Pointer \union {NoPointer}]
NoEvent == [kind |-> "none", ptr |-> NoPointer]   \* a zeroed TRB

EventSlots == 0 .. M - 1

\* ConsumerRing::new, and the registers as init_event_ring leaves them.
EventRingInit ==
  /\ er_data = [i \in EventSlots |-> NoEvent]
  /\ er_cycle = [i \in EventSlots |-> 0]
  /\ er_cycle_state = 1 /\ er_deque = 0
  /\ er_enque = 0 /\ er_pcs = 1 /\ erdp = 0
  /\ er_pc = "idle"
  /\ listener = [k \in Kinds |-> <<>>]

-----------------------------------------------------------------------------
(* The xHC. It would put a Host Controller event, for which process_event  *)
(* has only a todo!(), into the last slot before the ring is full; a ring   *)
(* that always keeps Room never meets it.                                   *)
following(i) == IF i + 1 = M THEN 0 ELSE i + 1

WriteEvent(e) ==
  /\ er_data' = [er_data EXCEPT ![er_enque] = e]
  /\ er_cycle' = [er_cycle EXCEPT ![er_enque] = er_pcs]
  /\ er_enque' = following(er_enque)
  /\ er_pcs' = IF er_enque' = 0 THEN 1 - er_pcs ELSE er_pcs
  /\ UNCHANGED <<reader, erdp>>

Room == following(following(er_enque)) # erdp /\ following(er_enque) # erdp

Post(e) == Room /\ WriteEvent(e)

-----------------------------------------------------------------------------
enter ==
  /\ er_pc = "idle"
  /\ er_pc' = "pop"
  /\ UNCHANGED <<er_data, er_cycle, er_cycle_state, er_deque, er_enque, er_pcs, erdp, listener>>

\* Wrong: the cycle bit expected stays the same on every lap.
advance_same_cycle ==
  /\ er_deque' = following(er_deque)
  /\ UNCHANGED er_cycle_state

advance ==
  /\ er_deque' = following(er_deque)
  /\ er_cycle_state' = IF er_deque + 1 = M THEN 1 - er_cycle_state ELSE er_cycle_state

process_event(e) ==
  listener' = [listener EXCEPT ![e.kind] = Append(@, e)]

pop ==
  /\ er_pc = "pop"
  /\ er_cycle[er_deque] = er_cycle_state
  /\ advance
  /\ process_event(er_data[er_deque])
  /\ UNCHANGED <<er_data, er_cycle, er_enque, er_pcs, erdp, er_pc>>

pop_none ==
  /\ er_pc = "pop"
  /\ er_cycle[er_deque] # er_cycle_state
  /\ er_pc' = "erdp"
  /\ UNCHANGED <<er_data, er_cycle, er_cycle_state, er_deque, er_enque, er_pcs, erdp, listener>>

\* Wrong: the dequeue pointer written is one slot behind.
write_erdp_behind ==
  /\ er_pc = "erdp"
  /\ erdp' = IF er_deque = 0 THEN M - 1 ELSE er_deque - 1
  /\ er_pc' = "idle"
  /\ UNCHANGED <<er_data, er_cycle, er_cycle_state, er_deque, er_enque, er_pcs, listener>>

write_erdp ==
  /\ er_pc = "erdp"
  /\ erdp' = er_deque
  /\ er_pc' = "idle"
  /\ UNCHANGED <<er_data, er_cycle, er_cycle_state, er_deque, er_enque, er_pcs, listener>>

on_xhc_interrupt == enter \/ pop \/ pop_none \/ write_erdp

\* A task that awaits the channel of kind k takes the oldest event.
receive(k) ==
  /\ er_pc = "idle"
  /\ listener[k] # <<>>
  /\ listener' = [listener EXCEPT ![k] = Tail(@)]
  /\ UNCHANGED <<er_data, er_cycle, er_cycle_state, er_deque, er_enque, er_pcs, erdp, er_pc>>

EventRingNext ==
  \/ \E e \in Events : Post(e)
  \/ on_xhc_interrupt
  \/ \E k \in Kinds : receive(k)

EventRingSpec == EventRingInit /\ [][EventRingNext]_event_ring

-----------------------------------------------------------------------------
EventRingTypeOK ==
  /\ er_data \in [EventSlots -> Events \union {NoEvent}]
  /\ er_cycle \in [EventSlots -> {0, 1}]
  /\ er_cycle_state \in {0, 1} /\ er_pcs \in {0, 1}
  /\ er_deque \in EventSlots /\ er_enque \in EventSlots /\ erdp \in EventSlots
  /\ er_pc \in {"idle", "pop", "erdp"}
  /\ listener \in [Kinds -> Seq(Events)]

\* The number of slots from a up to b, and the slot n places after a.
distance(a, b) == IF a <= b THEN b - a ELSE b - a + M
place(a, n) == IF a + n < M THEN a + n ELSE a + n - M

\* The events posted and not popped.
Unread == [i \in 1 .. distance(er_deque, er_enque) |-> er_data[place(er_deque, i - 1)]]

(* Although main and the xHC share no index, and ERDP is written late,      *)
(* every event posted reaches its listener, once and in order, over any     *)
(* number of laps of the ring.                                              *)
Fifo == INSTANCE EventFifo WITH
          Event <- Events, posted <- Unread
ImplementsEventFifo == Fifo!Spec
=============================================================================
