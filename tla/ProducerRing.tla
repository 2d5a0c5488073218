---------------------------- MODULE ProducerRing ----------------------------
(***************************************************************************)
(* ProducerRing of kernel/src/usb/ring/ring.rs, a ring of TRBs in memory   *)
(* that the driver fills and the xHC controller empties concurrently.      *)
(* They share no index: the controller knows a TRB is valid by its cycle   *)
(* bit alone, and the driver learns how far the controller is only from    *)
(* the events that come back, each naming the slot of a TRB.               *)
(* Used by the command ring and by one transfer ring per endpoint.         *)
(***************************************************************************)
EXTENDS Integers, Sequences

CONSTANTS
  TRB,    \* what the driver pushes
  NoTrb,  \* the zeroed default TRB
  N       \* data.len(); the last slot holds the Link TRB

ASSUME SizeAssumption == N \in Nat /\ N >= 3
ASSUME TrbAssumption == NoTrb \notin TRB

VARIABLES
  data, cycle,                 \* the TRBs, and their cycle bits
  cycle_state, enque, deque,   \* the driver's fields
  ret,                         \* what the last push returned
  at, ccs,                     \* the controller's position and cycle state
  exec,                        \* the TRB it executed last
  reports                      \* slots named by events the driver has not handled

driver == <<cycle_state, enque, deque, ret>>
controller == <<at, ccs, exec, reports>>
vars == <<data, cycle, driver, controller>>

Last == N - 1
Slots == 0 .. Last - 1
Bit == {0, 1}

new ==
  /\ data = [i \in Slots |-> NoTrb]
  /\ cycle = [i \in 0 .. Last |-> 0]
  /\ cycle_state = 1
  /\ enque = 0
  /\ deque = 0
  /\ ret = "Ok"

Init ==
  /\ new
  /\ at = 0 /\ ccs = 1 /\ exec = NoTrb
  /\ reports = <<>>

-----------------------------------------------------------------------------
next_ptr(ptr) == IF ptr + 1 = Last THEN 0 ELSE ptr + 1

\* Wrong: the Link TRB is not handed over to the controller.
advance_without_link(bits) ==
  \/ /\ enque + 1 # Last
     /\ enque' = enque + 1 /\ cycle' = bits /\ UNCHANGED cycle_state
  \/ /\ enque + 1 = Last
     /\ enque' = 0 /\ cycle' = bits /\ cycle_state' = 1 - cycle_state

\* bits: the cycle bits after the TRB has been written.
advance_enque_ptr(bits) ==
  \/ /\ enque + 1 # Last
     /\ enque' = enque + 1
     /\ cycle' = bits
     /\ UNCHANGED cycle_state
  \/ /\ enque + 1 = Last
     /\ enque' = 0
     /\ cycle' = [bits EXCEPT ![Last] = cycle_state]
     /\ cycle_state' = 1 - cycle_state

\* Wrong: every slot is used, so that a full ring looks empty.
never_full == FALSE

is_full == next_ptr(enque) = deque

push(trb) ==
  \/ /\ is_full
     /\ ret' = "RingIsFull"
     /\ UNCHANGED <<data, cycle, cycle_state, enque, deque, controller>>
  \/ /\ ~is_full
     /\ data' = [data EXCEPT ![enque] = trb]
     /\ advance_enque_ptr([cycle EXCEPT ![enque] = cycle_state])
     /\ ret' = "Ok"
     /\ UNCHANGED <<deque, controller>>

\* Wrong: the latest event is taken for the oldest.
handled_latest == reports[Len(reports)]

handled == Head(reports)

\* Handling an event: everything up to the slot it names has been executed.
set_deque_ptr ==
  /\ reports # <<>>
  /\ deque' = next_ptr(handled)
  /\ reports' = Tail(reports)
  /\ UNCHANGED <<data, cycle, cycle_state, enque, ret, at, ccs, exec>>

-----------------------------------------------------------------------------
(* The controller: it executes TRBs while their cycle bit is the one it    *)
(* expects, posting an event for each or for some only, and toggles the    *)
(* bit it expects at the Link TRB.                                         *)
Execute ==
  /\ at # Last /\ cycle[at] = ccs
  /\ exec' = data[at]
  /\ at' = at + 1
  /\ reports' \in {reports, Append(reports, at)}
  /\ UNCHANGED <<data, cycle, driver, ccs>>

FollowLink ==
  /\ at = Last /\ cycle[at] = ccs
  /\ at' = 0
  /\ ccs' = 1 - ccs
  /\ UNCHANGED <<data, cycle, driver, exec, reports>>

Next == (\E trb \in TRB : push(trb)) \/ set_deque_ptr \/ Execute \/ FollowLink

Spec == Init /\ [][Next]_vars

-----------------------------------------------------------------------------
(* The type invariant: enque and deque are slots, never the Link TRB, as   *)
(* the debug_assert of next_ptr demands.                                   *)
TypeOK ==
  /\ data \in [Slots -> TRB \cup {NoTrb}]
  /\ cycle \in [0 .. Last -> Bit]
  /\ cycle_state \in Bit /\ ccs \in Bit
  /\ enque \in Slots /\ deque \in Slots
  /\ ret \in {"Ok", "RingIsFull"}
  /\ at \in 0 .. Last
  /\ exec \in TRB \cup {NoTrb}
  /\ reports \in Seq(Slots)

\* How many slots lie between two positions, from a up to b.
ahead(a, b) == IF a <= b THEN b - a ELSE b - a + Last

\* The slot n places after a.
slot(a, n) == IF a + n < Last THEN a + n ELSE a + n - Last

\* The slot the controller comes to next.
head == IF at = Last THEN 0 ELSE at

\* The TRBs pushed and not executed.
Pending == [i \in 1 .. ahead(head, enque) |-> data[slot(head, i - 1)]]

Queue == INSTANCE TrbQueue WITH
           queue <- Pending, done <- ahead(deque, head), Capacity <- Last - 1

(* The ring implements a queue of N - 2 TRBs: whatever the laps of driver  *)
(* and controller, the cycle bits alone make it execute each pushed TRB    *)
(* once and in order, never a stale one, and never one half overwritten.   *)
ImplementsTrbQueue == Queue!Spec

(* The controller is never stopped short of a pushed TRB, at a slot or at  *)
(* the Link TRB: the cycle bit it is looking at is the one it expects.     *)
NeverStalls == head # enque => cycle[at] = ccs

(* A TRB whose event is still to be handled keeps its slot, so that the    *)
(* slot's address, the key of the listeners, still means that TRB when the *)
(* event is handled.                                                       *)
ReportedSlotsKept ==
  [][\A i \in 1 .. Len(reports) : data'[reports[i]] = data[reports[i]]]_vars
=============================================================================
