------------------------------ MODULE XhciRings ------------------------------
(***************************************************************************)
(* A ring of requests and the event ring together: the xHC takes TRBs from *)
(* the one and reports them, and port changes, through the other. The      *)
(* driver's side of both is main, so a request is pushed, or an event      *)
(* received by a task, only when on_xhc_interrupt is not reading the ring. *)
(***************************************************************************)
EXTENDS ProducerRing, EventRing, FiniteSets

\* An event names the TRB it reports by its slot.
ASSUME PointerAssumption == Slots \subseteq Pointer

VARIABLE port_change   \* a port has a change that its event still has to announce

allvars == <<vars, event_ring, port_change>>

Report(ptr) == [kind |-> "TransferEvent", ptr |-> ptr]
PortEvent == [kind |-> "PortStatusChange", ptr |-> NoPointer]

SystemInit == Init /\ EventRingInit /\ port_change = FALSE

Push ==
  /\ er_pc = "idle"
  /\ \E trb \in TRB : push(trb)
  /\ UNCHANGED <<event_ring, port_change>>

\* Every TRB the kernel pushes is a command or asks for an event on completion.
XhcExecute ==
  /\ Execute /\ reports' = Append(reports, at)
  /\ Post(Report(at))
  /\ UNCHANGED port_change

XhcFollowLink == FollowLink /\ UNCHANGED <<event_ring, port_change>>

\* A port reports again only after its change has been acknowledged.
XhcPort ==
  /\ ~port_change
  /\ Post(PortEvent)
  /\ port_change' = TRUE
  /\ UNCHANGED vars

Main == on_xhc_interrupt /\ UNCHANGED <<vars, port_change>>

on_trf_event == receive("TransferEvent") /\ set_deque_ptr /\ UNCHANGED port_change

on_port_event ==
  /\ receive("PortStatusChange")
  /\ port_change' = FALSE
  /\ UNCHANGED vars

SystemNext ==
  \/ Push \/ Main \/ on_trf_event \/ on_port_event
  \/ XhcExecute \/ XhcFollowLink \/ XhcPort

SystemSpec == SystemInit /\ [][SystemNext]_allvars

-----------------------------------------------------------------------------
(* The events in the ring and in the channel name exactly the TRBs whose    *)
(* events are outstanding, in order: what the rings of requests rely on     *)
(* when they free slots in set_deque_ptr. The n-th transfer event from the  *)
(* oldest on names the n-th of them.                                        *)
ReportsCarried ==
  LET carried == listener["TransferEvent"] \o Unread
      transfers == {i \in 1 .. Len(carried) : carried[i].kind = "TransferEvent"}
  IN  /\ Len(reports) = Cardinality(transfers)
      /\ \A i \in transfers :
           carried[i].ptr = reports[Cardinality({j \in transfers : j <= i})]

(* Although main frees the slots of the event ring only by the ERDP it      *)
(* writes after the last pop, only events that are still to be handled take *)
(* room: while there are fewer of them than M - 2, whatever the xHC has to  *)
(* report finds room, and the ring does not come to where the xHC would     *)
(* post the Host Controller event that process_event has a todo!() for.     *)
Outstanding == Len(reports) + (IF port_change THEN 1 ELSE 0)
AlwaysRoom == Outstanding < M - 2 => Room
=============================================================================
