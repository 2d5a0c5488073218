------------------------------ MODULE UsbStack ------------------------------
(***************************************************************************)
(* The USB stack as a whole: main reads the events of the controller and   *)
(* runs the executor (on_xhc_interrupt of kernel/src/usb/mod.rs), which    *)
(* runs the tasks that initialize_xhci and init_usb have spawned, while    *)
(* the controller executes TRBs and devices are plugged and unplugged.     *)
(***************************************************************************)
EXTENDS UsbDriver

VARIABLE main   \* where main is in on_xhc_interrupt

vars == <<runtime, cmd, rings, dcbaa, buf, slots, port, events, reports, faults, init, drv, class, main>>

UsbTasks == {"cmd", "trf", "init", "drv"} \union Class
UsbChannels == {"CommandCompletion", "TransferEvent", "PortStatusChange", "address"}

Init ==
  /\ Init_runtime(<<"cmd", "trf", "init", "drv">>,
                  [t \in UsbTasks |-> IF t = "init" THEN "scan" ELSE IF t \in Class THEN "none" ELSE "loop"])
  /\ InitRings /\ InitDeviceInit /\ InitDriver
  /\ main = "idle"

-----------------------------------------------------------------------------
\* Main is called for every interrupt; EventLoop shows that no event is left without one.
process_event ==
  /\ main \in {"idle", "events"} /\ events # <<>>
  /\ main' = IF Len(events) > 1 THEN "events" ELSE "tasks"
  /\ send(Head(events).kind, Head(events))
  /\ events' = Tail(events)
  /\ UNCHANGED <<running, oneshot, pc, driver_rings, slots, port, reports, faults, buf, init, drv, class>>

process_next_task ==
  /\ main = "tasks" /\ exec
  /\ UNCHANGED <<driver_rings, xhc, init, drv, class, main>>

no_more_task ==
  /\ main = "tasks" /\ ~has_next_task
  /\ main' = "idle"
  /\ UNCHANGED <<runtime, driver_rings, xhc, init, drv, class>>

\* The two tasks of initialize_xhci.
cmd_task ==
  /\ on_command_completion \/ (At("cmd", "loop") /\ pending("cmd", "CommandCompletion") /\ UNCHANGED <<driver_rings, xhc>>)
  /\ UNCHANGED <<init, drv, class>>
trf_task ==
  /\ on_trf_event \/ (At("trf", "loop") /\ pending("trf", "TransferEvent") /\ UNCHANGED <<driver_rings, xhc>>)
  /\ UNCHANGED <<init, drv, class>>

task ==
  /\ main = "tasks"
  /\ \/ cmd_task \/ trf_task \/ main_loop_driver
     \/ main_loop_init /\ UNCHANGED <<drv, class>>
     \/ \E c \in Class : subscribe(c) \/ callback(c)
  /\ UNCHANGED main

Main == process_event \/ process_next_task \/ no_more_task \/ task

(* A step of the controller or of a user is seen by main only in the events  *)
(* and in the registers of the ports. Wherever else it happens, it can as   *)
(* well happen later, before main's next look at one of these, without a    *)
(* difference to anyone.                                                    *)
Seen ==
  \/ main = "idle"
  \/ running = "init" /\ pc["init"] \in {"scan", "scan_clear", "address", "loop", "changed", "next_port"}

Xhc ==
  /\ Seen
  /\ \/ XhcCommand
     \/ \E k \in DOMAIN rings : XhcTransfer(k)
     \/ \E p \in Port : ResetDone(p)
  /\ UNCHANGED <<init, drv, class, main>>

User ==
  /\ Seen
  /\ \E p \in Port : Plug(p) \/ Unplug(p)
  /\ UNCHANGED <<init, drv, class, main>>

Next == Main \/ Xhc \/ User

Spec == Init /\ [][Next]_vars

\* The machine goes on. Main ends up idle, and the controller waits for main.
FairSpec == Spec /\ WF_vars(Main \/ Xhc)

-----------------------------------------------------------------------------
\* What a task is waiting for, if it waits.
AwaitsOneshot(t) == pc[t] \in {"enabled", "addressed", "device_read", "config_read", "configured",
                               "endpoints_enabled", "initialized", "report"}
ChannelOf(t) ==
  CASE t = "cmd" -> "CommandCompletion" [] t = "trf" -> "TransferEvent"
    [] t = "init" -> "PortStatusChange" [] t = "drv" -> "address"
AwaitsTrb(t) ==
  \/ \E i \in DOMAIN cmd.listener : cmd.listener[i] = t
  \/ \E k \in DOMAIN rings : \E i \in Position : rings[k].listener[i] = t

(* No wake-up is lost: a task that is neither polled nor queued waits for a *)
(* channel that is empty and holds its waker, or for a oneshot whose sender *)
(* is still kept for a TRB. No task is queued twice.                        *)
NoLostWakeup ==
  \A t \in Task :
    LET queued == {i \in DOMAIN task_queue : task_queue[i] = t}
    IN  IF pc[t] \in {"none", "done"} \/ running = t THEN queued = {}
        ELSE \/ Cardinality(queued) = 1
             \/ /\ queued = {}
                /\ IF AwaitsOneshot(t) THEN oneshot[t].state = "open" /\ AwaitsTrb(t)
                   ELSE waker[ChannelOf(t)] = t /\ queue[ChannelOf(t)] = <<>>

(* The completion a task is given is that of the TRB it awaits, although    *)
(* addresses are all that links them and rings reuse theirs.                *)
RightCompletion ==
  \A t \in Task : oneshot[t].state = "sent" =>
    \/ "trb" \in DOMAIN got(t) /\ got(t).trb = oneshot[t].want
    \/ "trb" \notin DOMAIN got(t) /\ got(t).ptr = oneshot[t].want.ptr

(* No control request is cut in the middle by a full ring, whatever the     *)
(* status stage of the request before it still has to do: in every control  *)
(* ring the last TRB pushed ends a request.                                 *)
RequestsWhole ==
  \A k \in DOMAIN rings : k[2] = 1 => rings[k].last.stage \in {"none", "StatusStage"}

(* The unwraps of on_trf_event and of the control_request and subscribe_once *)
(* calls meet a ring: it is made before the slot or endpoint is used, and    *)
(* stays when the device goes away with transfers under way. So does the     *)
(* context that enable_endpoints looks up.                                   *)
UnwrapsSafe ==
  /\ \A i \in DOMAIN queue["TransferEvent"] : queue["TransferEvent"][i].ring \in DOMAIN rings
  /\ \A c \in Class : At(c, "subscribe") => <<class[c].slot_id, class[c].dci>> \in DOMAIN rings
  /\ pc["drv"] \in {"read_device", "configs"} => <<drv.slot_id, 1>> \in DOMAIN rings
  /\ pc["drv"] = "configured" => get_context_at(drv.slot_id) \notin {"none", "scratchpad"}

(* The endpoints the controller is told of, and their types, are those the  *)
(* descriptors describe, for any mix of interfaces and alternate settings; and a class  *)
(* driver listens to an interrupt endpoint of a device of its class.        *)
Described ==
  [dev \in DOMAIN Configs |->
     LET eps == DefaultEndpoints(Configs[dev][1])
         attr(ep) == ep.bm_attributes % 4
         type(ep) == IF attr(ep) = 0 THEN 4 ELSE 4 * (ep.endpoint_addr \div 128) + attr(ep)
     IN  (1 :> 4) @@ [d \in {calc_dci(ep) : ep \in eps} |-> type(CHOOSE ep \in eps : calc_dci(ep) = d)]]
Expected(p) == Described[port[p].dev]
EndpointsAsDescribed ==
  /\ \A s \in Slot : slots[s].port # None => slots[s].eps \in {1 :> 4, Expected(slots[s].port)}
  /\ \A c \in Class : pc[c] # "none" /\ slots[class[c].slot_id].port # None =>
       LET descs == ConfigsAt(slots[class[c].slot_id].port)[1]
       IN  /\ class_of(descs[2]) = c
           /\ \E ep \in DefaultEndpoints(descs) :
                calc_dci(ep) = class[c].dci /\ ep.endpoint_addr >= 128 /\ ep.bm_attributes % 4 = 3

(* No device is overlooked, however its connect, the scan at boot, resets   *)
(* and the changes of other ports interleave: while the connect is not      *)
(* acknowledged, the scan is still to come to the port, or an event is on   *)
(* its way to the task or being looked at; once it is, the port waits for   *)
(* its reset, or is being reset or addressed, or has a slot. Excepted are a *)
(* TRB that failed, and a port that was unplugged before: a disconnect that *)
(* the task reads is not acknowledged, so that the port has no further      *)
(* event, and one between its read and clear_csc is acknowledged unread.    *)
Addressing == {"init_device", "enabled", "address", "addressed"}
EventFor(p) ==
  \E e \in ToSet(events) \union ToSet(queue["PortStatusChange"]) : e.kind = "PortStatusChange" /\ e.port = p
LookedAt(p) == pc["init"] = "changed" /\ init.port_id = p
ScanAhead(p) ==
  \/ pc["init"] \in {"scan", "scan_clear"} /\ init.port_id <= p
  \/ pc["init"] \in Addressing /\ init.ret = "scan" /\ init.port_id < p
Resetting(p) ==
  /\ init.current_port = p
  /\ port[p].pr \/ (port[p].prc /\ (EventFor(p) \/ (LookedAt(p) /\ init.portsc.prc)))
TrbFailed == faults > Unplugs
NoDeviceOverlooked ==
  \A p \in Port : port[p].ccs /\ port[p].unplugs = 0 /\ ~ScanAhead(p) =>
    IF port[p].csc THEN EventFor(p) \/ (LookedAt(p) /\ init.portsc.csc /\ init.portsc.ccs)
    ELSE \/ p \in ToSet(init.waiting_port) \/ Resetting(p)
         \/ pc["init"] \in Addressing /\ init.port_id = p
         \/ \E s \in Slot : slots[s].port = p
         \/ TrbFailed

(* A device that is there at boot, and the first one plugged in afterwards  *)
(* (at any moment, also in the middle of the scan), gets its endpoints: the *)
(* stack comes again and again to where every device that is there has      *)
(* them, unless a TRB fails or a device is unplugged. A later device waits  *)
(* for ever, because current_port keeps the first.                          *)
Configured(p) == \E s \in Slot : slots[s].port = p /\ slots[s].eps = Expected(p)
Passed(p) == p \in ToSet(init.waiting_port) /\ init.current_port # None
DevicesConfigured == []<>(\A p \in Port : port[p].ccs => Configured(p) \/ faults > 0 \/ Passed(p))
=============================================================================
