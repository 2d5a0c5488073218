----------------------------- MODULE DeviceInit -----------------------------
(***************************************************************************)
(* DeviceInitAction of kernel/src/usb/action/init_device.rs: the task that *)
(* looks for devices at boot, then answers the events of the ports, and    *)
(* gives every device it meets a slot and an address. The xHC may change a *)
(* port between any two accesses to its register.                          *)
(***************************************************************************)
EXTENDS UsbRings

VARIABLE init   \* the fields and locals of the task

NoPortsc == [ccs |-> FALSE, csc |-> FALSE, prc |-> FALSE]

InitDeviceInit ==
  init = [current_port |-> None, waiting_port |-> <<>>, port_id |-> 1, slot_id |-> 0,
          ret |-> "scan", portsc |-> NoPortsc]

RunInit(label) == At("init", label)
GotoInit(label) == Goto("init", label)

-----------------------------------------------------------------------------
(* The writes to PORTSC. Its change bits are cleared by writing 1, so that  *)
(* a write-back of what was read, as in the scan, clears them all; it also  *)
(* disables a port that is enabled (PED), which is not modelled.            *)
clear_csc(p) == port' = [port EXCEPT ![p].csc = FALSE]

clear_port_reset(p) == port' = [port EXCEPT ![p].prc = FALSE]
set_port_reset(p) == port' = [port EXCEPT ![p].pr = port[p].ccs]
write_back_csc(p) == port' = [port EXCEPT ![p].csc = FALSE, ![p].prc = FALSE]

-----------------------------------------------------------------------------
\* What is left between two events.
Handled == [init EXCEPT !.port_id = 1, !.portsc = NoPortsc]

\* The scan at boot.
scan ==
  /\ RunInit("scan")
  /\ \/ /\ init.port_id > Cardinality(Port)
        /\ GotoInit("loop")
        /\ init' = Handled
     \/ /\ init.port_id <= Cardinality(Port) /\ ~port[init.port_id].ccs
        /\ init' = [init EXCEPT !.port_id = @ + 1]
        /\ UNCHANGED pc
     \/ /\ init.port_id <= Cardinality(Port) /\ port[init.port_id].ccs
        /\ GotoInit("scan_clear")
        /\ UNCHANGED init
  /\ UNCHANGED <<executor, channels, oneshot, driver_rings, xhc>>

scan_clear ==
  /\ RunInit("scan_clear")
  /\ write_back_csc(init.port_id)
  /\ GotoInit("init_device")
  /\ init' = [init EXCEPT !.ret = "scan"]
  /\ UNCHANGED <<executor, channels, oneshot, driver_rings, slots, events, reports, faults, buf>>

\* Back from init_device_async, whose result is ignored.
return ==
  /\ init' = [init EXCEPT !.port_id = IF init.ret = "scan" THEN @ + 1 ELSE @, !.slot_id = 0]
  /\ GotoInit(init.ret)

\* push_command(...)? followed by the await.
command(trb, label) ==
  IF command_ring_full THEN return /\ UNCHANGED <<executor, channels, oneshot, cmd>>
  ELSE push_command("init", trb, label) /\ UNCHANGED init

-----------------------------------------------------------------------------
\* init_device_async: enable_slot_async, then address_device_async.
enable_slot_async ==
  /\ RunInit("init_device")
  /\ command([type |-> "EnableSlot"], "enabled")
  /\ UNCHANGED <<rings, dcbaa, xhc>>

\* The completion code is not looked at.
slot_enabled ==
  /\ resumed("init", "enabled")
  /\ init' = [init EXCEPT !.slot_id = got("init").slot]
  /\ take("init")
  /\ GotoInit("address")
  /\ UNCHANGED <<executor, channels, driver_rings, xhc>>

max_packet_size(speed) == CASE speed \in {1, 3} -> 64 [] speed = 4 -> 512 [] OTHER -> 8

\* The speed is read from PORTSC.
prepare_input_ctx_for_address_device(p) ==
  LET speed == IF port[p].ccs THEN Speed[port[p].dev] ELSE 0
  IN  [port |-> p, speed |-> speed, context_entries |-> 1, max_packet_size |-> max_packet_size(speed)]

\* Wrong: the slot has no context yet when it is addressed.
init_context_at_none(slot) == UNCHANGED dcbaa

init_context_at(slot) == dcbaa' = [dcbaa EXCEPT ![slot] = new_device_context(ctx_size)]

address_device_async ==
  /\ RunInit("address")
  /\ init_context_at(init.slot_id)
  /\ rings' = init_ring_at(rings, init.slot_id, 1)
  /\ command([type |-> "AddressDevice", slot |-> init.slot_id, input |-> new_input_context(ctx_size),
              ctx |-> prepare_input_ctx_for_address_device(init.port_id)], "addressed")
  /\ UNCHANGED xhc

addressed ==
  /\ resumed("init", "addressed")
  /\ \/ got("init").code = "Success" /\ send("address", init.slot_id)
     \/ got("init").code # "Success" /\ UNCHANGED <<task_queue, channels>>
  /\ take("init")
  /\ return
  /\ UNCHANGED <<running, driver_rings, xhc>>

-----------------------------------------------------------------------------
\* Wrong: the change is acknowledged before the register is read.
port_event_acked ==
  /\ RunInit("loop")
  /\ receive("PortStatusChange")
  /\ LET p == message("PortStatusChange").port
     IN  /\ clear_csc(p)
         /\ init' = [init EXCEPT !.port_id = p,
                       !.portsc = [ccs |-> port[p].ccs, csc |-> FALSE, prc |-> port[p].prc]]
  /\ GotoInit("changed")
  /\ UNCHANGED <<executor, oneshot, driver_rings, slots, events, reports, faults, buf>>

\* The loop: an event, and the register as it is then.
port_event ==
  /\ RunInit("loop")
  /\ receive("PortStatusChange")
  /\ LET p == message("PortStatusChange").port
     IN  init' = [init EXCEPT !.port_id = p,
                    !.portsc = [ccs |-> port[p].ccs, csc |-> port[p].csc, prc |-> port[p].prc]]
  /\ GotoInit("changed")
  /\ UNCHANGED <<executor, oneshot, driver_rings, xhc>>

status_changed ==
  /\ RunInit("changed")
  /\ LET p == init.port_id
         sc == init.portsc
     IN  \/ /\ sc.csc /\ sc.ccs
            /\ clear_csc(p)
            /\ init' = [init EXCEPT !.waiting_port = Append(@, p)]
            /\ GotoInit("next_port")
         \/ /\ ~(sc.csc /\ sc.ccs) /\ sc.prc
            /\ clear_port_reset(p)
            /\ init' = [init EXCEPT !.ret = "next_port"]
            /\ GotoInit(IF init.current_port = p THEN "init_device" ELSE "next_port")
         \/ /\ ~(sc.csc /\ sc.ccs) /\ ~sc.prc
            /\ GotoInit("next_port")
            /\ UNCHANGED <<init, port>>
  /\ UNCHANGED <<executor, channels, oneshot, driver_rings, slots, events, reports, faults, buf>>

\* current_port is never cleared: one port is reset in the life of the kernel.
next_port ==
  /\ RunInit("next_port")
  /\ \/ /\ init.current_port = None /\ init.waiting_port # <<>>
        /\ init' = [Handled EXCEPT !.current_port = Head(init.waiting_port), !.waiting_port = Tail(@)]
        /\ set_port_reset(Head(init.waiting_port))
     \/ /\ ~(init.current_port = None /\ init.waiting_port # <<>>)
        /\ init' = Handled
        /\ UNCHANGED port
  /\ GotoInit("loop")
  /\ UNCHANGED <<executor, channels, oneshot, driver_rings, slots, events, reports, faults, buf>>

no_event == RunInit("loop") /\ pending("init", "PortStatusChange") /\ UNCHANGED <<init, driver_rings, xhc>>

main_loop_init ==
  \/ scan \/ scan_clear \/ enable_slot_async \/ slot_enabled \/ address_device_async
  \/ addressed \/ port_event \/ status_changed \/ next_port \/ no_event
=============================================================================
