------------------------------ MODULE UsbRings ------------------------------
(***************************************************************************)
(* CommandRing (kernel/src/usb/ring/command.rs) and TransferRingSet        *)
(* (transfer.rs): who waits for which TRB, found again by the address that *)
(* its completion names. The rings are the queues that ProducerRing and    *)
(* EventRing are shown to be, with the positions of the TRBs kept, because *)
(* the addresses are reused. The other side is the xHC with its slots,     *)
(* ports and devices.                                                      *)
(***************************************************************************)
EXTENDS Runtime, FiniteSets, SequencesExt, TLC

CONSTANTS
  N,            \* data.len() of a transfer ring, 32 in the kernel
  CmdN,         \* data.len() of the command ring, 32 in the kernel
  Port,         \* the root hub ports
  Boot,         \* those that may have a device when the controller starts
  DevicesFor,   \* the devices that may be plugged in at each port
  Speed,        \* of each device
  Configs,      \* its configurations, each a sequence of descriptors
  MaxSlot,      \* device slots of the controller
  Csz,          \* the controller's contexts have 64 bytes, not 32
  MaxReports,   \* bound: reports that devices send
  MaxDevices,   \* bound: devices that are ever plugged in
  MaxFaults     \* bound: failed TRBs, and devices unplugged

ASSUME UsbRingsAssumption ==
  /\ Boot \subseteq Port /\ MaxSlot >= MaxDevices
  /\ N - 2 >= 4                             \* the last status stage and a whole request
  /\ CmdN - 2 >= 3 * MaxDevices              \* three commands for each device

VARIABLES
  cmd,        \* CommandRing: the TRBs to execute, how many were pushed, and the listener of each
  rings,      \* TransferRingSet: (slot, endpoint) to ring
  dcbaa,      \* what each entry of the device context array points to
  buf,        \* the buffer of the data stage under way
  slots,      \* the xHC: its device slots
  port,       \* the xHC: PORTSC of each port, the device at it, and how often one was unplugged
  events,     \* the xHC: the events posted and not popped
  reports,    \* reports sent by all devices
  faults

driver_rings == <<cmd, rings, dcbaa>>
xhc == <<slots, port, events, reports, faults, buf>>

Slot == 0 .. MaxSlot      \* entry 0 of the device context array is the scratchpads'

-----------------------------------------------------------------------------
(* The command ring. on_command_completion frees no slot, as it does not    *)
(* call set_deque_ptr: an address is used once, and CmdN - 2 in all.        *)
command_ring_full == cmd.n = CmdN - 2

\* push_command, and the await of the receiver it returns.
push_command(t, trb, label) ==
  /\ cmd' = [cmd EXCEPT !.trb = Append(@, trb), !.n = @ + 1, !.listener = Append(@, t)]
  /\ await(t, [ptr |-> cmd.n + 1])
  /\ Goto(t, label)

on_command_completion ==
  /\ At("cmd", "loop")
  /\ receive("CommandCompletion")
  /\ LET e == message("CommandCompletion")
     IN  /\ complete(cmd.listener[e.ptr], e)
         /\ cmd' = [cmd EXCEPT !.listener[e.ptr] = None]
  /\ UNCHANGED <<running, pc, rings, dcbaa, xhc>>

-----------------------------------------------------------------------------
(* The transfer rings. listener is one map keyed by address in the code;    *)
(* here each ring has its part of it. n counts the TRBs pushed, so that two  *)
(* TRBs at one address can be told apart.                                   *)
Position == 0 .. N - 2
next_ptr(i) == IF i + 1 = N - 1 THEN 0 ELSE i + 1
NoTrb == [stage |-> "none"]

new_ring ==
  [trb |-> [i \in Position |-> NoTrb], listener |-> [i \in Position |-> None],
   enque |-> 0, deque |-> 0, n |-> 0, last |-> NoTrb,
   at |-> 0, bell |-> FALSE, halted |-> FALSE]    \* the xHC's side

\* Wrong: no ring is made.
init_ring_at_none(set, slot, dci) == set

init_ring_at(set, slot, dci) == (<<slot, dci>> :> new_ring) @@ set

is_full(r) == next_ptr(r.enque) = r.deque

\* Wrong: the listener is entered under the address of the next TRB.
push_transfer_trb_next(r, trb, t) ==
  IF is_full(r) THEN r
  ELSE [r EXCEPT !.trb[r.enque] = trb @@ [n |-> r.n + 1], !.listener[next_ptr(r.enque)] = t,
                 !.enque = next_ptr(@), !.n = @ + 1, !.last = [stage |-> trb.stage]]

\* t: the task that awaits the receiver, None if the caller drops it.
push_transfer_trb(r, trb, t) ==
  IF is_full(r) THEN r
  ELSE [r EXCEPT !.trb[r.enque] = trb @@ [n |-> r.n + 1], !.listener[r.enque] = t,
                 !.enque = next_ptr(@), !.n = @ + 1, !.last = [stage |-> trb.stage]]

SetupData(request_type, value, index, length) ==
  [request_type |-> request_type, value |-> value, index |-> index, length |-> length]

\* bmRequestType and bRequest.
get_actual_value(request_type) ==
  CASE request_type = "GetDescriptor" -> <<128, 6>>
    [] request_type = "SetConfigutation" -> <<0, 9>>
    [] request_type = "SetProtocol" -> <<33, 11>>
    [] request_type = "SetInterface" -> <<1, 11>>

\* What the TRB of each stage says of the direction: transfer type, data_dir and status_dir.
direction(req, stage) ==
  LET in == get_actual_value(req.request_type)[1] \div 128 = 1
  IN  CASE stage = "SetupStage" -> IF req.length = 0 THEN "No" ELSE IF in THEN "In" ELSE "Out"
        [] stage = "DataStage" -> IF in THEN "In" ELSE "Out"
        [] stage = "StatusStage" -> IF in /\ req.length # 0 THEN "Out" ELSE "In"
stage_trb(req, stage) == [stage |-> stage, req |-> req, dir |-> direction(req, stage)]

\* The stages of a control request, and which of them is awaited.
Stages(req) ==
  IF req.length = 0 THEN <<"SetupStage", "StatusStage">>
  ELSE <<"SetupStage", "DataStage", "StatusStage">>
awaited(req) == IF req.length = 0 THEN "SetupStage" ELSE "DataStage"

\* The `?` after each push: a full ring keeps the stages pushed before.
pushed(r, req, t) ==
  FoldLeft(LAMBDA ring, s : push_transfer_trb(ring, stage_trb(req, s),
                                              IF s = awaited(req) THEN t ELSE None),
           r, Stages(req))
whole(r, req) == pushed(r, req, None).n = r.n + Len(Stages(req))
pushed_trb(r, req) ==
  stage_trb(req, awaited(req)) @@ [n |-> r.n + (IF req.length = 0 THEN 1 ELSE 2)]

\* control_request, the doorbell, and the await of the receiver; an error ends the task.
control_request(t, slot, req, label) ==
  LET k == <<slot, 1>>
      r == rings[k]
  IN  IF whole(r, req)
      THEN /\ rings' = [rings EXCEPT ![k] = [pushed(r, req, t) EXCEPT !.bell = TRUE]]
           /\ await(t, pushed_trb(r, req))
           /\ Goto(t, label)
      ELSE rings' = [rings EXCEPT ![k] = pushed(r, req, None)] /\ finish(t)

\* subscribe_once of both classes, and the await of the receiver.
subscribe_once(t, slot, dci, label) ==
  LET k == <<slot, dci>>
      r == rings[k]
      trb == [stage |-> "Normal"]
  IN  IF is_full(r) THEN finish(t) /\ UNCHANGED rings
      ELSE /\ rings' = [rings EXCEPT ![k] = [push_transfer_trb(r, trb, t) EXCEPT !.bell = TRUE]]
           /\ await(t, trb @@ [n |-> r.n + 1])
           /\ Goto(t, label)

\* Wrong: the slots that have been used stay used.
freed_none(r, ptr) == r.deque

freed(r, ptr) == next_ptr(ptr)

on_trf_event ==
  /\ At("trf", "loop")
  /\ receive("TransferEvent")
  /\ LET e == message("TransferEvent")
         r == rings[e.ring]
     IN  /\ rings' = [rings EXCEPT ![e.ring].deque = freed(r, e.ptr), ![e.ring].listener[e.ptr] = None]
         /\ complete(r.listener[e.ptr], e)
  /\ UNCHANGED <<running, pc, cmd, dcbaa, xhc>>

Ok(e) == e.code \in {"Success", "ShortPacket"}

-----------------------------------------------------------------------------
(* The contexts, in the size that init_dcbaa has found.                     *)
ctx_size == IF Csz THEN "Csz64Bytes" ELSE "Csz32Bytes"
new_device_context(size) == IF size = "Csz64Bytes" THEN "DC64Byte" ELSE "DC32Byte"
new_input_context(size) == IF size = "Csz64Bytes" THEN "IC64Byte" ELSE "IC32Byte"
get_context_at(slot) == dcbaa[slot]

-----------------------------------------------------------------------------
(* The controller. A failed command changes nothing; a failed transfer      *)
(* halts its endpoint, and the driver knows no way to restart it.           *)
Codes == {"Success", "Error"}
Post(e) == events' = Append(events, e)
Fault(code) == code = "Error" => faults < MaxFaults
Count(code) == faults' = faults + (IF code = "Error" THEN 1 ELSE 0)

(* What an AddressDevice needs: a context, and a packet size right for the   *)
(* speed. Assumed: not that Port Enabled is set, which the scan at boot does *)
(* not wait for, and even clears by writing it back.                         *)
Packet == (0 :> {}) @@ (1 :> {8, 16, 32, 64}) @@ (2 :> {8}) @@ (3 :> {64}) @@ (4 :> {512})

ReadsInput(c) == c.input = (IF Csz THEN "IC64Byte" ELSE "IC32Byte")
Addressable(c) ==
  /\ c.slot # 0 /\ dcbaa[c.slot] = (IF Csz THEN "DC64Byte" ELSE "DC32Byte") /\ ReadsInput(c)
  /\ slots[c.slot].state = "enabled"
  /\ port[c.ctx.port].ccs
  /\ c.ctx.speed = Speed[port[c.ctx.port].dev] /\ c.ctx.max_packet_size \in Packet[c.ctx.speed]

\* The address of the first TRB not executed.
Executing == cmd.n - Len(cmd.trb) + 1

XhcEnableSlot(code) ==
  LET free == {s \in Slot \ {0} : slots[s].state = "free"}
      s == IF code = "Error" THEN 0 ELSE CHOOSE x \in free : \A y \in free : x <= y
  IN  /\ slots' = IF s = 0 THEN slots ELSE [slots EXCEPT ![s].state = "enabled"]
      /\ Post([kind |-> "CommandCompletion", ptr |-> Executing, code |-> code, slot |-> s])
      /\ Fault(code) /\ Count(code)

XhcAddressDevice(c, code) ==
  /\ IF Addressable(c) THEN Fault(code) /\ Count(code)
                       ELSE code = "Error" /\ UNCHANGED faults
  /\ slots' = IF code = "Error" THEN slots
              ELSE [slots EXCEPT ![c.slot] = [state |-> "addressed", port |-> c.ctx.port, eps |-> 1 :> 4]]
  /\ Post([kind |-> "CommandCompletion", ptr |-> Executing, code |-> code, slot |-> c.slot])

\* The EP Type field of an endpoint context.
EpType ==
  [IsochOut |-> 1, BulkOut |-> 2, InterruptOut |-> 3, Control |-> 4, IsochIn |-> 5, BulkIn |-> 6, InterruptIn |-> 7]

XhcConfigureEndpoint(c, code) ==
  /\ IF ReadsInput(c) THEN Fault(code) /\ Count(code) ELSE code = "Error" /\ UNCHANGED faults
  /\ slots' = IF code = "Error" THEN slots
              ELSE [slots EXCEPT ![c.slot].eps =
                      (1 :> 4) @@ [d \in {f \in DOMAIN c.eps : f <= c.context_entries} |-> EpType[c.eps[d]]]]
  /\ Post([kind |-> "CommandCompletion", ptr |-> Executing, code |-> code, slot |-> c.slot])

XhcCommand ==
  /\ cmd.trb # <<>>
  /\ LET c == Head(cmd.trb)
     IN  \E code \in Codes :
           \/ c.type = "EnableSlot" /\ XhcEnableSlot(code)
           \/ c.type = "AddressDevice" /\ XhcAddressDevice(c, code)
           \/ c.type = "ConfigureEndpoint" /\ XhcConfigureEndpoint(c, code)
  /\ cmd' = [cmd EXCEPT !.trb = Tail(@)]
  /\ UNCHANGED <<runtime, rings, dcbaa, port, reports, buf>>

\* What the device at port p sends in a data stage.
ConfigsAt(p) == Configs[port[p].dev]
DescriptorType(req) == req.value \div 256
ConfigOf(p, req) == ConfigsAt(p)[(req.value % 256) + 1]
Answer(p, req) ==
  IF DescriptorType(req) = 1 THEN [num_configurations |-> Len(ConfigsAt(p))]
  ELSE [descs |-> ConfigOf(p, req)]
Short(p, req) == DescriptorType(req) = 2 /\ ConfigOf(p, req)[1].total_length < req.length

\* The directions of a request that sends a descriptor, and of one without data; others are stalled.
Understood(trb) ==
  \/ trb.stage = "Normal"
  \/ LET code == get_actual_value(trb.req.request_type)
     IN  IF code = <<128, 6>> THEN trb.dir = (IF trb.stage = "StatusStage" THEN "Out" ELSE "In")
         ELSE code \in {<<0, 9>>, <<33, 11>>} /\ trb.dir = (IF trb.stage = "StatusStage" THEN "In" ELSE "No")

Present(s) == slots[s].port # None

\* The xHC executes the next TRB of an endpoint whose doorbell was rung.
XhcTransfer(k) ==
  LET r == rings[k]
      s == k[1]
      trb == r.trb[r.at]
      p == slots[s].port
  IN  /\ r.bell /\ ~r.halted /\ k[2] \in DOMAIN slots[s].eps
      /\ \E code \in Codes :
           /\ IF Present(s) /\ Understood(trb) THEN Fault(code) /\ Count(code)
                                               ELSE code = "Error" /\ UNCHANGED faults
           /\ reports' = reports + (IF trb.stage = "Normal" /\ code = "Success" THEN 1 ELSE 0)
           /\ reports' <= MaxReports
           /\ buf' = IF trb.stage = "DataStage" /\ code = "Success" THEN Answer(p, trb.req) ELSE buf
           /\ Post([kind |-> "TransferEvent", ring |-> k, ptr |-> r.at, trb |-> trb,
                    code |-> IF code = "Success" /\ trb.stage = "DataStage" /\ Short(p, trb.req)
                             THEN "ShortPacket" ELSE code])
           /\ rings' = [rings EXCEPT ![k].trb[r.at] = NoTrb, ![k].at = next_ptr(@),
                                     ![k].bell = next_ptr(r.at) # r.enque,
                                     ![k].halted = code = "Error"]
  /\ UNCHANGED <<runtime, cmd, dcbaa, slots, port>>

-----------------------------------------------------------------------------
(* The ports. An event announces a change of a port that had none pending.  *)
Changed(p) == port[p].csc \/ port[p].prc
Announce(p) ==
  IF Changed(p) THEN UNCHANGED events
  ELSE Post([kind |-> "PortStatusChange", port |-> p])

Unplugs == FoldFunction(+, 0, [p \in Port |-> port[p].unplugs])
Devices == Unplugs + Cardinality({p \in Port : port[p].ccs})

\* A device may be plugged in again where one was unplugged.
Plug(p) ==
  /\ ~port[p].ccs /\ Devices < MaxDevices
  /\ \E d \in DevicesFor[p] : port' = [port EXCEPT ![p].ccs = TRUE, ![p].csc = TRUE, ![p].dev = d]
  /\ Announce(p)
  /\ UNCHANGED <<runtime, driver_rings, slots, reports, faults, buf>>

Unplug(p) ==
  /\ port[p].ccs /\ faults < MaxFaults
  /\ faults' = faults + 1
  /\ port' = [port EXCEPT ![p].ccs = FALSE, ![p].csc = TRUE, ![p].pr = FALSE, ![p].dev = None,
                              ![p].unplugs = @ + 1]
  /\ slots' = [s \in Slot |-> [slots[s] EXCEPT !.port = IF @ = p THEN None ELSE @]]
  /\ Announce(p)
  /\ UNCHANGED <<runtime, driver_rings, reports, buf>>

ResetDone(p) ==
  /\ port[p].pr
  /\ port' = [port EXCEPT ![p].pr = FALSE, ![p].prc = TRUE]
  /\ Announce(p)
  /\ UNCHANGED <<runtime, driver_rings, slots, reports, faults, buf>>

-----------------------------------------------------------------------------
init_command_ring == [trb |-> <<>>, n |-> 0, listener |-> <<>>]
new_ring_set == <<>>

InitRings ==
  /\ cmd = init_command_ring
  /\ rings = new_ring_set
  /\ dcbaa = [s \in Slot |-> IF s = 0 THEN "scratchpad" ELSE "none"]
  /\ buf = <<>>
  /\ slots = [s \in Slot |-> [state |-> "free", port |-> None, eps |-> <<>>]]
  /\ \E there \in SUBSET Boot : \E d \in [there -> UNION {DevicesFor[p] : p \in there}] :
       /\ \A p \in there : d[p] \in DevicesFor[p]
       /\ port = [p \in Port |-> [ccs |-> p \in there, csc |-> p \in there, prc |-> FALSE, pr |-> FALSE,
                                  dev |-> IF p \in there THEN d[p] ELSE None, unplugs |-> 0]]
       /\ events = [i \in 1 .. Cardinality(there) |->
                      [kind |-> "PortStatusChange", port |-> SetToSortSeq(there, <)[i]]]
  /\ reports = 0
  /\ faults = 0
=============================================================================
