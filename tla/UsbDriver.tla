------------------------------ MODULE UsbDriver ------------------------------
(***************************************************************************)
(* UsbDriver and UsbDevice of kernel/src/usb/usbd.rs, and the class        *)
(* drivers of kernel/src/usb/class: one task takes the addressed devices   *)
(* in turn, reads their descriptors, configures them, and starts a task    *)
(* for the first mouse and the first keyboard. `?` ends the task.          *)
(***************************************************************************)
EXTENDS DeviceInit, Descriptors

VARIABLES
  drv,      \* the fields and locals of main_loop
  class     \* the fields of MouseClass and KeyboardClass, and the reports passed on

Class == {"mouse", "keyboard"}

\* Between devices only the callbacks are left.
Idle(callback) ==
  [slot_id |-> 0, num_configurations |-> 0, confs |-> <<>>, buf_sz |-> 64, callback |-> callback, dev |-> <<>>]

InitDriver ==
  /\ drv = Idle(Class)
  /\ class = [c \in Class |-> [slot_id |-> 0, interface |-> 0, dci |-> 0, calls |-> 0]]

RunDrv(label) == At("drv", label)
ResumedOk(label) == resumed("drv", label) /\ Ok(got("drv"))
DrvRest == UNCHANGED <<class, init, cmd, dcbaa, xhc>>

\* The `?` after the await of a transfer.
transfer_failed ==
  /\ \E label \in {"device_read", "config_read", "configured", "initialized"} : resumed("drv", label)
  /\ ~Ok(got("drv"))
  /\ finish("drv")
  /\ drv' = Idle(drv.callback)
  /\ UNCHANGED rings /\ DrvRest

\* What the parsing makes of each configuration there is.
AllConfigs == UNION {Range(Configs[d]) : d \in DOMAIN Configs}
Read == [bytes \in AllConfigs |-> read_config(bytes)]
Constructed == [descs \in {Read[bytes] : bytes \in AllConfigs} |-> construct_configuration(descs)]

-----------------------------------------------------------------------------
\* The requests of the driver.
GetDeviceDescriptor == SetupData("GetDescriptor", 256, 0, 18)
GetConfigDescriptor(i_conf, buf_sz) == SetupData("GetDescriptor", 512 + i_conf, 0, buf_sz)
SetConfiguration(val) == SetupData("SetConfigutation", val, 0, 0)

addressed_device ==
  /\ RunDrv("loop")
  /\ receive("address")
  /\ drv' = [drv EXCEPT !.slot_id = message("address")]
  /\ Goto("drv", "read_device")
  /\ UNCHANGED <<executor, oneshot, rings>> /\ DrvRest

no_device == RunDrv("loop") /\ pending("drv", "address") /\ UNCHANGED <<drv, rings>> /\ DrvRest

read_device_descriptor ==
  /\ RunDrv("read_device")
  /\ control_request("drv", drv.slot_id, GetDeviceDescriptor, "device_read")
  /\ UNCHANGED drv /\ DrvRest

\* The bytes have been looked at and the buffer is dropped.
BufferRead ==
  /\ take("drv")
  /\ Goto("drv", "configs")
  /\ buf' = <<>>
  /\ UNCHANGED <<executor, channels, driver_rings, class, init, slots, port, events, reports, faults>>

device_read ==
  /\ ResumedOk("device_read")
  /\ drv' = [drv EXCEPT !.num_configurations = buf.num_configurations]
  /\ BufferRead

get_config_descriptor ==
  /\ RunDrv("configs") /\ Len(drv.confs) < drv.num_configurations
  /\ control_request("drv", drv.slot_id, GetConfigDescriptor(Len(drv.confs), drv.buf_sz), "config_read")
  /\ UNCHANGED drv /\ DrvRest

\* Shorter than the buffer: again, with a buffer of exactly that size.
config_short ==
  /\ ResumedOk("config_read") /\ buf.descs[1].total_length < drv.buf_sz
  /\ drv' = [drv EXCEPT !.buf_sz = buf.descs[1].total_length]
  /\ BufferRead

config_whole ==
  /\ ResumedOk("config_read") /\ buf.descs[1].total_length >= drv.buf_sz
  /\ drv' = [drv EXCEPT !.confs = Append(@, Read[buf.descs]), !.buf_sz = 64]
  /\ BufferRead

\* UsbDevice::new, and what set_configuration leaves in it once the request has succeeded.
new_device(slot_id, configs) ==
  [slot_id |-> slot_id, configs |-> configs, config_selected |-> None, alternates_selected |-> <<>>]
configuration_set(dev, config) ==
  [dev EXCEPT !.config_selected = config,
              !.alternates_selected = @ \o [i \in 1 .. Len(dev.configs[config + 1].interfaces) |-> 0]]

\* construct_device, and set_configuration(0).
set_configuration ==
  /\ RunDrv("configs") /\ Len(drv.confs) = drv.num_configurations
  /\ LET conf_arr == [i \in DOMAIN drv.confs |-> Constructed[drv.confs[i]]]
     IN  IF \E i \in DOMAIN conf_arr : ~conf_arr[i].some THEN finish("drv") /\ UNCHANGED <<drv, rings>>
         ELSE /\ drv' = [drv EXCEPT !.dev = new_device(drv.slot_id, [i \in DOMAIN conf_arr |-> conf_arr[i].val]),
                                    !.confs = <<>>]
              /\ control_request("drv", drv.slot_id, SetConfiguration(conf_arr[1].val.configuration_val), "configured")
  /\ DrvRest

\* The alternate setting selected for an interface is looked up under the interface's number.
selected_endpoints(dev) ==
  LET intf_arr == dev.configs[dev.config_selected + 1].interfaces
      alt(intf) == intf.alternates[dev.alternates_selected[intf.interface_num + 1] + 1]
  IN  UNION {LET eps == alt(intf_arr[i]).endpoints
             IN  {eps[j] : j \in {k \in DOMAIN eps : eps[k].type = 5}} : i \in DOMAIN intf_arr}

endpoint_type(ep) ==
  LET direction_in == ep.endpoint_addr \div 128
      transfer_type == ep.bm_attributes % 4
  IN  CASE <<direction_in, transfer_type>> = <<0, 1>> -> "IsochOut"
        [] <<direction_in, transfer_type>> = <<0, 2>> -> "BulkOut"
        [] <<direction_in, transfer_type>> = <<0, 3>> -> "InterruptOut"
        [] transfer_type = 0 -> "Control"
        [] <<direction_in, transfer_type>> = <<1, 1>> -> "IsochIn"
        [] <<direction_in, transfer_type>> = <<1, 2>> -> "BulkIn"
        [] <<direction_in, transfer_type>> = <<1, 3>> -> "InterruptIn"

\* context_entries.max(dci + 1)
context_entries(dcis) == CHOOSE n \in {d + 1 : d \in dcis} \union {1} : \A d \in dcis : d + 1 <= n

enable_endpoints ==
  /\ ResumedOk("configured")
  /\ drv' = [drv EXCEPT !.dev = configuration_set(@, 0)]
  /\ LET endpoints == selected_endpoints(drv'.dev)
         dcis == {calc_dci(ep) : ep \in endpoints}
         ep_context(dci) == endpoint_type(CHOOSE ep \in endpoints : calc_dci(ep) = dci)
     IN  /\ rings' = [k \in {<<drv.slot_id, d>> : d \in dcis} |-> new_ring] @@ rings
         /\ IF command_ring_full THEN finish("drv") /\ UNCHANGED cmd
            ELSE push_command("drv", [type |-> "ConfigureEndpoint", slot |-> drv.slot_id,
                                      input |-> new_input_context(ctx_size),
                                      eps |-> [d \in dcis |-> ep_context(d)],
                                      context_entries |-> context_entries(dcis)], "endpoints_enabled")
  /\ UNCHANGED <<class, init, dcbaa, xhc>>

\* configs[0].interfaces[0].alternates[0], whose class, subclass and protocol are looked at.
first_alternate == drv.dev.configs[1].interfaces[1].alternates[1]
class_of(intf) ==
  IF <<intf.class, intf.subclass>> = <<3, 1>> /\ intf.protocol \in {1, 2}
  THEN IF intf.protocol = 2 THEN "mouse" ELSE "keyboard"
  ELSE None

\* Both classes take the first endpoint, and ask for the boot protocol.
first_endpoint(eps) ==
  LET s == {i \in DOMAIN eps : eps[i].type = 5}
  IN  eps[CHOOSE i \in s : \A j \in s : i <= j]
MouseClass(slot_id, intf) ==
  [slot_id |-> slot_id, interface |-> intf.interface_num, dci |-> calc_dci(first_endpoint(intf.endpoints)), calls |-> 0]
KeyboardClass(slot_id, intf) ==
  [slot_id |-> slot_id, interface |-> intf.interface_num, dci |-> calc_dci(first_endpoint(intf.endpoints)), calls |-> 0]
new_class(c, slot_id, intf) == IF c = "mouse" THEN MouseClass(slot_id, intf) ELSE KeyboardClass(slot_id, intf)

initialize_mouse(m) == SetupData("SetProtocol", 0, m.interface, 0)
initialize_keyboard(k) == SetupData("SetProtocol", 0, k.interface, 0)
initialize(c) == IF c = "mouse" THEN initialize_mouse(class'[c]) ELSE initialize_keyboard(class'[c])

\* The result of the ConfigureEndpoint command is not looked at.
start_class ==
  /\ resumed("drv", "endpoints_enabled")
  /\ \E c \in Class :
       /\ class_of(first_alternate) = c /\ c \in drv.callback
       /\ drv' = [drv EXCEPT !.callback = @ \ {c}]
       /\ class' = [class EXCEPT ![c] = new_class(c, drv.slot_id, first_alternate)]
       /\ control_request("drv", drv.slot_id, initialize(c), "initialized")
  /\ UNCHANGED <<init, cmd, dcbaa, xhc>>

other_class ==
  /\ resumed("drv", "endpoints_enabled")
  /\ class_of(first_alternate) \notin drv.callback
  /\ take("drv")
  /\ drv' = Idle(drv.callback)
  /\ Goto("drv", "loop")
  /\ UNCHANGED <<executor, channels, rings>> /\ DrvRest

\* SPAWNER: the task of the class is queued.
spawn ==
  /\ ResumedOk("initialized")
  /\ LET c == class_of(first_alternate)
     IN  /\ spawn_task(c)
         /\ pc' = [pc EXCEPT !["drv"] = "loop", ![c] = "subscribe"]
  /\ take("drv")
  /\ drv' = Idle(drv.callback)
  /\ UNCHANGED <<running, channels, rings>> /\ DrvRest

main_loop_driver ==
  \/ addressed_device \/ no_device \/ read_device_descriptor \/ device_read
  \/ get_config_descriptor \/ config_short \/ config_whole \/ set_configuration
  \/ enable_endpoints \/ start_class \/ other_class \/ spawn \/ transfer_failed

-----------------------------------------------------------------------------
subscribe(c) ==
  /\ At(c, "subscribe")
  /\ subscribe_once(c, class[c].slot_id, class[c].dci, "report")
  /\ UNCHANGED <<class, drv, init, cmd, dcbaa, xhc>>

\* A report is passed to the callback, an error is not; either way the next is asked for.
callback(c) ==
  /\ resumed(c, "report")
  /\ class' = [class EXCEPT ![c].calls = @ + (IF Ok(got(c)) THEN 1 ELSE 0)]
  /\ take(c)
  /\ Goto(c, "subscribe")
  /\ UNCHANGED <<executor, channels, drv, init, driver_rings, xhc>>
=============================================================================
