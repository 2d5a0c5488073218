----------------------------- MODULE MCUsbStack -----------------------------
(* UsbStack for TLC: at port 1 and there at boot, a mouse or a device       *)
(* without a driver, which has two configurations; for port 2, a keyboard   *)
(* with an alternate setting and a second interface.                        *)
EXTENDS UsbStack

Conf(val, total) == [type |-> 2, length |-> 9, total_length |-> total, configuration_value |-> val]
Intf(num, alt, protocol) ==
  [type |-> 4, length |-> 9, interface_number |-> num, alternate_setting |-> alt,
   class |-> 3, subclass |-> 1, protocol |-> protocol]
Ep(addr, attributes) == [type |-> 5, length |-> 7, endpoint_addr |-> addr, bm_attributes |-> attributes]
Hid == [type |-> 33, length |-> 9]

MCConfigs ==
  [mouse |-> << <<Conf(1, 34), Intf(0, 0, 2), Hid, Ep(129, 3)>> >>,
   keyboard |->
     << <<Conf(1, 64), Intf(0, 0, 1), Ep(130, 3), Intf(0, 1, 1), Ep(131, 3), Intf(1, 0, 0), Ep(4, 2), Ep(132, 2)>> >>,
   storage |->
     << <<Conf(1, 64), Intf(0, 0, 0), Ep(1, 2), Ep(129, 2), Intf(1, 0, 0), Ep(2, 2), Intf(2, 0, 0), Ep(3, 2)>>,
        <<Conf(2, 64), Intf(0, 0, 0), Ep(1, 2), Ep(129, 2), Intf(0, 1, 0), Ep(1, 3), Ep(129, 3), Intf(1, 0, 0)>> >>]
MCSpeed == [mouse |-> 2, keyboard |-> 1, storage |-> 3]
MCDevicesFor == <<{"mouse", "storage"}, {"keyboard"}>>

ASSUME DevicesWellFormed ==
  \A d \in DOMAIN Configs : \A i \in DOMAIN Configs[d] : WellFormed(Configs[d][i])

ASSUME Named == Task = UsbTasks /\ Channel = UsbChannels
=============================================================================
