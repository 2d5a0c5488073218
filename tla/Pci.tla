-------------------------------- MODULE Pci --------------------------------
(***************************************************************************)
(* Finding the USB controller on the PCI buses, and routing its interrupt  *)
(* (kernel/src/pci.rs and find_xhc_device of kernel/src/main.rs). The      *)
(* configuration space is a function from <<bus, device, function>> to     *)
(* registers by offset; a register is what the code reads in it: a number, *)
(* a class code, or a record of fields.                                    *)
(***************************************************************************)
EXTENDS Integers, Sequences, SequencesExt, FiniteSets

CONSTANTS
  MaxDevices,   \* 32, the length of PCIController::devices
  NDevices,     \* 32, devices of a bus
  NFunctions    \* 8, functions of a device

Nothing == 65535
Intel == 32902
XhcClass == <<12, 3, 48>>
EhciClass == <<12, 3, 32>>
BridgeClass == <<6, 4>>

\* Bit 31, the enable bit, is left out.
make_address(bus, device, function, reg_addr) ==
  bus * 65536 + device * 2048 + function * 256 + 4 * (reg_addr \div 4)

\* The host bridge: what a read of CONFIG_DATA gives, for what CONFIG_ADDRESS holds.
\* Where there is no function, all bits are one.
AllOnes(reg_addr) == IF reg_addr = 12 THEN [multi |-> TRUE] ELSE Nothing
ConfigData(space, address) ==
  LET bdf == <<address \div 65536, (address \div 2048) % 32, (address \div 256) % 8>>
      reg_addr == address % 256
  IN  IF bdf \in DOMAIN space THEN space[bdf][reg_addr] ELSE AllOnes(reg_addr)

read_confreg(space, d, reg_addr) == ConfigData(space, make_address(d[1], d[2], d[3], reg_addr))
read_vendor_id(space, d) == read_confreg(space, d, 0)
is_valid(space, d) == read_vendor_id(space, d) # Nothing
read_class_code(space, d) == read_confreg(space, d, 8)
is_single_function_device(space, d) == ~read_confreg(space, d, 12).multi
matches(space, d, class) == read_class_code(space, d) = class

-----------------------------------------------------------------------------
(* PCIController. Err keeps what was found, and every loop ends at it. The  *)
(* loops go over the devices or functions that pass their is_valid.         *)
new_controller == [devices |-> <<>>, err |-> FALSE]
add_device(pci, d) ==
  IF Len(pci.devices) = MaxDevices THEN [pci EXCEPT !.err = TRUE]
  ELSE [pci EXCEPT !.devices = Append(@, d)]

Upto(first, n) == [i \in 1 .. n - first |-> first + i - 1]
ForEach(pci, s, op(_, _)) == FoldLeft(LAMBDA p, x : IF p.err THEN p ELSE op(p, x), pci, s)

RECURSIVE scan_bus(_, _, _)

is_bridge(space, d) == SubSeq(read_class_code(space, d), 1, 2) = BridgeClass

scan_function(pci, space, d) ==
  LET added == add_device(pci, d)
  IN  IF ~added.err /\ is_bridge(space, d)
      THEN scan_bus(added, space, read_confreg(space, d, 24).secondary)
      ELSE added

\* Wrong: only the first function of a device is looked at.
scan_device_first(pci, space, bus, device) == scan_function(pci, space, <<bus, device, 0>>)

scan_device(pci, space, bus, device) ==
  LET zero == scan_function(pci, space, <<bus, device, 0>>)
      valid == SelectSeq(Upto(1, NFunctions), LAMBDA f : is_valid(space, <<bus, device, f>>))
  IN  IF zero.err \/ is_single_function_device(space, <<bus, device, 0>>) THEN zero
      ELSE ForEach(zero, valid, LAMBDA p, f : scan_function(p, space, <<bus, device, f>>))

scan_bus(pci, space, bus) ==
  LET valid == SelectSeq(Upto(0, NDevices), LAMBDA d : is_valid(space, <<bus, d, 0>>))
  IN  ForEach(pci, valid, LAMBDA p, d : scan_device(p, space, bus, d))

scan_all_bus(space) ==
  LET valid == SelectSeq(Upto(0, NFunctions), LAMBDA f : is_valid(space, <<0, 0, f>>))
  IN  IF is_single_function_device(space, <<0, 0, 0>>) THEN scan_bus(new_controller, space, 0)
      ELSE ForEach(new_controller, valid, LAMBDA p, f : scan_bus(p, space, f))

\* The first xHC made by Intel, or else the last xHC; <<>> if there is none.
find_xhc(space, devices) ==
  LET xhcs == SelectSeq(devices, LAMBDA d : matches(space, d, XhcClass))
      intel == SelectSeq(xhcs, LAMBDA d : read_vendor_id(space, d) = Intel)
  IN  CASE xhcs = <<>> -> <<>>
        [] intel # <<>> -> Head(intel)
        [] OTHER -> Last(xhcs)

intel_ehci_found(space, devices) ==
  \E i \in DOMAIN devices :
    read_vendor_id(space, devices[i]) = Intel /\ matches(space, devices[i], EhciClass)

-----------------------------------------------------------------------------
(* Registers of one function, conf.                                         *)
MSI == 5

\* Where message data lies, behind an address of 64 or of 32 bits.
msg_data_addr(conf, cap_addr) == IF conf[cap_addr].addr_64_capable THEN cap_addr + 12 ELSE cap_addr + 8

\* The writes of configure_msi_register, in this order.
write_header(conf, cap_addr) == [conf EXCEPT ![cap_addr].msi_enable = TRUE]
write_msg_addr(conf, cap_addr, apic_id) ==
  [conf EXCEPT ![cap_addr + 4] = [destination_id |-> apic_id, fee |-> TRUE, redirection_hint |-> FALSE]]
write_msg_data(conf, cap_addr, vec) ==
  [conf EXCEPT ![msg_data_addr(conf, cap_addr)] = [vector |-> vec, delivery_mode |-> 0, level |-> TRUE]]

\* An address above 4 GiB takes two registers. High stands for 2^32.
read_bar0(conf, High) ==
  IF conf[16].is64 THEN conf[16].addr + High * conf[20].addr ELSE conf[16].addr

-----------------------------------------------------------------------------
\* Reference: the buses behind the host bridge, and the functions on them.
IsRoot(space, b) ==
  /\ <<0, 0, b>> \in DOMAIN space
  /\ b = 0 \/ <<0, 0, 0>> \notin DOMAIN space \/ space[<<0, 0, 0>>][12].multi
Present(space, d) ==
  /\ d \in DOMAIN space /\ <<d[1], d[2], 0>> \in DOMAIN space
  /\ d[3] = 0 \/ space[<<d[1], d[2], 0>>][12].multi
Closed(space, buses) ==
  /\ \A b \in 0 .. 7 : IsRoot(space, b) => b \in buses
  /\ \A d \in DOMAIN space :
       d[1] \in buses /\ Present(space, d) /\ SubSeq(space[d][8], 1, 2) = BridgeClass
         => space[d][24].secondary \in buses
Reachable(space) ==
  LET all == {0} \union {d[1] : d \in DOMAIN space} \union 0 .. 7
      behind == {b \in all : \A buses \in SUBSET all : Closed(space, buses) => b \in buses}
  IN  {d \in DOMAIN space : d[1] \in behind /\ Present(space, d)}
=============================================================================
