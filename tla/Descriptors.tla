----------------------------- MODULE Descriptors -----------------------------
(***************************************************************************)
(* How kernel/src/usb/usbd.rs turns the bytes of a configuration into      *)
(* configurations, interfaces, alternate settings and endpoints. The bytes *)
(* are given as the descriptors they hold, each with its length.           *)
(***************************************************************************)
EXTENDS Integers, Sequences, SequencesExt

Byte == 0 .. 255

\* The fields that the driver reads.
ConfigurationDescriptor == [type : {2}, length : Byte, total_length : Nat, configuration_value : Byte]
InterfaceDescriptor ==
  [type : {4}, length : Byte, interface_number : Byte, alternate_setting : Byte,
   class : Byte, subclass : Byte, protocol : Byte]
EndpointDescriptor == [type : {5}, length : Byte, endpoint_addr : Byte, bm_attributes : Byte]
HidDescriptor == [type : {33}, length : Byte]

\* The device context index: 2 * (addr & 0b1111) + (addr >> 7).
calc_dci(ep) == 2 * (ep.endpoint_addr % 16) + ep.endpoint_addr \div 128

-----------------------------------------------------------------------------
\* Where the i-th descriptor starts, and the one that starts at ptr.
Start(bytes, i) == FoldLeft(LAMBDA n, d : n + d.length, 0, SubSeq(bytes, 1, i - 1))
At_ptr(bytes, ptr) == {i \in DOMAIN bytes : Start(bytes, i) = ptr}

read_descriptor(bytes, ptr) == bytes[CHOOSE i \in At_ptr(bytes, ptr) : TRUE]

\* The loop of read_config over the buffer; zeroes end it like the end of the buffer.
RECURSIVE read_from(_, _, _)
read_from(bytes, ptr, buf_end) ==
  IF ptr >= buf_end \/ At_ptr(bytes, ptr) = {} THEN <<>>
  ELSE LET d == read_descriptor(bytes, ptr)
       IN  <<d>> \o read_from(bytes, ptr + d.length, buf_end)

read_config(bytes) == read_from(bytes, 0, bytes[1].total_length)

-----------------------------------------------------------------------------
(* The slices of desc_arr that the code passes on are suffixes.             *)
Nothing == [some |-> FALSE]
Some(val, remain) == [some |-> TRUE, val |-> val, remain |-> remain]
From(desc_arr, i) == SubSeq(desc_arr, i, Len(desc_arr))
Is(desc_arr, type) == desc_arr # <<>> /\ desc_arr[1].type = type

\* The first Interface or Configuration descriptor after the first one, or the end.
Stop(desc_arr) ==
  LET s == {i \in 2 .. Len(desc_arr) : desc_arr[i].type \in {2, 4}} \union {Len(desc_arr) + 1}
  IN  CHOOSE i \in s : \A j \in s : i <= j

new_alternate(desc, endpoints) ==
  [endpoints |-> endpoints, interface_num |-> desc.interface_number,
   alternate_setting_num |-> desc.alternate_setting,
   class |-> desc.class, subclass |-> desc.subclass, protocol |-> desc.protocol]
new_interface(interface_num, alternates_of) == [interface_num |-> interface_num, alternates |-> alternates_of]
new_configuration(desc, intfs) == [interfaces |-> intfs, configuration_val |-> desc.configuration_value]

construct_interface_alternate(desc_arr) ==
  LET i == Stop(desc_arr)
  IN  IF ~Is(desc_arr, 4) \/ Is(From(desc_arr, i), 2) THEN Nothing
      ELSE Some(new_alternate(desc_arr[1], SubSeq(desc_arr, 2, i - 1)), From(desc_arr, i))

\* Wrong: an alternate setting of another interface is taken along.
RECURSIVE alternates_greedy(_, _)
alternates_greedy(desc_arr, num) ==
  LET a == construct_interface_alternate(desc_arr)
  IN  IF ~a.some THEN Some(<<>>, desc_arr)
      ELSE LET rest == alternates_greedy(a.remain, num)
           IN  Some(<<a.val>> \o rest.val, rest.remain)

\* The loop of construct_interface.
RECURSIVE alternates(_, _)
alternates(desc_arr, num) ==
  LET a == construct_interface_alternate(desc_arr)
  IN  IF ~a.some \/ a.val.interface_num # num THEN Some(<<>>, desc_arr)
      ELSE LET rest == alternates(a.remain, num)
           IN  Some(<<a.val>> \o rest.val, rest.remain)

construct_interface(desc_arr) ==
  LET num == desc_arr[1].interface_number
      alts == alternates(desc_arr, num)
  IN  IF ~Is(desc_arr, 4) THEN Nothing
      ELSE Some(new_interface(num, alts.val), alts.remain)

\* The loop of construct_configuration.
RECURSIVE interfaces(_)
interfaces(desc_arr) ==
  LET intf == construct_interface(desc_arr)
  IN  IF ~intf.some THEN <<>> ELSE <<intf.val>> \o interfaces(intf.remain)

construct_configuration(desc_arr) ==
  IF ~Is(desc_arr, 2) THEN Nothing
  ELSE Some(new_configuration(desc_arr[1], interfaces(Tail(desc_arr))), <<>>)

-----------------------------------------------------------------------------
(* What a configuration means, without the parsing: an endpoint belongs to  *)
(* the last Interface descriptor before it, and is there at first if that   *)
(* is alternate setting 0.                                                  *)
OwnerOf(descs, i) ==
  CHOOSE j \in 1 .. i : descs[j].type = 4 /\ \A k \in j + 1 .. i : descs[k].type # 4
DefaultEndpoints(descs) ==
  {descs[i] : i \in {k \in DOMAIN descs : descs[k].type = 5
                                          /\ descs[OwnerOf(descs, k)].alternate_setting = 0}}

\* What the driver relies on in a device; anything else is undefined or a panic in the code.
WellFormed(descs) ==
  /\ Len(descs) > 2 /\ descs[1].type = 2 /\ descs[2].type = 4
  /\ \A i \in 2 .. Len(descs) : descs[i].type # 2
  /\ descs[1].total_length = Start(descs, Len(descs) + 1)
  /\ descs[1].total_length <= 64
  /\ \A i \in DOMAIN descs : descs[i].type = 4 /\ descs[i].alternate_setting = 0 =>
       descs[i].interface_number =
         Len(SelectSeq(SubSeq(descs, 1, i - 1), LAMBDA d : d.type = 4 /\ d.alternate_setting = 0))
=============================================================================
