----------------------------- MODULE XhciStart -----------------------------
(***************************************************************************)
(* Taking the USB controller over from the firmware, resetting it, giving  *)
(* it its tables and rings, and starting it (initialize_xhci of            *)
(* kernel/src/usb/xhci.rs, init_dcbaa of kernel/src/usb/device.rs). The    *)
(* driver polls registers that the firmware and the controller change. A   *)
(* pointer register is "none", "null", or names whose memory it points to. *)
(***************************************************************************)
EXTENDS Integers, FiniteSetsExt

CONSTANTS
  LARGEST   \* 256, words of 8 bytes in the largest block of the allocator, half a frame

VARIABLES
  xhc,     \* the controller's registers
  cap,     \* ownership_handoff: offset of the capability looked at
  dcbaa    \* the device context base address array: the frames behind each entry

controller == <<xhc, cap, dcbaa>>

\* An extended capability of this number is USB Legacy Support.
USBLEGSUP == 1

InitXhc(hw) ==
  /\ xhc = [bios_owned |-> hw.bios, os_owned |-> hw.os, smi |-> hw.bios,
            run_stop |-> hw.running, hc_halted |-> ~hw.running, hcreset |-> FALSE, cnr |-> FALSE,
            inte |-> FALSE, ie |-> FALSE, max_slots |-> 0,
            dcbaap |-> IF hw.running THEN "firmware" ELSE "none",
            crcr |-> IF hw.running THEN "firmware" ELSE "none",
            erst |-> IF hw.running THEN "firmware" ELSE "none"]
  /\ cap = hw.ex_cap_ptr /\ dcbaa = <<>>

-----------------------------------------------------------------------------
(* The firmware and the controller.                                         *)
BiosReleases ==
  /\ xhc.os_owned /\ xhc.bios_owned
  /\ xhc' = [xhc EXCEPT !.bios_owned = FALSE] /\ UNCHANGED <<cap, dcbaa>>
Halts ==
  /\ ~xhc.run_stop /\ ~xhc.hc_halted
  /\ xhc' = [xhc EXCEPT !.hc_halted = TRUE] /\ UNCHANGED <<cap, dcbaa>>
Starts ==
  /\ xhc.run_stop /\ xhc.hc_halted /\ ~xhc.hcreset
  /\ xhc' = [xhc EXCEPT !.hc_halted = FALSE] /\ UNCHANGED <<cap, dcbaa>>
Resets ==
  /\ xhc.hcreset
  /\ xhc' = [xhc EXCEPT !.hcreset = FALSE, !.cnr = TRUE, !.run_stop = FALSE, !.hc_halted = TRUE,
                        !.inte = FALSE, !.ie = FALSE, !.max_slots = 0,
                        !.dcbaap = "none", !.crcr = "none", !.erst = "none"]
  /\ UNCHANGED <<cap, dcbaa>>
GetsReady ==
  /\ xhc.cnr /\ xhc' = [xhc EXCEPT !.cnr = FALSE] /\ UNCHANGED <<cap, dcbaa>>
XhcStep == BiosReleases \/ Halts \/ Starts \/ Resets \/ GetsReady

-----------------------------------------------------------------------------
(* ownership_handoff                                                        *)
is_legacy(hw) == hw.caps[cap].cap_id = USBLEGSUP
has_next(hw) == hw.caps[cap].next_cap_ptr # 0
next(hw) == cap' = cap + hw.caps[cap].next_cap_ptr /\ UNCHANGED <<xhc, dcbaa>>

set_os_owned == xhc' = [xhc EXCEPT !.os_owned = TRUE] /\ UNCHANGED <<cap, dcbaa>>

\* Wrong: the driver does not wait for the firmware.
handed_over_asked == xhc.os_owned

handed_over == ~xhc.bios_owned /\ xhc.os_owned
turn_off_smis == xhc' = [xhc EXCEPT !.smi = FALSE] /\ UNCHANGED <<cap, dcbaa>>

-----------------------------------------------------------------------------
(* reset_hc                                                                 *)
stop_hc ==
  /\ xhc' = [xhc EXCEPT !.inte = FALSE, !.run_stop = @ /\ xhc.hc_halted]
  /\ UNCHANGED <<cap, dcbaa>>
set_reset == xhc.hc_halted /\ xhc' = [xhc EXCEPT !.hcreset = TRUE] /\ UNCHANGED <<cap, dcbaa>>
reset_over == ~xhc.hcreset
hc_ready == ~xhc.cnr

-----------------------------------------------------------------------------
(* Tables and rings, start.                                                 *)
find_lsb(bits) == Min({16} \union {i \in 0 .. 14 : i \in bits})

\* The allocator takes an array from a block when it is smaller than the largest, from frames
\* when it is larger, and returns null when it is as large.
is_null(words) == words = LARGEST
array_frames(words) == IF words > LARGEST THEN <<(words + 2 * LARGEST - 1) \div (2 * LARGEST)>> ELSE <<>>

\* In frames. The allocator panics on a page that is larger than one.
page_size(hw) == 2 ^ find_lsb(hw.pagesize)
make_scratchpad(hw) ==
  [ok |-> hw.max_scratchpad_buffers > 0 => ~is_null(hw.max_scratchpad_buffers) /\ page_size(hw) = 1,
   array |-> array_frames(hw.max_scratchpad_buffers),
   pages |-> [i \in 1 .. hw.max_scratchpad_buffers |-> page_size(hw)]]

\* aligned_zeros does not look at the pointer it gets.
init_dcbaa(hw, pages) ==
  /\ dcbaa' = [slot \in 0 .. hw.number_of_device_slots |-> IF slot = 0 THEN pages ELSE {}]
  /\ xhc' = [xhc EXCEPT !.max_slots = hw.number_of_device_slots,
                        !.dcbaap = IF is_null(hw.number_of_device_slots + 1) THEN "null" ELSE "kernel"]
  /\ UNCHANGED cap
init_command_ring == xhc' = [xhc EXCEPT !.crcr = "kernel"] /\ UNCHANGED <<cap, dcbaa>>
init_event_ring == xhc' = [xhc EXCEPT !.erst = "kernel"] /\ UNCHANGED <<cap, dcbaa>>
enable_xhci_interrupt_and_start ==
  xhc' = [xhc EXCEPT !.ie = TRUE, !.inte = TRUE, !.run_stop = TRUE] /\ UNCHANGED <<cap, dcbaa>>
started == ~xhc.hc_halted
=============================================================================
