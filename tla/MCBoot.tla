------------------------------- MODULE MCBoot -------------------------------
(***************************************************************************)
(* Machines to boot: a good one, and others that differ from it in their   *)
(* kernel file, firmware, memory, buses or controller, good and bad ones.  *)
(* A page has 2 bytes, a page table 2 entries, the largest block 4 words,  *)
(* and the PCI controller room for 6 functions.                            *)
(***************************************************************************)
EXTENDS Boot

-----------------------------------------------------------------------------
(* Kernel files. The handlers are a byte of code each.                      *)
Phdr(type, offset, vaddr, filesz, memsz) ==
  [p_type |-> type, p_offset |-> offset, p_vaddr |-> vaddr, p_filesz |-> filesz, p_memsz |-> memsz]
GNU_STACK == 1685382481
File(headers, bss) ==
  [bytes |-> <<"header", "xhci_interrupt_handler", "lapic_interrupt_handler", "data">>, prog_headers |-> headers,
   xhci_interrupt_handler |-> 6, lapic_interrupt_handler |-> 7, bss |-> bss]
TwoSections == File(<<Phdr(6, 0, 0, 1, 1), Phdr(1, 3, 4, 1, 1), Phdr(1, 1, 6, 2, 3), Phdr(GNU_STACK, 0, 0, 0, 0)>>, 8)
Descending == File(<<Phdr(1, 1, 6, 3, 5), Phdr(1, 0, 4, 1, 2)>>, 10)
Files == {TwoSections, Descending,
          File(<<Phdr(6, 0, 6, 3, 5)>>, 8), File(<<Phdr(1, 1, 6, 4, 5)>>, 10),
          File(<<Phdr(1, 1, 6, 3, 2)>>, 8), File(<<Phdr(1, 1, 6, 2, 3), Phdr(1, 0, 5, 1, 1)>>, 8),
          File(<<Phdr(1, 1, 6, 2, 9)>>, 8)}

-----------------------------------------------------------------------------
(* Memory maps.                                                             *)
Desc(first, last, available) == [physical_start |-> first, num_pages |-> last + 1 - first, available |-> available]
Low == <<Desc(0, 0, TRUE), Desc(1, 1, FALSE)>>
Map(last) == Low \o <<Desc(2, last, TRUE), Desc(last + 1, last + 2, FALSE)>>
Maps == {Map(28), Map(2), Map(5), Map(11), Map(15), Map(24),
         Low \o <<Desc(2, 3, TRUE), Desc(4, 4, FALSE), Desc(5, 30, TRUE)>>,
         Low \o <<Desc(2, 8, TRUE), Desc(11, 33, TRUE)>>,
         Low \o <<Desc(2, 40, TRUE)>>, Map(28) \o <<Desc(36, 36, FALSE)>>}
\* The shadow buffer, blocks for the cursor, the two buffers of the console, taskB's stack.
MCTakes == [initialize_winmgr |-> <<2>>, initialize_windows |-> <<1>>, init_console |-> <<2, 2>>, tasks |-> <<2>>]

-----------------------------------------------------------------------------
(* Firmware.                                                                *)
Table(signature, sum, is32) == [signature |-> signature, sum |-> sum, pm_timer_is_32 |-> is32]
Tables(is32) == <<Table("APIC", 0, FALSE), Table("FACP", 7, ~is32), Table("FACP", 0, is32), Table("FACP", 0, ~is32)>>
Acpi24 == [rsdp |-> [signature |-> "RSD PTR ", revision |-> 2, sum20 |-> 0, sum36 |-> 0],
           xsdt |-> [signature |-> "XSDT", sum |-> 0, length |-> 71, entries |-> Tables(FALSE)]]
Acpis == {Acpi24, [Acpi24 EXCEPT !.xsdt.entries = Tables(TRUE)],
          [Acpi24 EXCEPT !.rsdp.revision = 0], [Acpi24 EXCEPT !.rsdp.sum36 = 1],
          [Acpi24 EXCEPT !.xsdt.sum = 1], [Acpi24 EXCEPT !.xsdt.length = 52], [Acpi24 EXCEPT !.xsdt.length = 20]}

-----------------------------------------------------------------------------
(* Buses.                                                                   *)
Regs(vendor, class, multi) == (0 :> vendor) @@ (8 :> class) @@ (12 :> [multi |-> multi])
Host(multi) == Regs(4660, <<6, 0, 0>>, multi)
Bridge(secondary) == Regs(4660, <<6, 4, 0>>, FALSE) @@ (24 :> [secondary |-> secondary])
Other(vendor, class) == Regs(vendor, class, FALSE)
Cap(id, next_ptr, is64) == [cap_id |-> id, next_cap_ptr |-> next_ptr, addr_64_capable |-> is64, msi_enable |-> FALSE]
Msg == [field |-> 0]
Xhc(vendor, multi, is64, bar, bar_upper) ==
  Regs(vendor, XhcClass, multi)
  @@ (16 :> [addr |-> bar, is64 |-> is64]) @@ (20 :> [addr |-> bar_upper])
  @@ (52 :> 64) @@ (64 :> Cap(17, 80, FALSE)) @@ (80 :> Cap(MSI, 0, is64))
  @@ (84 :> Msg) @@ (88 :> Msg) @@ (92 :> Msg) @@ (208 :> 0) @@ (212 :> 15)
OneXhc == Xhc(4660, FALSE, TRUE, 12, 0)
NoMsi == [r \in DOMAIN OneXhc \ {80} |-> IF r = 64 THEN Cap(17, 0, FALSE) ELSE OneXhc[r]]

At(bus, device, function) == <<bus, device, function>>
OneBus == (At(0, 0, 0) :> Host(FALSE)) @@ (At(0, 31, 0) :> Xhc(4660, FALSE, TRUE, 12, 0))
Bridged ==
  (At(0, 0, 0) :> Host(FALSE)) @@ (At(0, 1, 0) :> Bridge(2)) @@ (At(2, 0, 0) :> Regs(Intel, <<2, 0, 0>>, TRUE))
  @@ (At(2, 0, 7) :> Xhc(Intel, TRUE, FALSE, 12, 0)) @@ (At(0, 29, 0) :> Other(Intel, EhciClass))
  @@ (At(0, 29, 1) :> Other(4660, <<1, 0, 0>>)) @@ (At(0, 30, 0) :> Xhc(4660, FALSE, FALSE, 0, 0))
TwoHosts ==
  (At(0, 0, 0) :> Host(TRUE)) @@ (At(0, 0, 1) :> Host(FALSE))
  @@ (At(0, 3, 0) :> Xhc(4660, FALSE, TRUE, 0, 0)) @@ (At(1, 2, 0) :> Xhc(4660, FALSE, TRUE, 12, 0))
Buses == {OneBus, Bridged, TwoHosts,
          [OneBus EXCEPT ![At(0, 31, 0)] = Xhc(4660, FALSE, FALSE, 12, 1)],
          [OneBus EXCEPT ![At(0, 31, 0)] = Xhc(4660, FALSE, TRUE, 12, 1)],
          [OneBus EXCEPT ![At(0, 31, 0)] = Xhc(4660, FALSE, TRUE, 0, 0)],
          [OneBus EXCEPT ![At(0, 31, 0)] = NoMsi],
          [OneBus EXCEPT ![At(0, 31, 0)] = Other(4660, EhciClass)],
          OneBus @@ (At(0, 1, 0) :> Bridge(0)),
          OneBus @@ [d \in {At(0, n, 0) : n \in 1 .. 5} |-> Other(4660, <<1, 0, 0>>)]}

-----------------------------------------------------------------------------
(* Controllers.                                                             *)
Ctrl(bios, os, running, id) ==
  [bios |-> bios, os |-> os, running |-> running, ex_cap_ptr |-> 2,
   caps |-> (2 :> [cap_id |-> 2, next_cap_ptr |-> 3]) @@ (5 :> [cap_id |-> id, next_cap_ptr |-> 0]),
   number_of_device_slots |-> 2, max_scratchpad_buffers |-> 0, pagesize |-> {0}]
Owned == Ctrl(TRUE, FALSE, TRUE, USBLEGSUP)
Controllers ==
  {Owned, Ctrl(FALSE, FALSE, FALSE, USBLEGSUP), Ctrl(FALSE, TRUE, TRUE, USBLEGSUP), Ctrl(TRUE, TRUE, TRUE, USBLEGSUP),
   Ctrl(FALSE, FALSE, TRUE, 10)}
  \union {[Owned EXCEPT !.max_scratchpad_buffers = n, !.pagesize = p] : n \in {2, 5}, p \in {{1, 4}, {0, 3}}}
  \union {[Owned EXCEPT !.max_scratchpad_buffers = 4], [Owned EXCEPT !.number_of_device_slots = 3]}

MCAddresses == 0 .. 15

Good == [elf |-> TwoSections, map |-> Map(28), config_table |-> {"ACPI 1.0", ACPI2_GUID}, pixel_format |-> "Bgr", map_size |-> 2,
         cs |-> 56, ss |-> 48, acpi |-> Acpi24, apic_id |-> 1, pci |-> OneBus, xhc |-> Owned]
MCMachines ==
  {[Good EXCEPT !.elf = f] : f \in Files}
  \union {[Good EXCEPT !.map = m, !.xhc.max_scratchpad_buffers = n] : m \in Maps, n \in {0, 5}}
  \union {[Good EXCEPT !.config_table = {"ACPI 1.0"}],
          [Good EXCEPT !.pixel_format = "Bitmask"], [Good EXCEPT !.map_size = 3]}
  \union {[Good EXCEPT !.acpi = a] : a \in Acpis}
  \union {[Good EXCEPT !.pci = b, !.xhc = c] : b \in Buses, c \in Controllers}
=============================================================================
