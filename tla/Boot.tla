-------------------------------- MODULE Boot --------------------------------
(***************************************************************************)
(* From the boot loader's main to the sti of KernelMain2                   *)
(* (bootloader/src/main.rs, kernel/src/main.rs): load kernel.elf, set up   *)
(* segments, paging, allocators, windows, ACPI and timers, console, PCI,   *)
(* interrupt descriptors, USB controller and tasks, in this order. Each    *)
(* step locks statics that earlier steps have initialised. machine is what *)
(* the step finds: firmware, buses and controller.                         *)
(***************************************************************************)
EXTENDS KernelImage, CpuTables, Acpi, Pci, XhciStart

CONSTANTS
  Machines,    \* the machines the kernel boots on
  Addresses,   \* of memory
  MemmapBuf,   \* 4 * 4096, bytes for the memory map
  High,        \* 2^32
  FRAME_COUNT, \* frames that the frame allocator has a bit for
  N_BLOCK_SIZES,
  Takes        \* for a step that takes whole frames, their number in each of its allocations

VARIABLES
  machine,
  pc,            \* the step to take, or "panic", "fault" or "loop"
  mem,           \* contents of memory
  reserved,      \* pages that the loader has allocated for the kernel
  sections,      \* load_kernel: the sections still to be copied
  free,          \* frames that the frame allocator can give
  cpu,           \* gdtr, the segment registers, cr3, idtr and the interrupt flag
  idt,           \* IDT
  init,          \* the statics that are initialised
  pci,           \* PCIDevice of the USB controller, and the capability looked at
  conf           \* its configuration registers

kernel == <<mem, reserved, sections>>
vars == <<machine, pc, kernel, free, cpu, idt, init, pci, conf, timers, controller>>

elf == machine.elf
acpi == machine.acpi
hw == machine.xhc

Garbage == "?"
ACPI2_GUID == "ACPI 2.0"
Statics == {"MEM", "GLOBAL_ALLOCATOR", "LAYERS", "FADT", "TIMER", "CONSOLE", "EVENTS", "EXECUTOR", "SPAWNER",
            "EVENT_RING", "CMD_RING", "TRF_RINGS", "DCBAA", "REGS", "TASKS"}
Allocator == {"MEM", "GLOBAL_ALLOCATOR"}

Init ==
  /\ machine \in Machines
  /\ pc = "load_kernel"
  /\ mem = [a \in Addresses |-> Garbage] /\ reserved = {} /\ sections = <<>> /\ free = {}
  /\ cpu = [gdtr |-> [limit |-> 0, table |-> <<>>], cs |-> machine.cs, ss |-> machine.ss,
            ds |-> machine.ss, es |-> machine.ss, fs |-> machine.ss, gs |-> machine.ss,
            cr3 |-> <<>>, idtr |-> [limit |-> 0], flag |-> FALSE]
  /\ idt = [v \in {XHCI, LapicTimer} |-> zero_gate]
  /\ init = {}
  /\ pci = [devices |-> <<>>, found |-> <<>>, cap_addr |-> 0] /\ conf = <<>>
  /\ InitTimers /\ InitXhc(hw)

-----------------------------------------------------------------------------
(* Memory. FrameAllocator shows that allocate gives the first run of free   *)
(* frames, and never the last available one. A failure stops the kernel     *)
(* (unwrap, panic!, oom, or the index of a frame beyond the bitmap).        *)
allocate(m, nframes) ==
  LET fits == {s \in m.free : s .. s + nframes - 1 \subseteq m.free}
  IN  IF fits = {} THEN [m EXCEPT !.ok = FALSE]
      ELSE [m EXCEPT !.free = @ \ (Min(fits) .. Min(fits) + nframes - 1)]
allocations(frames, sizes) == FoldLeft(allocate, [ok |-> TRUE, free |-> frames], sizes)

\* The firmware's map, page by page. The kernel's pages are LOADER_DATA in it.
entries ==
  FlattenSeq([i \in DOMAIN machine.map |->
    [j \in 1 .. machine.map[i].num_pages |->
      LET page == machine.map[i].physical_start + j - 1
      IN  [page |-> page, available |-> machine.map[i].available /\ page \notin reserved]]])

\* new_at marks the pages that are not available, and before each page the hole that the last
\* available one leaves.
available_end(map, i) ==
  LET last == Max({0} \union {j \in 1 .. i - 1 : map[j].available})
  IN  IF last = 0 THEN 0 ELSE map[last].page + 1
marks(map) ==
  UNION {(available_end(map, i) .. map[i].page - 1) \union (IF map[i].available THEN {} ELSE {map[i].page})
           : i \in DOMAIN map}
new_at(map) ==
  [ok |-> marks(map) \subseteq 0 .. FRAME_COUNT - 1,
   free |-> 1 .. Min({available_end(map, Len(map) + 1) - 2, FRAME_COUNT - 1}) \ marks(map)]

-----------------------------------------------------------------------------
(* A step ends well only if ok holds, it gets its memory, and the statics   *)
(* it initialises are not initialised yet.                                  *)
StepWith(memory, at, ok, inits, to, effect) ==
  /\ pc = at
  /\ IF ok /\ memory.ok /\ inits \cap init = {}
     THEN pc' = to /\ init' = init \union inits /\ free' = memory.free /\ effect
     ELSE pc' = "panic" /\ UNCHANGED <<kernel, free, cpu, idt, init, pci, conf, timers, controller>>
  /\ UNCHANGED machine
Step(at, ok, inits, to, effect) ==
  StepWith(allocations(free, IF at \in DOMAIN Takes THEN Takes[at] ELSE <<>>), at, ok, inits, to, effect)
Locked(statics) == statics \subseteq init

-----------------------------------------------------------------------------
(* The boot loader.                                                         *)
Pages(desc) == desc.physical_start .. desc.physical_start + desc.num_pages - 1
Available == UNION {Pages(desc) : desc \in {d \in ToSet(machine.map) : d.available}}

\* allocate_pages of the firmware, at an address.
Allocated == calc_load_address_range(elf)[1] % PAGE = 0 /\ kernel_pages(elf) \subseteq Available

load_kernel ==
  LET range == calc_load_address_range(elf)
  IN  Step("load_kernel", range[1] <= range[2] /\ Allocated, {}, "load_section",
           /\ reserved' = kernel_pages(elf) /\ sections' = loads(elf)
           /\ UNCHANGED <<mem, cpu, idt, pci, conf, timers, controller>>)

load_section ==
  /\ sections # <<>>
  /\ Step("load_section", loadable(elf, Head(sections)), {}, "load_section",
          /\ mem' = copy_slice_pad(mem, elf, Head(sections))
          /\ sections' = Tail(sections)
          /\ UNCHANGED <<reserved, cpu, idt, pci, conf, timers, controller>>)

find_acpi_table == ACPI2_GUID \in machine.config_table
construct_frame_buffer == machine.pixel_format \in {"Rgb", "Bgr"}
get_memory_map == machine.map_size <= MemmapBuf

\* The statics begin as the memory of .bss says.
entry_point ==
  /\ sections = <<>> /\ pc = "load_section"
  /\ IF find_acpi_table /\ construct_frame_buffer /\ get_memory_map
     THEN pc' = "setup_segments" /\ init' = IF mem[elf.bss] = Zero THEN {} ELSE Statics
     ELSE pc' = "panic" /\ UNCHANGED init
  /\ UNCHANGED <<machine, kernel, free, cpu, idt, pci, conf, timers, controller>>

-----------------------------------------------------------------------------
(* KernelMain2                                                              *)
setup_segments ==
  Step("setup_segments", TRUE, {}, "setup_identity_page_table",
       /\ cpu' = set_cs_ss(set_ds_es_fs_gs([cpu EXCEPT !.gdtr = load_gdt], 0), KERNEL_CS, KERNEL_SS)
       /\ UNCHANGED <<kernel, idt, pci, conf, timers, controller>>)

set_cr3 ==
  Step("setup_identity_page_table", TRUE, {}, "init_allocators",
       /\ cpu' = [cpu EXCEPT !.cr3 = setup_identity_page_table]
       /\ UNCHANGED <<kernel, idt, pci, conf, timers, controller>>)

\* new_at panics on a frame beyond its bits. Then each block size gets a frame. From here on the
\* frames belong to the allocator, and their contents change.
init_allocators ==
  LET manager == new_at(entries)
  IN  StepWith(allocations(manager.free, [i \in 1 .. N_BLOCK_SIZES |-> 1]),
               "init_allocators", manager.ok, Allocator, "set_interrupt_flag",
               /\ mem' = [a \in Addresses |-> IF a \div PAGE \in manager.free THEN Garbage ELSE mem[a]]
               /\ UNCHANGED <<reserved, sections, cpu, idt, pci, conf, timers, controller>>)

set_interrupt_flag ==
  Step("set_interrupt_flag", TRUE, {}, "initialize_winmgr",
       /\ cpu' = [cpu EXCEPT !.flag = FALSE]
       /\ UNCHANGED <<kernel, idt, pci, conf, timers, controller>>)

Quiet == UNCHANGED <<kernel, cpu, idt, pci, conf, timers, controller>>

initialize_winmgr == Step("initialize_winmgr", Locked(Allocator), {"LAYERS"}, "initialize_windows", Quiet)
initialize_windows == Step("initialize_windows", Locked(Allocator \union {"LAYERS"}), {}, "acpi", Quiet)
acpi_initialize == Step("acpi", tables_found(acpi), {"FADT"}, "initialize_timer", Quiet)

-----------------------------------------------------------------------------
(* initialize_timer                                                         *)
initialize_lapic_timer ==
  Step("initialize_timer", TRUE, {}, "wait_millis",
       start_lapic_timer(acpi) /\ UNCHANGED <<kernel, cpu, idt, pci, conf, controller>>)

wait_millis ==
  Step("wait_millis", Locked({"FADT"}), {}, "loops",
       wait_start(acpi) /\ UNCHANGED <<kernel, cpu, idt, pci, conf, controller>>)

wait_loops ==
  \/ /\ pc = "loops" /\ pc' = IF wraps THEN "wait_wrap" ELSE "wait_end"
     /\ UNCHANGED timers
  \/ /\ pc = "wait_wrap" /\ read_pm(acpi) /\ pc' = IF has_wrapped THEN "wait_end" ELSE pc
  \/ /\ pc = "wait_end" /\ read_pm(acpi) /\ pc' = IF has_ended THEN "elapsed" ELSE pc

wait_step == wait_loops /\ UNCHANGED <<machine, kernel, free, cpu, idt, init, pci, conf, controller>>

\* `elapsed * 10` panics when it overflows.
lapic_elapsed ==
  \E gap \in 0 .. MaxGap :
    Step("elapsed", calibrated(gap) <= COUNT_MAX, {}, "add_timer",
         start_periodic(calibrated(gap), LapicTimer) /\ UNCHANGED <<kernel, cpu, idt, pci, conf, controller>>)

\* The locals of wait_millis are gone.
initialize_timer ==
  Step("add_timer", Locked(Allocator), {"TIMER"}, "init_console",
       /\ wait' = [start |-> 0, end |-> 0]
       /\ UNCHANGED <<pm, lapic, kernel, cpu, idt, pci, conf, controller>>)

init_console == Step("init_console", Locked(Allocator \union {"LAYERS"}), {"CONSOLE"}, "scan_pci_devices", Quiet)

-----------------------------------------------------------------------------
(* PCI and interrupts. The steps that print lock CONSOLE.                   *)
scan_pci_devices ==
  LET found == scan_all_bus(machine.pci)
  IN  Step("scan_pci_devices", Locked({"CONSOLE"}) /\ ~found.err, {}, "events",
           /\ pci' = [pci EXCEPT !.devices = found.devices]
           /\ UNCHANGED <<kernel, cpu, idt, conf, timers, controller>>)

init_events == Step("events", TRUE, {"EVENTS"}, "idt_xhci", Quiet)

set_idt_entry(at, index, handler, to) ==
  Step(at, Locked({"CONSOLE"}), {}, to,
       /\ idt' = [idt EXCEPT ![index] = new_gate(cpu.cs, new_attribute(0, "InterruptGate"), handler)]
       /\ UNCHANGED <<kernel, cpu, pci, conf, timers, controller>>)
set_idt_entries ==
  \/ set_idt_entry("idt_xhci", XHCI, elf.xhci_interrupt_handler, "idt_lapic")
  \/ set_idt_entry("idt_lapic", LapicTimer, elf.lapic_interrupt_handler, "load_idt")

load_idt ==
  Step("load_idt", Locked({"CONSOLE"}), {}, "find_xhc_device",
       /\ cpu' = [cpu EXCEPT !.idtr = _load_idt]
       /\ UNCHANGED <<kernel, idt, pci, conf, timers, controller>>)

\* The buses are scanned again.
find_xhc_device ==
  LET again == scan_all_bus(machine.pci)
      d == find_xhc(machine.pci, again.devices)
  IN  Step("find_xhc_device", ~again.err /\ d # <<>>, {}, "msi",
           /\ pci' = [pci EXCEPT !.found = d, !.cap_addr = machine.pci[d][52]]
           /\ conf' = machine.pci[d]
           /\ UNCHANGED <<kernel, cpu, idt, timers, controller>>)

\* One turn of the loop over the capabilities.
configure_msi_fixed_destination ==
  LET at == pci.cap_addr
      is_msi == at # 0 /\ conf[at].cap_id = MSI
  IN  Step("msi", Locked({"CONSOLE"}), {}, IF at = 0 THEN "init_usb" ELSE IF is_msi THEN "msi_header" ELSE "msi",
           /\ pci' = IF at = 0 \/ is_msi THEN pci ELSE [pci EXCEPT !.cap_addr = conf[at].next_cap_ptr]
           /\ UNCHANGED <<kernel, cpu, idt, conf, timers, controller>>)

write_msi(at, confreg, to) ==
  Step(at, TRUE, {}, to, conf' = confreg /\ UNCHANGED <<kernel, cpu, idt, pci, timers, controller>>)
configure_msi_register ==
  \/ write_msi("msi_header", write_header(conf, pci.cap_addr), "msi_addr")
  \/ write_msi("msi_addr", write_msg_addr(conf, pci.cap_addr, machine.apic_id), "msi_data")
  \/ write_msi("msi_data", write_msg_data(conf, pci.cap_addr, XHCI), "init_usb")

-----------------------------------------------------------------------------
(* init_usb and initialize_xhci                                             *)
init_usb == Step("init_usb", Locked(Allocator), {"EXECUTOR", "SPAWNER"}, "bar", Quiet)

\* LinearMapper has no mapping for 0; above the mapped memory the first access faults.
mmio_base == read_bar0(conf, High)
read_bar ==
  Step("bar", mmio_base # 0, {}, IF mmio_base < Mapped THEN "caps" ELSE "fault", Quiet)

Driver(at, guard, to, effect) ==
  /\ pc = at /\ guard /\ pc' = to /\ effect
  /\ UNCHANGED <<machine, kernel, free, cpu, idt, init, pci, conf, timers>>

ownership_handoff ==
  \/ Driver("caps", is_legacy(hw), IF xhc.os_owned THEN "ehci" ELSE "os_owned", UNCHANGED controller)
  \/ Driver("caps", ~is_legacy(hw) /\ has_next(hw), "caps", next(hw))
  \/ Driver("caps", ~is_legacy(hw) /\ ~has_next(hw), "ehci", UNCHANGED controller)
  \/ Driver("os_owned", TRUE, "wait_bios", set_os_owned)
  \/ Driver("wait_bios", handed_over, "ehci", turn_off_smis)

\* XUSB2PR and XUSB2PRM
switch_ehci_ports ==
  Step("ehci", Locked({"CONSOLE"}), {}, "stop",
       /\ conf' = IF intel_ehci_found(machine.pci, pci.devices) THEN [conf EXCEPT ![208] = conf[212]] ELSE conf
       /\ UNCHANGED <<kernel, cpu, idt, pci, timers, controller>>)

reset_hc ==
  \/ Driver("stop", TRUE, "set_reset", stop_hc)
  \/ Driver("set_reset", TRUE, "reset_over", set_reset)
  \/ Driver("reset_over", reset_over, "ready", UNCHANGED controller)
  \/ Driver("ready", hc_ready, "dcbaa", UNCHANGED controller)

\* A null pointer is undefined for the slice of aligned_zeros: a build that checks it panics.
initialize_xhci ==
  \/ LET pad == make_scratchpad(hw)
         array == allocations(free, pad.array)
         memory == IF array.ok THEN allocations(array.free, pad.pages) ELSE array
     IN  StepWith(memory, "dcbaa", Locked(Allocator) /\ pad.ok, {}, "rings",
                  init_dcbaa(hw, array.free \ memory.free) /\ UNCHANGED <<kernel, cpu, idt, pci, conf, timers>>)
  \/ Driver("dcbaa", is_null(hw.number_of_device_slots + 1), "panic", UNCHANGED controller)
  \/ Driver("rings", TRUE, "event_ring", init_command_ring)
  \/ Driver("event_ring", TRUE, "start", init_event_ring)
  \/ Driver("start", TRUE, "started", enable_xhci_interrupt_and_start)
  \/ Driver("started", started, "statics", UNCHANGED controller)
  \/ Step("statics", Locked({"SPAWNER"}), {"EVENT_RING", "CMD_RING", "TRF_RINGS", "DCBAA", "REGS"}, "tasks", Quiet)

\* taskB's stack and context, and TASKS.
init_task_manager == Step("tasks", Locked(Allocator \union {"CONSOLE"}), {"TASKS"}, "sti", Quiet)

sti ==
  Step("sti", TRUE, {}, "loop",
       /\ cpu' = [cpu EXCEPT !.flag = TRUE]
       /\ UNCHANGED <<kernel, idt, pci, conf, timers, controller>>)

Loader == load_kernel \/ load_section \/ entry_point
Kernel ==
  \/ setup_segments \/ set_cr3 \/ init_allocators \/ set_interrupt_flag
  \/ initialize_winmgr \/ initialize_windows \/ acpi_initialize
  \/ initialize_lapic_timer \/ wait_millis \/ wait_step \/ lapic_elapsed \/ initialize_timer
  \/ init_console \/ scan_pci_devices \/ init_events \/ set_idt_entries \/ load_idt
  \/ find_xhc_device \/ configure_msi_fixed_destination \/ configure_msi_register
  \/ init_usb \/ read_bar \/ ownership_handoff \/ switch_ehci_ports \/ reset_hc \/ initialize_xhci
  \/ init_task_manager \/ sti
Controller == XhcStep /\ UNCHANGED <<machine, pc, kernel, free, cpu, idt, init, pci, conf, timers>>

Next == Loader \/ Kernel \/ Controller
Spec == Init /\ [][Next]_vars

-----------------------------------------------------------------------------
TypeOK ==
  /\ machine \in Machines /\ pc \in STRING /\ init \subseteq Statics
  /\ DOMAIN mem = Addresses /\ free \subseteq 0 .. FRAME_COUNT - 1 /\ pm \in Nat /\ cpu.flag \in BOOLEAN

(* What keeps a kernel from booting: its file, the firmware, the memory,    *)
(* the buses, or the controller.                                            *)
LoadHeaders == {h \in ToSet(elf.prog_headers) : h.p_type = PT_LOAD}
KernelBytes == UNION {h.p_vaddr .. h.p_vaddr + h.p_memsz - 1 : h \in LoadHeaders}
NotLoadable ==
  \/ LoadHeaders = {} \/ Min(KernelBytes) % PAGE # 0 \/ \E a \in KernelBytes : a \div PAGE \notin Available
  \/ \E h \in LoadHeaders : h.p_filesz > h.p_memsz \/ h.p_offset + h.p_filesz > Len(elf.bytes)

NoAcpi ==
  \/ ACPI2_GUID \notin machine.config_table
  \/ acpi.rsdp # [signature |-> "RSD PTR ", revision |-> 2, sum20 |-> 0, sum36 |-> 0]
  \/ acpi.xsdt.signature # "XSDT" \/ acpi.xsdt.sum # 0
  \/ \A i \in DOMAIN acpi.xsdt.entries :
       36 + 8 * i <= acpi.xsdt.length => acpi.xsdt.entries[i].signature # "FACP" \/ acpi.xsdt.entries[i].sum # 0
BadFirmware == NoAcpi \/ machine.pixel_format = "Bitmask" \/ machine.map_size > MemmapBuf

\* Memory that is not available lies beyond the bitmap, and below the end of the map.
PastBitmap == \E d \in ToSet(machine.map) : ~(FRAME_COUNT .. Max(Pages(d)) \subseteq Available)
\* No run of frames holds all that the kernel takes before it runs.
Scratchpad == hw.max_scratchpad_buffers
Needed ==
  N_BLOCK_SIZES + MapThenSumSet(LAMBDA s : SumFunction(Takes[s]), DOMAIN Takes)
    + Scratchpad + (IF Scratchpad > LARGEST THEN 1 + Scratchpad \div (2 * LARGEST) ELSE 0)
TooLittleMemory ==
  LET usable == {p \in Available : p > 0 /\ p < FRAME_COUNT /\ p < Max(Available)} \ {a \div PAGE : a \in KernelBytes}
  IN  \A p \in usable : ~(p .. p + Needed - 1 \subseteq usable)
ReachableOn == [m \in Machines |-> Reachable(m.pci)]
Xhcs == {d \in ReachableOn[machine] : machine.pci[d][8] = XhcClass}
Bridges == {d \in ReachableOn[machine] : SubSeq(machine.pci[d][8], 1, 2) = BridgeClass}
BadBuses ==
  \/ Xhcs = {} \/ Cardinality(ReachableOn[machine]) > MaxDevices
  \/ \E d \in Bridges : \/ IsRoot(machine.pci, machine.pci[d][24].secondary)
                         \/ \E e \in Bridges \ {d} : machine.pci[e][24] = machine.pci[d][24]
\* Scratchpad pages of more than 4 KiB, and arrays of exactly 2048 bytes, are not to be had.
BadController ==
  \/ \E d \in Xhcs : machine.pci[d][16].addr = 0
  \/ Scratchpad > 0 /\ 0 \notin hw.pagesize
  \/ LARGEST \in {Scratchpad, hw.number_of_device_slots + 1}
\* The wait ends so close to the wrap of the PM timer that no reading may fall between them.
WindowMissed == pc = "panic" /\ "FADT" \in init /\ "TIMER" \notin init /\ wait.end > W(acpi) - MaxGap

(***************************************************************************)
(* The kernel panics while booting only on a file, firmware, memory, bus   *)
(* or controller that it cannot boot from, or when the end of wait_millis  *)
(* was missed. In particular no static is used before its init or          *)
(* initialised twice (LazyInitVal asserts both), which rests on the        *)
(* loader's zeroing of .bss; a bridge that leads back to a bus ends in a   *)
(* panic, not in a loop for ever; and memory suffices when a run of frames *)
(* holds all that the steps take.                                          *)
(***************************************************************************)
BootsUnlessBroken ==
  /\ pc = "panic" => NotLoadable \/ BadFirmware \/ PastBitmap \/ TooLittleMemory \/ BadBuses \/ BadController \/ WindowMissed
  /\ pc = "loop" => init = Statics

(***************************************************************************)
(* Once KernelMain2 has set the interrupt flag, the vectors that the LAPIC *)
(* timer and the controller's MSI raise lead through the loaded IDT, a     *)
(* 64-bit code segment of the loaded GDT and the page tables to the code   *)
(* of their handlers as kernel.elf has it. Neither this code nor .bss with *)
(* the statics that the handlers lock is memory of the allocator. A switch *)
(* of tasks can load fs, gs and ss with what it has saved of them. The     *)
(* MSI message, enabled before it is written, is whole from the moment the *)
(* controller may send it.                                                 *)
(***************************************************************************)
Reaches(v, symbol) ==
  LET gate == idt[v]
      at == Walk(cpu.cr3, Target(gate))
  IN  /\ InTable(cpu.idtr, v) /\ v \in DOMAIN idt /\ gate.attr.present
      /\ IsCode64(Segment(cpu.gdtr, gate.segment_selector))
      /\ at # NoPage /\ mem[at] = symbol
MsiAt == {r \in DOMAIN conf : r >= 64 /\ r < 208 /\ "cap_id" \in DOMAIN conf[r] /\ conf[r].cap_id = MSI}
VectorsReachHandlers ==
  /\ cpu.flag =>
       /\ mem[Walk(cpu.cr3, elf.bss)] # Garbage
       /\ \A selector \in {cpu.fs, cpu.gs, cpu.ss} : Loadable(cpu.gdtr, selector)
       /\ ~lapic.masked /\ Reaches(lapic.vector, "lapic_interrupt_handler")
  /\ cpu.flag \/ xhc.inte => \A c \in MsiAt :
       /\ conf[c].msi_enable /\ conf[c + 4].destination_id = machine.apic_id
       /\ Reaches(conf[IF conf[c].addr_64_capable THEN c + 12 ELSE c + 8].vector, "xhci_interrupt_handler")

(***************************************************************************)
(* The LAPIC timer's period is never shorter than 1/TIMER_FREQ second,     *)
(* wherever the PM timer wraps during wait_millis, and longer only by the  *)
(* time of four accesses, unless the wait ends within that of one access   *)
(* of the wrap.                                                            *)
(***************************************************************************)
TickRate ==
  pc = "add_timer" =>
    /\ lapic.initial >= (Ratio * delta * 10) \div TIMER_FREQ
    /\ wait.end <= W(acpi) - MaxGap => lapic.initial <= (Ratio * (delta + 4 * MaxGap) * 10) \div TIMER_FREQ

(***************************************************************************)
(* The driver resets the controller only when it is halted and the firmware*)
(* has given it up, writes its registers only when it is ready again, and  *)
(* starts it with all its tables and rings, among them a scratchpad of as  *)
(* many frames as it asks for, which are available memory, not the         *)
(* kernel's and never given again (reset_hc, init_dcbaa, initialize_xhci). *)
(* Excepted is a controller of 255 slots: the allocator has no array of    *)
(* 2048 bytes, and a build that does not panic on the null pointer uses    *)
(* the array at address 0. Where the semaphore of the OS was set before    *)
(* the kernel came, ownership_handoff returns at once, and the firmware    *)
(* may still own it.                                                       *)
(***************************************************************************)
XhcStartedWhole ==
  /\ xhc.hcreset => xhc.hc_halted /\ (hw.os \/ (~xhc.bios_owned /\ ~xhc.smi))
  /\ {"kernel", "null"} \cap {xhc.dcbaap, xhc.crcr, xhc.erst} # {} => ~xhc.hcreset /\ ~xhc.cnr /\ (hw.os \/ ~xhc.bios_owned)
  /\ pc \in {"started", "statics", "tasks", "sti", "loop"} =>
       /\ xhc.dcbaap = "kernel" \/ hw.number_of_device_slots = LARGEST - 1
       /\ {xhc.crcr, xhc.erst} = {"kernel"} /\ xhc.inte /\ xhc.ie
       /\ DOMAIN dcbaa = 0 .. xhc.max_slots
       /\ Cardinality(dcbaa[0]) = Scratchpad /\ (Scratchpad > 0 => Min(hw.pagesize) = 0)
       /\ dcbaa[0] \subseteq Available \ (free \union {a \div PAGE : a \in KernelBytes})

(***************************************************************************)
(* The scan finds exactly the functions on the buses behind the host       *)
(* bridge, and find_xhc_device one that is a USB controller, by Intel if   *)
(* there is one.                                                           *)
(***************************************************************************)
XhcFound ==
  /\ pci.devices # <<>> => {pci.devices[i] : i \in DOMAIN pci.devices} = ReachableOn[machine]
  /\ pci.found # <<>> =>
       /\ pci.found \in Xhcs
       /\ (\E d \in Xhcs : machine.pci[d][0] = Intel) => machine.pci[pci.found][0] = Intel
=============================================================================
