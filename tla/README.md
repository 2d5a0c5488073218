# A TLA+ model of mknm_os

mknm_os is a small operating system in Rust: a UEFI boot loader and a kernel
with interrupts, timers, two preemptive tasks, a physical and an object
allocator, an xHCI driver with an async runtime, and overlapping windows. What
is modelled is what depends on the order in which the main task, the interrupt
handlers, the second task, the firmware and the USB controller take their steps,
or on long histories of calls. Paths below are relative to `src/kernel/src`
unless they begin with `bootloader`.

## The system

There is one CPU. The boot loader puts `kernel.elf` into memory and enters
`KernelMain2` (`main.rs`), which initialises everything with interrupts off and
then goes round an endless loop as the *main* task. Two interrupt handlers put
messages into the queue `EVENTS`: `xhci_interrupt_handler` when the USB
controller has posted events, `lapic_interrupt_handler` when a timer has expired.
The latter also switches between main and *taskB* when the task timer expires.
Main takes the messages, reads the controller's event ring, runs the async tasks
of the USB driver, re-arms its timers and draws the windows. taskB draws into a
window of its own.

| Part | Source | Modules | State of the model |
|---|---|---|---|
| event queue | `main.rs` | `MessageQueue`, `BoundedQueue` | modelled, proved |
| event loop, interrupt handlers | `main.rs`, `interrupt.rs` | `EventLoop` | modelled, proved |
| timers | `timer.rs` | `EventLoop`, `Acpi`, `Boot` | modelled; ticks proved, calibration checked |
| tasks | `task.rs` | `TaskManager`, `VirtualTasks` | modelled, proved |
| frame allocator | `memory_manager.rs`, `memory_map.rs` | `FrameAllocator` | modelled, proved |
| object allocator | `memory_manager.rs` | `ObjectAllocator` | modelled, proved |
| spin locks, `LazyInit` | `memory_manager.rs` | `SpinRwLock`, `ReadersWriter`, `EventLoop`, `Boot` | `SpinRwLock` proved; `SingleMutex` has no user |
| producer rings | `usb/ring/ring.rs` | `ProducerRing`, `TrbQueue`, `XhciRings` | modelled, proved |
| event ring | `usb/ring/ring.rs`, `event.rs` | `EventRing`, `EventFifo`, `XhciRings`, `EventLoop` | modelled, proved |
| command and transfer rings | `usb/ring/command.rs`, `transfer.rs` | `UsbRings` | modelled |
| async runtime | `usb/runtime.rs` | `Runtime` | modelled but for `Broadcast`, which has no user |
| device initialisation | `usb/action/init_device.rs` | `DeviceInit` | modelled |
| USB driver and classes | `usb/usbd.rs`, `usb/class` | `Descriptors`, `UsbDriver` | modelled but for `set_interface`, which has no caller |
| xHCI driver | `usb/xhci.rs`, `device.rs`, `mod.rs` | `XhciStart`, `UsbRings`, `UsbStack` | modelled |
| frame buffer, windows, console, taskB | `graphic`, `console.rs`, `mouse.rs`, `taskB.rs` | `FrameBuffer`, `Windows`, `Console`, `Screen` | modelled; glyphs are opaque |
| PCI, ACPI | `pci.rs`, `acpi.rs` | `Pci`, `Acpi` | modelled |
| segments, paging, interrupt descriptors | `segment.rs`, `paging.rs`, `interrupt.rs` | `CpuTables` | modelled |
| boot | `bootloader`, `main.rs` | `KernelImage`, `Boot` | modelled |

The definitions translate about 3 380 lines of the source: 31% of all of it, and
more than half if the 4 700 lines of the font table are not counted.

## Modules

### Kernel core

**MessageQueue** has the four fields of `MessageQueue<N>` and the result of the
last call as its state, and `push` and `pop` as its actions; each runs under the
lock of `EVENTS`. **BoundedQueue** is what it promises: a sequence of at most N
messages. `Contents` reads the sequence off the fields and `ImplementsQueue` is
the refinement.

**EventLoop** composes the main task, both handlers, the timers, the interrupt
flag, the spin locks of `EVENTS` and `TIMER`, the task switch and the two
devices. A handler runs with the flag clear, so its steps interleave only with
the devices. Main is cut where an interrupt can make a difference: before and
after each critical section, between `sti` and `hlt`, and in the reading of the
event ring. `EVENTS` appears as the sequence that `MessageQueue` implements. The
absolute tick is only ever compared with timeouts, so a timer keeps the
difference `left`, and the tick value main has read keeps its age; `MaxAge` caps
that age. The xHC posts events while its ring has room; an interrupt follows
unless *Event Handler Busy* (EHB) is still set from the last one; clearing EHB
while events are unread interrupts again.

**TaskManager** has the `VecDeque` of contexts as a ring of slots, because
`pop_front` and `push_back` move a context to another slot, and `switch_context`
as its list of instructions with the offsets of the assembly. What the
straight-line code leaves in each register and each word is computed from the
last instruction that wrote it. Every value carries the task and register it
belongs to, so that a wrong offset, a forgotten register or a scratch register
saved too late shows. **VirtualTasks** is the promise: each task has registers of
its own, and tasks take turns.

**FrameAllocator** goes from the firmware's memory map through `new_at`, entry by
entry, to `allocate`, cut along its two loops, and `free`. Addresses are counted
in frames. Indexing `alloc_map` out of bounds and the underflow of
`range.1 - nframes` are panics, as in the debug build that `run_qemu.sh` makes.

**ObjectAllocator** has the free lists as sequences of addresses, and takes the
frame allocator by what `FrameAllocator` shows of it (the lowest run that ends
before the last frame). `alloc` and `dealloc` hold the global lock and are one step each.

**SpinRwLock** is the lock of every window, with one action per access to `count`;
a thread may be preempted between any two. **ReadersWriter** is what it promises.

### Rings

**ProducerRing** is one ring of transfer request blocks (TRBs) with the
controller that reads it. They share no index: the controller goes by cycle
bits, and the driver by events that name a slot. **TrbQueue** is the promise: a
FIFO queue of N - 2 TRBs in which executed TRBs occupy room until they are
acknowledged.

**EventRing** is `ConsumerRing` with `on_xhc_interrupt` and `process_event`. The
controller writes events and knows what has been read only from ERDP, which main
writes after the last pop. **EventFifo** is the promise: each event reaches the
listener of its kind once and in order. **XhciRings** composes both rings, so
that slots of the one are freed by what comes through the other.

### USB stack

**Runtime** has the channels with their one waker each, the queue of woken tasks
and the task that is being polled. A task runs until what it awaits is not there.
**UsbRings** has the command ring and the transfer rings with the maps from
addresses to listeners, and the controller's side: slots, ports, and TRBs that
succeed, fall short or fail. The rings are the queues that `ProducerRing` and
`EventRing` implement, with addresses kept, because it is the reuse of addresses
that makes the maps delicate. **DeviceInit** is the task that scans the ports and
answers their events; a port may change between any two accesses to its register.
**Descriptors** is the parsing of configurations, and **UsbDriver** the task that
reads them, configures devices and starts a task for a mouse and a keyboard.
**UsbStack** puts them under the executor that main runs after each interrupt, with
a user who plugs and unplugs devices.

### Screen

**FrameBuffer** has rectangles and pixel buffers with a stride, and each copy as
index arithmetic. **Windows** adds fore and back buffers, transparent colours and
the layer stack, and **Console** the text buffer, cursor and scrolling. In
**Screen** main and taskB execute lists of instructions that take and release
locks or do a piece of work (a row of a copy is one), and are preempted between
any two.

### Boot

**KernelImage** is what the loader makes of `kernel.elf`, **CpuTables** the GDT,
IDT and page tables with the bit fields that the code fills, **Acpi** the tables,
the PM timer and the calibration of the LAPIC timer, **Pci** the scan of the buses
and the interrupt routing, **XhciStart** the hand-over, reset and start of the
controller. **Boot** strings them together in the order of the code. Each step
panics if a static it locks is not initialised, or one it initialises already is,
or if it does not get its frames. These come from the firmware's memory map, in
which the kernel's pages are the loader's, as `new_at` reads it; the allocator is
the one that `FrameAllocator` shows, and `Takes` has the whole frames that a step
asks for (buffers, stacks, refilled block lists). The frames of the scratchpad are
computed from the controller's registers. The three writes that set up MSI are
three steps. The machine is chosen at the start: good, or bad in a part.

Definitions marked "Wrong:" are not part of the model. Each is a plausible
mistake in the definition that follows it, and substituting it makes a property
fail.

## Runs

| Run | Shows |
|---|---|
| `message_queue` | FIFO behaviour across wraps; N = 3, three messages (649 states) |
| `event_loop` | the invariants and liveness properties below; two timers, queue of 3, ring of 2 (26 100 states) |
| `task_manager` | task registers are private; two tasks, four slots, two registers that change (4 180 states) |
| `spin_rw_lock` | a readers-writer lock in which waiting threads do not block each other; three threads (43 194 states) |
| `xhci_rings` | both rings are FIFO queues, the controller never stalls, slots are not reused early, events name the requests they complete, only unhandled events take room in the event ring (1 757 369 states) |
| `frame_allocator` | disjoint, usable, first fit, exact bitmap; eight frames, seven memory maps, requests up to 3 (4 954 states) |
| `frame_allocator_last` | a violation, see Findings |
| `object_allocator` | single use, no leak, alignment; two block sizes, five frames, three objects (78 489 states) |
| `object_allocator_null` | a violation, see Findings |
| `usb_stack` | the properties below, from the start of the controller on (1 193 299 states) |
| `screen` | no deadlock, whole frames, screen and console show what they should (969 450 states) |
| `boot` | the properties below, on 144 machines that are good or bad (139 324 states) |

The properties of `event_loop`:

- `HandlersNeverSpin`: no handler finds `EVENTS` or `TIMER` locked. It would
  execute `hlt` with interrupts off, for ever.
- `TimerConservation`: each periodic timer is in exactly one place (heap, queue,
  main, or still to be armed), and the task timer never leaves the heap. A push
  that met a full queue would break this, since the handlers ignore its result.
- `NoStrandedEvent`: an unread event always has someone on the way to it.
- `EventsRead`, `TimersFire`, `BothTasksRun`: see Fairness.

Those of `usb_stack`:

- `NoLostWakeup`: a task that is not queued waits for an empty channel that has its
  waker, or for a TRB that has its listener.
- `RightCompletion`: a task is given the completion of the very TRB it awaits.
- `RequestsWhole`: no control request is cut in the middle by a full ring.
- `UnwrapsSafe`: events and class drivers name rings and contexts that exist, also
  after a device has gone.
- `EndpointsAsDescribed`: the controller is told of the endpoints, with their
  types, that the selected alternate settings describe, and of no others.
- `NoDeviceOverlooked`: from the moment a device is connected to a port, someone is
  on the way to it (the scan, an event, the queue of ports waiting for a reset, the
  reset, the addressing) until it has a slot. Excepted are a TRB that failed and a
  port that was unplugged before: a disconnect between the read of the port and
  `clear_csc` is acknowledged unread, and one that is read is not acknowledged.
- `DevicesConfigured`: a device that is there at boot, and the first one plugged in
  later, get their endpoints, unless a TRB fails or a device is unplugged: again and
  again, every device that is there has them or waits behind `current_port`.

Those of `screen`:

- `NoDeadlock`: neither task waits for a lock it holds itself, and the two do not wait
  for each other.
- `WholeFrames`: taskB's window is never drawn half old and half new.
- `ScreenShowsWindows`: after a draw each pixel is that of the topmost window there,
  with clipping, transparency and a stride larger than the width.
- `ConsoleShowsText`: text buffer and canvas agree after any number of scrolls.

Those of `boot`:

- `BootsUnlessBroken`: a panic has a cause in the file, the firmware, the memory map,
  the buses or the controller, or `wait_millis` has missed its end near the timer's
  wrap. The causes are stated over the machine, not with the kernel's own checks.
  Memory suffices when one run of usable frames holds all that boot takes. Not
  bootable are unavailable memory beyond the bitmap's 128 GiB, scratchpad pages of
  more than 4 KiB (`unimplemented!`), and arrays of exactly 2048 bytes.
- `VectorsReachHandlers`: at the `sti`, both vectors lead through IDT, GDT and page
  tables to the handlers' code, which the allocator does not own; the MSI message is
  whole before the controller may send it, although MSI is enabled first.
- `TickRate`: the timer is calibrated right wherever the PM timer wraps.
- `XhcStartedWhole`: the controller is reset only when it is halted and given up by
  the firmware, and started only with all its tables and with a scratchpad of its own.
  With 255 slots the array of contexts has 2048 bytes, `alloc` returns null, and
  `aligned_zeros` does not look: a panic, or an array at address 0 (`"null"`).
- `XhcFound`: the scan finds exactly what is behind the host bridges.

### Bounds

- `EventLoop`: the queue has length `NTimers + 1`, the least the proof allows, so
  that a single superfluous message would overflow it (the kernel has 1024). The
  ring of 2 lets an event arrive while another is being read. The periods 1 and 2
  let both timers and the task timer expire in one tick, and be armed in the
  past. `HeapCap` is 4, what the first push to a `BinaryHeap` of 16-byte timers
  reserves.
- `TaskManager`: `Cap` is 4, what a `VecDeque` of 704-byte contexts reserves, so
  the two contexts wrap every four switches and lie in one and in two slices.
- `XhciRings`: a ring of four slots (two requests under way) and an event ring of
  five, in which both sides go round with both values of the cycle bit. The two
  requests and the one port make up to three outstanding events, M - 2, so that
  `AlwaysRoom` (room while fewer than M - 2 are outstanding) is tried up to its limit.
- `FrameAllocator`: the maps are sorted, holed, unsorted, cut by a zero-filled
  entry, beyond the bitmap at boot and at allocation, and smaller than a request. A panic stops the
  machine, so deadlock is not checked.
- `ObjectAllocator`: one unit stands for 32 bytes, the size of a `PageHeader`; a
  frame is scaled down to eight units and the block sizes to two. Layouts lie below, at and above each
  block size, and are aligned up to more than a frame. `MaxLive` bounds the
  objects in use.
- `UsbStack`: two ports, one of which may have a device at boot, and `MaxDevices` = 2
  devices plugged in altogether, into either port, also into one that was unplugged.
  The command ring (`CmdN` = 8) and the slots (`MaxSlot` = 2) have room for what these
  need, as the kernel's ring of 32 TRBs has for ten devices. The mouse, the keyboard and the
  device without a driver differ in descriptors shorter than and as long as the
  buffer, one and two configurations, alternate settings and several interfaces.
  Rings of six slots hold one control request beside the last stage of the one
  before, so their addresses are reused within a device's configuration.
  `MaxReports` and `MaxFaults` are 1; an unplugged device is a fault. The
  controller and the user take their steps where main can notice them (`Seen`);
  elsewhere they commute with main's steps. The stack may come to rest, so deadlock
  is not checked. One port is reset after boot in the life of the kernel (see the
  note at `next_port`), so a third device would only wait.
- `Screen`: two by three pixels with a stride of three, characters of one pixel, two
  rows for taskB's window and for the cursor. Windows are clipped on the right and
  below, the cursor is moved out of the screen and back, and the console scrolls.
- `Boot`: pages of two bytes, page tables of two entries, a PCI table of six
  functions, PM timers that wrap at 8 and 16, and up to two ticks between two
  accesses (`MaxGap`). The bitmap has 34 frames, and the largest block four words
  (`LARGEST`, 256 in the kernel), so that arrays below, at and above its size occur;
  block lists, buffers and a stack take 15 frames, and a scratchpad up to six. Each
  machine differs from a good one in its file, its firmware, its memory map and
  scratchpad, or its buses and controller. A panic ends the boot, so deadlock is not
  checked.

### Fairness

`event_loop` assumes that the LAPIC timer is periodic, that a pending interrupt
is taken when the flag is set often enough, that a handler runs to its end, and
that main executes instructions when it is the running task (strong fairness,
because a task is preempted again and again). Nothing is assumed of the
controller. Under these, events are read (`EventsRead`), each timer keeps firing
(`TimersFire`) and both tasks keep running (`BothTasksRun`). That `sti` and `hlt`
are separate means that a message may wait until the next tick, and no longer.
Drawing and printing are steps without a lock there; that main and taskB do not
block each other for good in them is `NoDeadlock` of `screen`.

`usb_stack` assumes of main and the controller together that one of them takes a
step when one can: main runs its executor to the end of the queue, and the
controller executes the TRBs it was told of. Nothing is assumed of the user.

`spin_rw_lock` assumes that each thread goes on with a call it has begun
(`SomeoneGetsIn`); nobody is promised a turn, since the lock is not fair.

## Proofs

TLAPS proves the following for every value of the constants that satisfies the
named assumptions.

- `MessageQueueProofs`: `FieldsAgree` and `QueueRefinement`, for every N >= 1. The
  invariant is `write_pos = wrap(read_pos + cnt)`; all modular arithmetic is in
  the lemmas `Wrap` and `WrapStep`.
- `EventLoopProofs`: typing, the three invariants of the run, and `NoDrop` (no push
  meets a full queue) and `NoGrowth` (`add_timer` never reallocates), for any number
  of timers and any periods, a queue and a heap with room for `NTimers + 1` entries.
  None is inductive by itself. `IInv` adds `LockInv` (who holds which lock
  where; main holds one only with the flag clear), `MsgInv` (what main holds at
  each point), `Distinct` (no message is queued twice, no timer armed twice),
  `XhciInv` (EHB is set exactly when one Xhci message is under way) and `RingInv`.
  `NoDrop` then follows by counting: queued messages are distinct and the one being
  pushed is not among them.
- `SpinRwLockProofs`: `Encoding` (`count` is 0, 2n for n readers, or 1 for one
  writer) and `LockRefinement`, for any finite set of threads. `OldInv` adds what the
  locals of a preempted `lock_shared` may hold.
- `ProducerRingProofs`: `Typing`, `NoStall`, `SlotsKept` and `RingRefinement`, for
  every ring of at least three slots. `CycleInv` says what each cycle bit is,
  `LapInv` that the controller is on the driver's lap or one behind, `OrderInv`
  that it lies between `deque` and `enque`, and `ReportInv` that events name
  executed slots in order.
- `XhciRingsProofs`: `EventRingRefinement`, for every event ring of at least three
  slots, from the same three facts with the roles exchanged (`RingInv`): main is
  between the ERDP it wrote last and what the controller has posted. `Composition`
  then shows that a behaviour of both rings is one of each, so that `RingsTogether`
  carries the theorems about each ring over to the two. `EventsNameRequests` and
  `RoomForEvents` are about the composition itself. `CarryInv` says that the
  transfer events in the channel and in the ring are the outstanding reports in
  order, with at most one event of the port among them, and `ErdpInv` that what main
  has popped since it wrote ERDP is still in the channels. `RoomForEveryRequest`
  adds that an event ring at least as long as the ring of requests (both have 32 slots
  in the kernel) has room for the completion of each request the controller can
  execute, unless an event of the port is outstanding as well. Both are about one
  ring of requests; the kernel's rings share one event ring, for which
  `RoomForEvents` says that there is room while fewer than 30 events are outstanding.
- `ObjectAllocatorProofs`: `TypeCorrect`, `MemoryHasOneUse`, `NoBlockLost` and
  `LayoutsHonoured`, for all block sizes that divide a frame, any amount of memory
  and all layouts (those of more than a block are aligned to at most a frame, for
  `alloc` is `unimplemented!` for the others). None is inductive by itself. `AllocInv`
  says that a block is free once or in use by one object (`Once`), that a frame holds
  blocks of one size, past the header if it has one (`Pages`), that the frames of a
  large object are its own (`Large`), and that the blocks of a size make up whole
  frames but for one header (`Whole`).
- `TaskManagerProofs`: `TypeCorrect` and `PreemptionInvisible`, the refinement of
  `VirtualTasks`, for two or more tasks, any capacity of the deque that holds them
  and any set of registers that the tasks change. The lemmas on `switch_context` go through its
  instructions: each word of the saved context gets the register laid out there, and
  each register is loaded from its own word. `TaskInv` says that `order` is a
  permutation of the tasks and that the contexts of all but the running one hold
  values of registers.
- `FrameAllocatorProofs`: `Typing`, `HandsOutAvailable`, `Disjoint`, `Exact`,
  `LowestFit` and `NoOtherPanic`, for every memory map. `MapInv` says that below
  `available_end` every frame is marked or usable, even if the map is unsorted;
  `ScanInv` is the invariant of the two loops of `allocate`.

Only model-checked: liveness (TLAPS proves neither fairness nor `ENABLED`
properties), and the USB stack, the screen and the boot. Parsing descriptors, folding
over buses and rows, and drawing are recursion over data, and what these compute
would need induction that the provers cannot do.

## Findings

- `memory_manager.rs:191`: the loop of `allocate` runs while
  `start < range.1 - nframes`, so the run ending with the last managed frame is
  never tried, against the comment on `available_range` at line 133.
- `memory_manager.rs:427`: a request of exactly 2048 bytes is not above the limit
  for whole frames, and no block size is strictly larger, so it gets null with
  memory free, and `oom` (`main.rs:360`) stops the kernel with "out of memory.".

Met while modelling, without a run of their own:

- The comment at `graphic/buffered.rs:9` has `flush` copy from fore to back; the code,
  and the comment at line 23, copy from back to fore.
- `current_port` (`usb/action/init_device.rs:47`) is never cleared, so one port only is
  reset after boot; a device plugged into another one is never addressed.
- Main draws the tick into the test window (`main.rs:319`) and never flushes it, so the
  tick does not appear.
- `elapsed * 10` (`timer.rs:101`) can overflow, which panics, if `wait_millis` misses the
  end of its window beside the wrap of the PM timer and waits another lap.

What the code leaves open, and the model with it (no property is about these):

- A stage of a control request that is not the awaited one may fail, and the driver then
  waits for ever; a request without data counts as done at its Setup stage
  (`usb/ring/transfer.rs:125`). A halted endpoint is never reset.
- An error while reading a device ends the USB driver (`usb/usbd.rs:484`), and the completion
  codes of Enable Slot and Configure Endpoint are not looked at
  (`usb/action/init_device.rs:79`, `usb/usbd.rs:282`).
- The scan at boot acknowledges every change of a port (`usb/action/init_device.rs:24`). A
  disconnect that the loop reads is not acknowledged (line 36), so that the port has no
  further event; one between the read and `clear_csc` (line 37) is acknowledged unread.
- The write-back of the scan also writes 1 to Port Enabled, which disables a port. The model
  has no such bit and lets a device be addressed without it.
- A ring that is asked for by a late event is only known to exist; whether it is the one the
  transfer was put into is left open, since slots are never disabled.
- An interface number past a gap panics (`usb/usbd.rs:232`), and a configuration descriptor
  inside a configuration makes the parser loop (line 451).
- 64 GiB are mapped (`paging.rs:23`), while the allocator manages 128 GiB and a BAR may be
  anywhere; `Boot` ends in "fault" at a BAR that is not mapped.
- If the OS semaphore is already set, the hand-over is skipped with SMIs left on
  (`usb/xhci.rs:199`); `XhcStartedWhole` excepts this case (`hw.os`).
- The loader reads `p_type` into a 16-bit enum (`bootloader/src/elf.rs:69`), of which most
  values of the field are no variant; `KernelImage` compares the low 16 bits.

## Not modelled

- Code without a caller or user: `set_interface`, `Broadcast`, `SingleMutex`,
  `emit_command_async`, `draw_bitpattern`, `clear_update_flag`, and `usb/context.rs`,
  which is not part of the build.
- The glyphs of `font.rs`, the bit fields of a keyboard report (`key.rs`), and what is
  printed by `Debug`, the dumps of rings with `into_cmd_trb` and `into_trans_trb`
  included; `run_allocator_tests`, which is a test.
- The store of a TRB is one step; how the compiler splits it is not in the source.
- The memory order of the locks' atomics: one CPU sees its own stores in order.
- Interrupts before the `sti` of `KernelMain2`: the firmware's until the flag is
  cleared, and none after that.
- Configuration descriptors longer than the driver's 64-byte buffer, which it reads past
  its end; descriptors that the USB specification does not allow.
- The event types for which `process_event` has only a `todo!()`.
- The hardware beyond what the code reads and writes: devices, controller, timers and
  host bridge are modelled from how the code uses them.
