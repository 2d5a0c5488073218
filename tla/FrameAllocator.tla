--------------------------- MODULE FrameAllocator ---------------------------
(***************************************************************************)
(* BitMapMemoryManager of kernel/src/memory_manager.rs, the physical frame *)
(* allocator, from the firmware's memory map (kernel/src/memory_map.rs) it *)
(* is built from to any sequence of allocate and free.                     *)
(* The manager is the static MEM; every call holds its lock, so calls do   *)
(* not overlap, and the scan of allocate is cut into steps only to follow  *)
(* its two loops.  Addresses are counted in frames.                        *)
(***************************************************************************)
EXTENDS Integers, Sequences

CONSTANTS
  FRAME_COUNT,  \* frames alloc_map has a bit for
  Maps,         \* the memory maps the firmware may pass
  MaxRequest    \* bound: the largest number of frames asked for

Types == {"conventional", "boot_services", "reserved"}

MemoryDescriptor ==
  [type : Types, physical_start : Nat, num_pages : Nat, attribute : BOOLEAN]

ASSUME CountAssumption == FRAME_COUNT \in Nat
ASSUME MapsAssumption == \A m \in Maps : m \in Seq(MemoryDescriptor)
ASSUME RequestAssumption == MaxRequest \in Nat \ {0}

VARIABLES
  map,                    \* the memory map of this machine
  seek,                   \* the entry new_at is at
  available_end,
  alloc_map,              \* the frames whose bit is set
  available_range,        \* <<first, last + 1>>
  pc,                     \* "new_at", "idle", "scan" in allocate, "panic"
  nframes, start, nfree,  \* the variables of allocate
  ret,                    \* its result, 0 for None
  live,                   \* ghost: the blocks handed out and not freed
  reserved                \* ghost: the frames new_at has marked

scan == <<nframes, start, nfree>>
vars == <<map, seek, available_end, alloc_map, available_range, pc, scan, ret, live, reserved>>

Frames == 0 .. FRAME_COUNT - 1

Block(s, n) == s .. s + n - 1

Init ==
  /\ map \in Maps
  /\ seek = 1
  /\ available_end = 0
  /\ alloc_map = {}
  /\ available_range = <<0, 0>>
  /\ pc = "new_at"
  /\ nframes = 0 /\ start = 0 /\ nfree = 0 /\ ret = 0
  /\ live = {} /\ reserved = {}

-----------------------------------------------------------------------------
is_available(desc) == desc.type \in {"conventional", "boot_services"}

pages(desc) == Block(desc.physical_start, desc.num_pages)

\* MemoryMapIter::next ends at the first zero-filled entry.
has_entry == seek <= Len(map) /\ map[seek].attribute

\* Wrong: the hole before a descriptor is not marked.
hole_ignored(desc) == {}

\* The frames between the last available descriptor and this one.
hole(desc) == available_end .. desc.physical_start - 1

\* One round of new_at's loop.  Indexing alloc_map past its end panics.
new_at ==
  /\ pc = "new_at" /\ has_entry
  /\ LET desc == map[seek]
         marks == hole(desc) \cup (IF is_available(desc) THEN {} ELSE pages(desc))
     IN  \/ /\ marks \subseteq Frames
            /\ alloc_map' = alloc_map \cup marks
            /\ available_end' = IF is_available(desc) THEN desc.physical_start + desc.num_pages
                                                      ELSE available_end
            /\ seek' = seek + 1
            /\ UNCHANGED pc
         \/ /\ ~(marks \subseteq Frames)
            /\ pc' = "panic"
            /\ UNCHANGED <<alloc_map, available_end, seek>>
  /\ UNCHANGED <<map, available_range, scan, ret, live, reserved>>

new_at_end ==
  /\ pc = "new_at" /\ ~has_entry
  /\ available_range' = <<1, available_end>>
  /\ pc' = "idle"
  /\ reserved' = alloc_map
  /\ UNCHANGED <<map, seek, available_end, alloc_map, scan, ret, live>>

-----------------------------------------------------------------------------
\* allocate(n), up to its loop; range.1 - nframes may not be negative.
allocate(n) ==
  /\ pc = "idle"
  /\ nframes' = n
  /\ start' = available_range[1]
  /\ nfree' = 0
  /\ pc' = IF n <= available_range[2] THEN "scan" ELSE "panic"
  /\ UNCHANGED <<map, seek, available_end, alloc_map, available_range, ret, live, reserved>>

in_range == start < available_range[2] - nframes

\* The condition of the inner loop up to the bit it tests.
looking == nfree < nframes /\ start + nfree < available_range[2]

\* Wrong: only the frames marked at boot are taken for used.
get_bit_at_boot(frame) == frame \in reserved

get_bit(frame) == frame \in alloc_map

\* Wrong: alloc_map is half as long.
indexable_half(frame) == frame < FRAME_COUNT \div 2

\* alloc_map[frame / 8] does not panic.
indexable(frame) == frame \in Frames

\* The inner loop meets a free frame, or a frame alloc_map has no bit for.
count_free ==
  /\ pc = "scan" /\ in_range /\ looking /\ ~get_bit(start + nfree)
  /\ IF indexable(start + nfree)
       THEN nfree' = nfree + 1 /\ UNCHANGED pc
       ELSE pc' = "panic" /\ UNCHANGED nfree
  /\ UNCHANGED <<map, seek, available_end, alloc_map, available_range,
                 nframes, start, ret, live, reserved>>

mark_allocated(from, n) == alloc_map \cup Block(from, n)

found ==
  /\ pc = "scan" /\ in_range /\ nfree = nframes
  /\ alloc_map' = mark_allocated(start, nframes)
  /\ ret' = start
  /\ live' = live \cup {<<start, nframes>>}
  /\ pc' = "idle"
  /\ UNCHANGED <<map, seek, available_end, available_range, scan, reserved>>

\* Wrong: the frame after the one in use is skipped too.
skip_two == start + nfree + 2

skipped == start + nfree + 1

skip ==
  /\ pc = "scan" /\ in_range /\ nfree # nframes
  /\ start + nfree >= available_range[2] \/ get_bit(start + nfree)
  /\ start' = skipped
  /\ nfree' = 0
  /\ UNCHANGED <<map, seek, available_end, alloc_map, available_range, pc,
                 nframes, ret, live, reserved>>

not_found ==
  /\ pc = "scan" /\ ~in_range
  /\ ret' = 0
  /\ pc' = "idle"
  /\ UNCHANGED <<map, seek, available_end, alloc_map, available_range, scan, live, reserved>>

\* Wrong: the first frame alone is freed.
freed_first(s, n) == alloc_map \ {s}

freed(s, n) == alloc_map \ Block(s, n)

\* The owner of a block frees it, with the size it was allocated with.
free(s, n) ==
  /\ pc = "idle" /\ <<s, n>> \in live
  /\ alloc_map' = freed(s, n)
  /\ live' = live \ {<<s, n>>}
  /\ UNCHANGED <<map, seek, available_end, available_range, pc, scan, ret, reserved>>

Next ==
  \/ new_at \/ new_at_end
  \/ \E n \in 1 .. MaxRequest : allocate(n)
  \/ count_free \/ found \/ skip \/ not_found
  \/ \E b \in live : free(b[1], b[2])

Spec == Init /\ [][Next]_vars

-----------------------------------------------------------------------------
(* The type invariant.                                                     *)
TypeOK ==
  /\ map \in Maps
  /\ seek \in Nat \ {0}
  /\ available_end \in Nat
  /\ alloc_map \in SUBSET Frames
  /\ available_range \in Nat \X Nat
  /\ pc \in {"new_at", "idle", "scan", "panic"}
  /\ nframes \in 0 .. MaxRequest /\ start \in Nat /\ nfree \in Nat
  /\ ret \in Nat
  /\ live \in SUBSET (Nat \X (1 .. MaxRequest))
  /\ reserved \in SUBSET Frames

Available(f) == \E i \in 1 .. Len(map) : is_available(map[i]) /\ f \in pages(map[i])

(* Whatever map the firmware passes, sorted or not and with any holes, a   *)
(* frame handed out is never frame 0, the null pointer, and lies in a      *)
(* descriptor that the kernel may use.                                     *)
OnlyAvailable ==
  \A b \in live : \A f \in Block(b[1], b[2]) : f # 0 /\ Available(f)

(* No two blocks in use share a frame.                                     *)
NoOverlap ==
  \A b, c \in live : b # c => Block(b[1], b[2]) \cap Block(c[1], c[2]) = {}

(* The bitmap neither forgets nor leaks a frame: beyond those new_at has   *)
(* marked, exactly the frames of the blocks in use are marked.             *)
BitmapExact ==
  pc \in {"idle", "scan"} =>
    /\ \A f \in alloc_map : f \in reserved \/ \E b \in live : f \in Block(b[1], b[2])
    /\ reserved \subseteq alloc_map
    /\ \A b \in live : Block(b[1], b[2]) \subseteq alloc_map

\* n frames from s on are free.
Fits(s, n) == \A f \in Block(s, n) : f \notin alloc_map

Returns == pc = "scan" /\ pc' = "idle"

(* allocate is first fit: it hands out the lowest free run of nframes, and *)
(* answers None only if no run ends before the last managed frame.         *)
FirstFit ==
  [][Returns =>
       IF ret' = 0
       THEN \A s \in available_range[1] .. available_range[2] - nframes - 1 : ~Fits(s, nframes)
       ELSE /\ ret' >= available_range[1] /\ ret' + nframes <= available_range[2]
            /\ Fits(ret', nframes)
            /\ \A s \in available_range[1] .. ret' - 1 : ~Fits(s, nframes)]_vars

(* The comment on available_range promises that every frame up to last is  *)
(* managed: allocate answers None only if no run of nframes lies in the    *)
(* range.                                                                  *)
NoneMeansFull ==
  [][Returns /\ ret' = 0 =>
       \A s \in available_range[1] .. available_range[2] - nframes : ~Fits(s, nframes)]_vars

(* The kernel panics here only on a map with memory past the last frame    *)
(* alloc_map covers, or on a request larger than all of memory.            *)
PanicsOnlyPastEnd ==
  pc = "panic" =>
    \/ \E i \in 1 .. Len(map) : map[i].physical_start + map[i].num_pages > FRAME_COUNT
    \/ nframes > available_range[2]
=============================================================================
