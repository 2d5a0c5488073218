--------------------------- MODULE ObjectAllocator ---------------------------
(***************************************************************************)
(* ObjectAllocator of kernel/src/memory_manager.rs, the kernel's global    *)
(* allocator: lists of free blocks of a few sizes, refilled with frames,   *)
(* and whole frames for anything larger.  Every call holds the lock of     *)
(* GLOBAL_ALLOCATOR, so each is one step.                                  *)
(*                                                                         *)
(* Memory is the numbers 0 .. (LastFrame + 1) * BYTES_PER_FRAME - 1, in    *)
(* units of which a block holds a few.  The frame allocator is taken by    *)
(* what FrameAllocator shows of it.                                        *)
(***************************************************************************)
EXTENDS Integers, Sequences, FiniteSetsExt

CONSTANTS
  BYTES_PER_FRAME,
  BLOCK_SZ,     \* the block sizes, ascending, each dividing BYTES_PER_FRAME
  HEADER,       \* the size of a PageHeader, by which new_at places the blocks
  LOCKED,       \* the size of the Mutex<PageHeader> it writes
  LastFrame,    \* frames 1 .. LastFrame are managed
  Layouts,      \* the <<size, align>> the kernel asks for
  MaxLive       \* bound: objects in use at a time

ASSUME SizeAssumption ==
  /\ BYTES_PER_FRAME \in Nat \ {0} /\ HEADER \in Nat /\ LOCKED \in Nat /\ LastFrame \in Nat
  /\ BLOCK_SZ \in Seq(Nat \ {0}) /\ Len(BLOCK_SZ) \in 1 .. LastFrame - 1
\* The room new_at leaves for the header, whole blocks, holds its Mutex too.
ASSUME BlockAssumption ==
  \A i \in 1 .. Len(BLOCK_SZ) :
    /\ HEADER < BYTES_PER_FRAME /\ BYTES_PER_FRAME % BLOCK_SZ[i] = 0
    /\ LOCKED <= ((HEADER + BLOCK_SZ[i] - 1) \div BLOCK_SZ[i]) * BLOCK_SZ[i]
\* alloc is unimplemented! for frames aligned to more than a frame; alignments
\* are powers of two, as BYTES_PER_FRAME is, so the others divide it.
ASSUME LayoutAssumption ==
  \A l \in Layouts :
    /\ l \in Nat \X (Nat \ {0})
    /\ l[1] > BLOCK_SZ[Len(BLOCK_SZ)] => BYTES_PER_FRAME % l[2] = 0

VARIABLES
  mem,        \* the free frames of MEM
  free_list,  \* free_list[i]: addresses of free blocks of size BLOCK_SZ[i]
  live,       \* the objects in use: records [ptr, size, align]
  ret         \* what the last alloc returned, 0 for null

vars == <<mem, free_list, live, ret>>

Classes == 1 .. Len(BLOCK_SZ)
MaxBlock == BLOCK_SZ[Len(BLOCK_SZ)]

\* The blocks of size sz of a frame from address objs_start on, in the order
\* in which pushing them from the top down leaves them.
blocks(objs_start, page_end, sz) ==
  [i \in 1 .. (page_end - objs_start) \div sz |-> objs_start + (i - 1) * sz]

\* PageHeader::new_at: the blocks after the header.
new_at(page_head, sz) ==
  blocks(page_head + ((HEADER + sz - 1) \div sz) * sz, page_head + BYTES_PER_FRAME, sz)

\* Wrong: the loop ends one block late, or early.
extend_far(page, sz) == blocks(page, page + BYTES_PER_FRAME + sz, sz)
extend_short(page, sz) == blocks(page + sz, page + BYTES_PER_FRAME, sz)

\* PageHeader::extend: all blocks of the frame.
extend(page, sz) == blocks(page, page + BYTES_PER_FRAME, sz)

\* ObjectAllocator::new: one frame for each size.
Init ==
  /\ mem = Len(BLOCK_SZ) + 1 .. LastFrame
  /\ free_list = [i \in Classes |-> new_at(i * BYTES_PER_FRAME, BLOCK_SZ[i])]
  /\ live = {}
  /\ ret = 0

-----------------------------------------------------------------------------
\* BitMapMemoryManager::allocate: the lowest free run that ends before the
\* last frame, 0 for None.
Runs(n) == {s \in mem : s .. s + n - 1 \subseteq mem /\ s + n <= LastFrame}
allocate(n) == IF Runs(n) = {} THEN 0 ELSE Min(Runs(n))

get_frame_start(frame) == frame * BYTES_PER_FRAME

nframes(size) == (size + BYTES_PER_FRAME - 1) \div BYTES_PER_FRAME

\* The sizes that hold an object of this size: strictly larger ones only.
fitting(size) == {i \in Classes : BLOCK_SZ[i] > size}

class(size) == Min(fitting(size))

\* Wrong: the alignment is ignored.
first_of(list, align) == IF list = <<>> THEN 0 ELSE 1

\* pop_filter: the place of the first aligned block, 0 if there is none, and
\* the list without the block at place k.
first_aligned(list, align) ==
  LET aligned == {k \in 1 .. Len(list) : list[k] % align = 0}
  IN  IF aligned = {} THEN 0 ELSE Min(aligned)

unlinked(list, k) == SubSeq(list, 1, k - 1) \o SubSeq(list, k + 1, Len(list))

Object(p, layout) == [ptr |-> p, size |-> layout[1], align |-> layout[2]]

give(p, layout) ==
  /\ ret' = p
  /\ live' = IF p = 0 THEN live ELSE live \cup {Object(p, layout)}

alloc_frames(layout) ==
  /\ layout[1] > MaxBlock
  /\ LET s == allocate(nframes(layout[1]))
     IN  /\ mem' = IF s = 0 THEN mem ELSE mem \ (s .. s + nframes(layout[1]) - 1)
         /\ give(get_frame_start(s), layout)
  /\ UNCHANGED free_list

\* No block size is strictly larger: null.
alloc_none(layout) ==
  /\ layout[1] <= MaxBlock /\ fitting(layout[1]) = {}
  /\ give(0, layout)
  /\ UNCHANGED <<mem, free_list>>

\* pop_filter on list i as it is after a refill, or null.
take(i, list, layout) ==
  LET k == first_aligned(list, layout[2])
  IN  /\ free_list' = [free_list EXCEPT ![i] = IF k = 0 THEN list ELSE unlinked(list, k)]
      /\ give(IF k = 0 THEN 0 ELSE list[k], layout)

alloc_block(layout) ==
  /\ layout[1] <= MaxBlock /\ fitting(layout[1]) # {}
  /\ LET i == class(layout[1])
         f == allocate(1)
     IN  \/ /\ first_aligned(free_list[i], layout[2]) # 0
            /\ take(i, free_list[i], layout)
            /\ UNCHANGED mem
         \/ /\ first_aligned(free_list[i], layout[2]) = 0 /\ f = 0
            /\ give(0, layout)
            /\ UNCHANGED <<mem, free_list>>
         \/ /\ first_aligned(free_list[i], layout[2]) = 0 /\ f # 0
            /\ mem' = mem \ {f}
            /\ take(i, extend(get_frame_start(f), BLOCK_SZ[i]) \o free_list[i], layout)

alloc(layout) == alloc_frames(layout) \/ alloc_none(layout) \/ alloc_block(layout)

dealloc(o) ==
  /\ live' = live \ {o}
  /\ \/ /\ o.size > MaxBlock
        /\ mem' = mem \cup (o.ptr \div BYTES_PER_FRAME
                             .. o.ptr \div BYTES_PER_FRAME + nframes(o.size) - 1)
        /\ UNCHANGED free_list
     \/ /\ o.size <= MaxBlock
        /\ free_list' = [free_list EXCEPT ![class(o.size)] = <<o.ptr>> \o @]
        /\ UNCHANGED mem
  /\ UNCHANGED ret

Next ==
  \/ Cardinality(live) < MaxLive /\ \E layout \in Layouts : alloc(layout)
  \/ \E o \in live : dealloc(o)

Spec == Init /\ [][Next]_vars

-----------------------------------------------------------------------------
Memory == BYTES_PER_FRAME .. (LastFrame + 1) * BYTES_PER_FRAME - 1

(* The type invariant.                                                     *)
TypeOK ==
  /\ mem \subseteq 1 .. LastFrame
  /\ free_list \in [Classes -> Seq(Memory)]
  /\ \A o \in live : o.ptr \in Memory /\ <<o.size, o.align>> \in Layouts
  /\ ret \in Memory \cup {0}

\* What an object in use, a free block, a free frame and a header occupy.
Extent(o) ==
  IF o.size > MaxBlock THEN o.ptr .. o.ptr + nframes(o.size) * BYTES_PER_FRAME - 1
                       ELSE o.ptr .. o.ptr + BLOCK_SZ[class(o.size)] - 1
FreeExtent(i, p) == p .. p + BLOCK_SZ[i] - 1
FrameExtent(f) == f * BYTES_PER_FRAME .. (f + 1) * BYTES_PER_FRAME - 1
HeaderExtent(i) == i * BYTES_PER_FRAME .. i * BYTES_PER_FRAME + LOCKED - 1

FreeBlocks == UNION {{<<i, k>> : k \in 1 .. Len(free_list[i])} : i \in Classes}

(* Every unit of memory has at most one use: objects in use overlap        *)
(* neither each other nor a page header (with its Mutex, which new_at does *)
(* not count), a free block or a free frame, and no block is free twice.   *)
SingleUse ==
  \A x \in Memory :
    Cardinality({o \in live : x \in Extent(o)})
      + Cardinality({b \in FreeBlocks : x \in FreeExtent(b[1], free_list[b[1]][b[2]])})
      + Cardinality({f \in mem : x \in FrameExtent(f)})
      + Cardinality({i \in Classes : x \in HeaderExtent(i)}) <= 1

(* No block is ever leaked: the blocks of a size, free or in use, are all  *)
(* of the frames given to that size, less the room of one header.          *)
NoLeak ==
  LET used(i) == {o \in live : o.size <= MaxBlock /\ class(o.size) = i}
      room(i) == Len(free_list[i]) + Cardinality(used(i))
                   + (HEADER + BLOCK_SZ[i] - 1) \div BLOCK_SZ[i]
  IN  \A i \in Classes : (room(i) * BLOCK_SZ[i]) % BYTES_PER_FRAME = 0

(* An object in use is aligned as asked and its block holds its size.      *)
AlignedAndLargeEnough ==
  \A o \in live : o.ptr % o.align = 0 /\ o.ptr .. o.ptr + o.size - 1 \subseteq Extent(o)

(* The handler of a null result prints "out of memory.": alloc returns     *)
(* null to a request of at most one frame only when no frame is left.      *)
NullMeansOutOfMemory ==
  [][\A layout \in Layouts :
       /\ layout[1] <= BYTES_PER_FRAME /\ layout[2] <= BYTES_PER_FRAME
       /\ alloc(layout) /\ ret' = 0
       => Runs(1) = {}]_vars
=============================================================================
