------------------------ MODULE FrameAllocatorProofs ------------------------
(***************************************************************************)
(* Proofs about the frame allocator, for every memory map, every bitmap    *)
(* size and every sequence of requests: blocks in use are disjoint and     *)
(* made of available frames, the bitmap is exact, and allocate is first    *)
(* fit.                                                                    *)
(***************************************************************************)
EXTENDS FrameAllocator, TLAPS

\* Up to available_end every frame is marked or may be used.
MapInv == \A f \in 0 .. available_end - 1 : f \in alloc_map \/ Available(f)

\* The stages of the manager.
StageInv ==
  /\ pc = "new_at" => live = {}
  /\ pc \in {"idle", "scan"} => available_range = <<1, available_end>>

\* The blocks in use are marked, and were not marked by new_at.
LiveInv ==
  \A b \in live : Block(b[1], b[2]) \subseteq alloc_map /\ Block(b[1], b[2]) \cap reserved = {}

\* Every mark is accounted for.
MarkInv ==
  pc \in {"idle", "scan"} =>
    /\ \A f \in alloc_map : f \in reserved \/ \E b \in live : f \in Block(b[1], b[2])
    /\ reserved \subseteq alloc_map

\* What the two loops of allocate have established so far.
ScanInv ==
  pc = "scan" =>
    /\ nframes >= 1 /\ nframes <= available_range[2]
    /\ start >= 1 /\ nfree <= nframes
    /\ \A f \in Block(start, nfree) :
         f \notin alloc_map /\ f < available_range[2] /\ f \in Frames
    /\ \A s \in 1 .. start - 1 : s < available_range[2] - nframes => ~Fits(s, nframes)

IInv == TypeOK /\ MapInv /\ StageInv /\ OnlyAvailable /\ NoOverlap /\ LiveInv /\ MarkInv /\ ScanInv

LEMMA InitIInv == Init => IInv
BY CountAssumption, RequestAssumption
DEF Init, IInv, TypeOK, MapInv, StageInv, OnlyAvailable, NoOverlap, LiveInv, MarkInv, ScanInv, Frames

\* What holds of the blocks in use while none is added or removed.
LEMMA Kept ==
  ASSUME IInv, UNCHANGED <<map, live>>
  PROVE  /\ OnlyAvailable' /\ NoOverlap'
         /\ \A f : Available(f)' <=> Available(f)
BY Zenon DEF IInv, OnlyAvailable, NoOverlap, Available

LEMMA NewAtStep ==
  ASSUME IInv, new_at
  PROVE  IInv'
<1>0. /\ UNCHANGED <<map, available_range, nframes, start, nfree, ret, live, reserved>>
      /\ pc = "new_at" /\ live = {} /\ pc' \in {"new_at", "panic"}
  BY Zenon DEF new_at, scan, IInv, StageInv
<1>. DEFINE desc == map[seek]
<1>1. /\ desc \in MemoryDescriptor /\ seek \in 1 .. Len(map)
      /\ desc.physical_start \in Nat /\ desc.num_pages \in Nat
  <2>1. map \in Seq(MemoryDescriptor) /\ seek \in Nat \ {0} /\ seek <= Len(map)
    BY MapsAssumption, Zenon DEF new_at, has_entry, IInv, TypeOK
  <2>2. seek \in 1 .. Len(map)
    BY <2>1
  <2>3. desc \in MemoryDescriptor
    BY <2>1, <2>2
  <2>. QED  BY <2>2, <2>3, Zenon DEF MemoryDescriptor
<1>2. CASE UNCHANGED <<alloc_map, available_end, seek>>
  BY <1>0, <1>2, Kept
 , Zenon DEF IInv, TypeOK, MapInv, StageInv, LiveInv, MarkInv, ScanInv
<1>3. ASSUME NEW marks, marks = hole(desc) \cup (IF is_available(desc) THEN {} ELSE pages(desc)),
             marks \subseteq Frames, alloc_map' = alloc_map \cup marks,
             available_end' = IF is_available(desc) THEN desc.physical_start + desc.num_pages
                                                    ELSE available_end,
             seek' = seek + 1
      PROVE  IInv'
  <2>1. TypeOK'
    BY <1>0, <1>1, <1>3 DEF IInv, TypeOK
  <2>2. MapInv'
    <3>. SUFFICES ASSUME NEW f \in 0 .. available_end' - 1, f \notin alloc_map'
                  PROVE  Available(f)
      BY <1>0, Kept, Zenon DEF MapInv
    <3>1. CASE is_available(desc)
      <4>1. CASE f \in pages(desc)
        BY <1>1, <3>1, <4>1, Zenon DEF Available
      <4>2. CASE f \notin pages(desc)
        <5>1. f < available_end
          <6>1. f < desc.physical_start + desc.num_pages /\ f \in Nat /\ available_end \in Nat
            BY <1>1, <1>3, <3>1 DEF IInv, TypeOK
          <6>2. f < desc.physical_start
            BY <1>1, <4>2, <6>1 DEF pages, Block
          <6>3. f \notin available_end .. desc.physical_start - 1
            BY <1>3, Zenon DEF hole
          <6>. QED  BY <1>1, <6>1, <6>2, <6>3
        <5>. QED  BY <1>3, <5>1 DEF IInv, TypeOK, MapInv
      <4>. QED  BY <4>1, <4>2, Zenon
    <3>2. CASE ~is_available(desc)
      BY <1>3, <3>2, Zenon DEF IInv, MapInv
    <3>. QED  BY <3>1, <3>2, Zenon
  <2>. QED  BY <1>0, <2>1, <2>2, Kept, Zenon DEF IInv, StageInv, LiveInv, MarkInv, ScanInv
<1>. QED  BY <1>2, <1>3, Zenon DEF new_at

LEMMA NewAtEndStep ==
  ASSUME IInv, new_at_end
  PROVE  IInv'
BY Kept, Zenon DEF new_at_end, scan, IInv, TypeOK, MapInv, StageInv, LiveInv, MarkInv, ScanInv

LEMMA AllocateStep ==
  ASSUME IInv, NEW n \in 1 .. MaxRequest, allocate(n)
  PROVE  IInv'
<1>0. /\ UNCHANGED <<map, seek, available_end, alloc_map, available_range, ret, live, reserved>>
      /\ nframes' = n /\ nfree' = 0 /\ start' = 1 /\ available_range = <<1, available_end>>
      /\ pc' \in {"scan", "panic"} /\ (pc' = "scan" => n <= available_range[2]) /\ pc = "idle"
  BY DEF allocate, IInv, StageInv
<1>1. TypeOK'
  BY <1>0, RequestAssumption DEF IInv, TypeOK
<1>2. MapInv' /\ StageInv' /\ LiveInv' /\ MarkInv'
  BY <1>0, Kept, Zenon DEF IInv, MapInv, StageInv, LiveInv, MarkInv
<1>3. ScanInv'
  BY <1>0, RequestAssumption DEF ScanInv, Block
<1>. QED  BY <1>0, <1>1, <1>2, <1>3, Kept, Zenon DEF IInv

LEMMA CountStep ==
  ASSUME IInv, count_free
  PROVE  IInv'
<1>0. /\ UNCHANGED <<map, seek, available_end, alloc_map, available_range, nframes, start, ret,
                     live, reserved>>
      /\ pc = "scan"
      /\ \/ pc' = "panic" /\ nfree' = nfree
         \/ pc' = "scan" /\ nfree' = nfree + 1 /\ start + nfree \in Frames
  BY Zenon DEF count_free, indexable
<1>1. TypeOK'
  BY <1>0 DEF IInv, TypeOK
<1>2. MapInv' /\ StageInv' /\ LiveInv' /\ MarkInv'
  BY <1>0, Kept, Zenon DEF IInv, MapInv, StageInv, LiveInv, MarkInv
<1>3. ScanInv'
  BY <1>0 DEF count_free, indexable, looking, get_bit, IInv, TypeOK, ScanInv, Block, Fits
<1>. QED  BY <1>0, <1>1, <1>2, <1>3, Kept, Zenon DEF IInv

LEMMA FoundStep ==
  ASSUME IInv, found
  PROVE  IInv'
<1>. DEFINE b == <<start, nframes>>
            B == Block(start, nframes)
<1>0. /\ UNCHANGED <<map, seek, available_end, available_range, nframes, start, nfree, reserved>>
      /\ pc = "scan" /\ pc' = "idle" /\ ret' = start /\ nfree = nframes
      /\ alloc_map' = alloc_map \cup B /\ live' = live \cup {b}
  BY Zenon DEF found, scan, mark_allocated
<1>1. /\ nframes \in 1 .. MaxRequest /\ start \in Nat /\ start >= 1
      /\ \A f \in B : f \notin alloc_map /\ f \in 1 .. available_end - 1 /\ f \in Frames
  BY <1>0 DEF IInv, TypeOK, StageInv, ScanInv, Block
<1>2. \A f \in B : f # 0 /\ Available(f)
  BY <1>1 DEF IInv, MapInv
<1>3. \A f : Available(f)' <=> Available(f)
  BY <1>0, Zenon DEF Available
<1>4. \A c \in live : Block(c[1], c[2]) \cap B = {}
  BY <1>1, Zenon DEF IInv, LiveInv
<1>5. b[1] = start /\ b[2] = nframes /\ b \in Nat \X (1 .. MaxRequest)
  BY <1>1, Zenon
<1>. HIDE DEF b, B
<1>6. TypeOK'
  BY <1>0, <1>1, <1>5, Zenon DEF IInv, TypeOK
<1>7. MapInv'
  BY <1>0, <1>3, Zenon DEF IInv, MapInv
<1>8. StageInv' /\ ScanInv'
  BY <1>0, Zenon DEF IInv, StageInv, ScanInv
<1>9. OnlyAvailable'
  BY <1>0, <1>2, <1>3, <1>5, Zenon DEF IInv, OnlyAvailable, B
<1>10. NoOverlap'
  BY <1>0, <1>4, <1>5, Zenon DEF IInv, NoOverlap, B
<1>11. LiveInv'
  <2>1. B \cap reserved = {}
    BY <1>0, <1>1, Zenon DEF IInv, MarkInv
  <2>. QED  BY <1>0, <1>5, <2>1, Zenon DEF IInv, LiveInv, B
<1>12. MarkInv'
  BY <1>0, <1>5, Zenon DEF IInv, MarkInv, B
<1>. QED  BY <1>6, <1>7, <1>8, <1>9, <1>10, <1>11, <1>12, Zenon DEF IInv

(* The frame that stopped the inner loop is part of every block that       *)
(* starts between start and it.                                            *)
LEMMA SkipStep ==
  ASSUME IInv, skip
  PROVE  IInv'
<1>0. /\ UNCHANGED <<map, seek, available_end, alloc_map, available_range, pc, nframes, ret,
                     live, reserved>>
      /\ pc = "scan" /\ start' = start + nfree + 1 /\ nfree' = 0
  BY Zenon DEF skip, skipped
<1>1. TypeOK'
  BY <1>0 DEF IInv, TypeOK
<1>2. MapInv' /\ StageInv' /\ LiveInv' /\ MarkInv'
  BY <1>0, Kept, Zenon DEF IInv, MapInv, StageInv, LiveInv, MarkInv
<1>3. ScanInv'
  <2>1. ASSUME NEW s \in 1 .. start' - 1, s < available_range[2] - nframes
        PROVE  ~Fits(s, nframes)
    <3>1. CASE s < start
      BY <1>0, <2>1, <3>1 DEF IInv, TypeOK, ScanInv
    <3>2. CASE s >= start
      <4>1. nfree < nframes /\ nfree \in Nat /\ start \in Nat /\ nframes \in Nat
        BY <1>0 DEF skip, IInv, TypeOK, ScanInv
      <4>2. start + nfree \in Block(s, nframes)
        BY <1>0, <2>1, <3>2, <4>1 DEF Block
      <4>3. start + nfree \in alloc_map
        BY <1>0, <2>1, <3>2, <4>1, <4>2 DEF skip, get_bit, Block, IInv, TypeOK
      <4>. QED  BY <4>2, <4>3, Zenon DEF Fits
    <3>. QED  BY <1>0, <3>1, <3>2 DEF IInv, TypeOK
  <2>2. \A s \in 1 .. start' - 1 : (s < available_range[2] - nframes => ~Fits(s, nframes))'
    BY <1>0, <2>1, Zenon DEF Fits
  <2>. QED  BY <1>0, <2>2 DEF IInv, TypeOK, ScanInv, Block
<1>. QED  BY <1>0, <1>1, <1>2, <1>3, Kept, Zenon DEF IInv

LEMMA NotFoundStep ==
  ASSUME IInv, not_found
  PROVE  IInv'
BY Kept, Zenon DEF not_found, scan, IInv, TypeOK, MapInv, StageInv, LiveInv, MarkInv, ScanInv

LEMMA FreeStep ==
  ASSUME IInv, NEW b \in live, free(b[1], b[2])
  PROVE  IInv'
<1>. DEFINE B == Block(b[1], b[2])
<1>0. /\ UNCHANGED <<map, seek, available_end, available_range, pc, nframes, start, nfree, ret,
                     reserved>>
      /\ pc = "idle" /\ alloc_map' = alloc_map \ B /\ live' = live \ {b}
  <2>1. b = <<b[1], b[2]>>
    BY DEF IInv, TypeOK
  <2>. QED  BY <2>1, Zenon DEF free, scan, freed
<1>1. \A f : Available(f)' <=> Available(f)
  BY <1>0, Zenon DEF Available
<1>2. \A c \in live' : Block(c[1], c[2]) \cap B = {}
  BY <1>0, Zenon DEF IInv, NoOverlap
<1>3. \A f \in B : Available(f)
  BY Zenon DEF IInv, OnlyAvailable
<1>4. B \cap reserved = {}
  BY Zenon DEF IInv, LiveInv
<1>. HIDE DEF B
<1>5. TypeOK' /\ StageInv' /\ ScanInv'
  BY <1>0, Zenon DEF IInv, TypeOK, StageInv, ScanInv
<1>6. MapInv'
  BY <1>0, <1>1, <1>3, Zenon DEF IInv, MapInv
<1>7. OnlyAvailable' /\ NoOverlap'
  BY <1>0, <1>1, Zenon DEF IInv, OnlyAvailable, NoOverlap
<1>8. LiveInv'
  BY <1>0, <1>2, Zenon DEF IInv, LiveInv
<1>9. MarkInv'
  BY <1>0, <1>4, Zenon DEF IInv, MarkInv, B
<1>. QED  BY <1>5, <1>6, <1>7, <1>8, <1>9, Zenon DEF IInv

LEMMA StepIInv == IInv /\ [Next]_vars => IInv'
<1>. SUFFICES ASSUME IInv, [Next]_vars PROVE IInv'
  BY Zenon
<1>1. CASE UNCHANGED vars
  BY <1>1, Kept, Zenon DEF vars, scan, IInv, TypeOK, MapInv, StageInv, LiveInv, MarkInv, ScanInv, Fits
<1>. QED
  BY <1>1, NewAtStep, NewAtEndStep, AllocateStep, CountStep, FoundStep, SkipStep, NotFoundStep,
     FreeStep
 , Zenon DEF Next

LEMMA Invariance == Spec => []IInv
BY InitIInv, StepIInv, PTL DEF Spec

-----------------------------------------------------------------------------
(* The allocator's variables keep their types.                             *)
THEOREM Typing == Spec => []TypeOK
BY Invariance, PTL DEF IInv

(* From any memory map, allocate hands out available frames only, and      *)
(* never frame 0.                                                          *)
THEOREM HandsOutAvailable == Spec => []OnlyAvailable
BY Invariance, PTL DEF IInv

(* Blocks in use are pairwise disjoint after any allocations and frees.    *)
THEOREM Disjoint == Spec => []NoOverlap
BY Invariance, PTL DEF IInv

(* The bitmap marks exactly the frames new_at reserved and those in use.   *)
THEOREM Exact == Spec => []BitmapExact
<1>1. IInv => BitmapExact
  BY Zenon DEF IInv, LiveInv, MarkInv, BitmapExact
<1>. QED  BY <1>1, Invariance, PTL

(* allocate returns the lowest run that is free, and None only if no run   *)
(* ends before the last managed frame.                                     *)
THEOREM LowestFit == Spec => FirstFit
<1>. DEFINE A == Returns =>
       IF ret' = 0
       THEN \A s \in available_range[1] .. available_range[2] - nframes - 1 : ~Fits(s, nframes)
       ELSE /\ ret' >= available_range[1] /\ ret' + nframes <= available_range[2]
            /\ Fits(ret', nframes)
            /\ \A s \in available_range[1] .. ret' - 1 : ~Fits(s, nframes)
<1>1. IInv /\ [Next]_vars => [A]_vars
  <2>. SUFFICES ASSUME IInv, Next, pc = "scan", pc' = "idle" PROVE A
    BY Zenon DEF Returns
  <2>0. /\ available_range[1] = 1 /\ available_range[2] \in Nat /\ nframes \in Nat
        /\ start \in Nat /\ start >= 1
        /\ \A s \in 1 .. start - 1 : s < available_range[2] - nframes => ~Fits(s, nframes)
    BY DEF IInv, TypeOK, StageInv, ScanInv
  <2>1. CASE found
    <3>1. ret' = start /\ start < available_range[2] - nframes /\ nfree = nframes
      BY <2>1, Zenon DEF found, in_range
    <3>2. Fits(start, nframes)
      BY <3>1, Zenon DEF IInv, ScanInv, Fits
    <3>. QED  BY <2>0, <3>1, <3>2
  <2>2. CASE not_found
    BY <2>0, <2>2 DEF not_found, in_range
  <2>. QED
    BY <2>1, <2>2, Zenon DEF Next, new_at, new_at_end, allocate, count_free, skip, free
<1>. QED  BY <1>1, Invariance, PTL DEF Spec, FirstFit

-----------------------------------------------------------------------------
end(i) == map[i].physical_start + map[i].num_pages

\* The end of the range is the end of a descriptor.
EndInv == available_end = 0 \/ \E i \in 1 .. Len(map) : available_end = end(i)

LEMMA PanicStep ==
  ASSUME IInv, EndInv, PanicsOnlyPastEnd, [Next]_vars
  PROVE  EndInv' /\ PanicsOnlyPastEnd'
<1>. DEFINE Past == \E i \in 1 .. Len(map) : end(i) > FRAME_COUNT
<1>0. map \in Seq(MemoryDescriptor) /\ FRAME_COUNT \in Nat /\ available_end \in Nat
  BY CountAssumption, MapsAssumption, Zenon DEF IInv, TypeOK
<1>1. CASE new_at
  <2>1. UNCHANGED <<map, nframes, available_range>> /\ seek \in 1 .. Len(map) /\ pc = "new_at"
    BY <1>0, <1>1 DEF new_at, scan, has_entry, IInv, TypeOK
  <2>2. map[seek].physical_start \in Nat /\ map[seek].num_pages \in Nat
    <3>1. map[seek] \in MemoryDescriptor
      BY <1>0, <2>1
    <3>. QED  BY <3>1, Zenon DEF MemoryDescriptor
  <2>3. available_end' \in {available_end, end(seek)}
    BY <1>1, Zenon DEF new_at, end
  <2>4. EndInv'
    BY <2>1, <2>3, Zenon DEF EndInv, end
  <2>5. ASSUME pc' = "panic" PROVE Past
    <3>1. PICK f : f \notin Frames /\ (f \in hole(map[seek]) \/ f \in pages(map[seek]))
      BY <1>1, <2>1, <2>5, Zenon DEF new_at
    <3>2. f \in Nat /\ f < end(seek)
      <4>. DEFINE s == map[seek].physical_start
                  k == map[seek].num_pages
      <4>1. f \in available_end .. s - 1 \/ f \in s .. s + k - 1
        BY <3>1, Zenon DEF hole, pages, Block
      <4>2. end(seek) = s + k /\ s \in Nat /\ k \in Nat
        BY <2>2, Zenon DEF end
      <4>. HIDE DEF s, k
      <4>. QED  BY <1>0, <4>1, <4>2
    <3>3. end(seek) > FRAME_COUNT
      BY <1>0, <2>2, <3>1, <3>2 DEF Frames, end
    <3>. QED  BY <2>1, <3>3, Zenon
  <2>. QED  BY <2>1, <2>4, <2>5, Zenon DEF PanicsOnlyPastEnd, end
<1>2. CASE count_free
  <2>1. /\ UNCHANGED <<map, nframes, available_range, available_end>> /\ pc = "scan"
        /\ start + nfree < available_range[2] /\ available_range[2] = available_end
    BY <1>2 DEF count_free, indexable, looking, IInv, StageInv
  <2>2. ASSUME pc' = "panic" PROVE Past
    <3>1. start + nfree \in Nat /\ start + nfree \notin Frames
      BY <1>2, <2>1, <2>2 DEF count_free, indexable, IInv, TypeOK
    <3>2. available_end > FRAME_COUNT
      BY <1>0, <2>1, <3>1 DEF Frames
    <3>. QED  BY <1>0, <3>2 DEF EndInv
  <2>. QED  BY <2>1, <2>2, Zenon DEF EndInv, PanicsOnlyPastEnd, end
<1>3. ASSUME NEW n \in 1 .. MaxRequest, allocate(n) PROVE EndInv' /\ PanicsOnlyPastEnd'
  <2>1. available_range[2] \in Nat /\ n \in Nat
    BY RequestAssumption DEF IInv, TypeOK
  <2>. QED  BY <1>3, <2>1 DEF allocate, EndInv, PanicsOnlyPastEnd, end
<1>4. CASE new_at_end \/ found \/ skip \/ not_found \/ \E b \in live : free(b[1], b[2])
  BY <1>4, Zenon DEF new_at_end, found, skip, not_found, free, scan, EndInv, PanicsOnlyPastEnd, end
<1>5. CASE UNCHANGED vars
  BY <1>5, Zenon DEF vars, scan, EndInv, PanicsOnlyPastEnd, end
<1>. QED  BY <1>1, <1>2, <1>3, <1>4, <1>5, Zenon DEF Next

(* No map inside the bitmap and no request within memory makes new_at or   *)
(* allocate index past alloc_map or subtract below zero.                   *)
THEOREM NoOtherPanic == Spec => []PanicsOnlyPastEnd
<1>1. Init => EndInv /\ PanicsOnlyPastEnd
  BY Zenon DEF Init, EndInv, PanicsOnlyPastEnd
<1>. QED  BY <1>1, Invariance, PanicStep, PTL DEF Spec
=============================================================================
