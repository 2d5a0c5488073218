------------------------- MODULE MCFrameAllocator -------------------------
(* Memory maps for TLC: sorted, with a hole, unsorted, cut short by a       *)
(* zero-filled entry, reaching past the frames of the bitmap, and smaller   *)
(* than a request.                                                          *)
EXTENDS FrameAllocator

Desc(type, physical_start, num_pages) ==
  [type |-> type, physical_start |-> physical_start, num_pages |-> num_pages, attribute |-> TRUE]

ZeroFilled == [type |-> "reserved", physical_start |-> 0, num_pages |-> 0, attribute |-> FALSE]

MCMaps == {
  <<Desc("boot_services", 0, 2), Desc("reserved", 2, 1), Desc("conventional", 3, 4)>>,
  <<Desc("conventional", 0, 3), Desc("conventional", 5, 3)>>,
  <<Desc("reserved", 6, 1), Desc("conventional", 1, 2), Desc("conventional", 3, 3)>>,
  <<Desc("conventional", 0, 4), ZeroFilled, Desc("conventional", 4, 3)>>,
  <<Desc("conventional", 0, 3), Desc("reserved", 7, 3)>>,
  <<Desc("conventional", 5, 6), Desc("reserved", 3, 1)>>,
  <<Desc("conventional", 0, 2), Desc("reserved", 2, 2)>> }
=============================================================================
