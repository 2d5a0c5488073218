------------------------- MODULE MCObjectAllocator -------------------------
(* Two block sizes in frames of eight units: every size below, at and above *)
(* a block size, and alignments below, at and above block and frame.        *)
EXTENDS ObjectAllocator

MCBlockSz == <<2, 4>>
MCLayouts == {<<1, 1>>, <<1, 8>>, <<2, 4>>, <<4, 4>>, <<9, 8>>, <<3, 16>>}
=============================================================================
