----------------------------- MODULE CpuTables -----------------------------
(***************************************************************************)
(* The tables that the CPU reads: segment descriptors                      *)
(* (kernel/src/segment.rs), interrupt descriptors (kernel/src/interrupt.rs)*)
(* and page tables (kernel/src/paging.rs). A descriptor is a record of its *)
(* bit fields, and a table entry one of its address and its flags.         *)
(***************************************************************************)
EXTENDS Integers, Sequences

CONSTANTS
  PAGESIZE_4K,
  Entries,    \* 512, entries of a page table
  PageDirs,   \* 64, page directories
  Half        \* 2^16, values of the lower fields of a handler's address

KERNEL_CS == 8
KERNEL_SS == 16

-----------------------------------------------------------------------------
(* Segments.                                                                *)
set_base(base) ==
  [base_low |-> base % 65536, base_middle |-> (base \div 65536) % 256, base_high |-> (base \div 16777216) % 256]

\* limit as u16 & 0xfff: four bits of the limit are not stored.
set_limit(limit) == [limit_low |-> limit % 4096, limit_high |-> (limit \div 65536) % 16]

set_code_segment(type_) ==
  [base |-> set_base(0), limit |-> set_limit(1048575), type_ |-> type_, system_segment |-> TRUE, dpl |-> 0,
   present |-> TRUE, long_mode |-> TRUE, default_operation_size |-> FALSE, granularity |-> TRUE]
set_data_segment(type_) ==
  [set_code_segment(type_) EXCEPT !.long_mode = FALSE, !.default_operation_size = TRUE]

null_segment ==
  [base |-> set_base(0), limit |-> set_limit(0), type_ |-> "none", system_segment |-> FALSE, dpl |-> 0,
   present |-> FALSE, long_mode |-> FALSE, default_operation_size |-> FALSE, granularity |-> FALSE]
GLOBAL_DESCRIPTOR_TABLE == <<null_segment, set_code_segment("ExecuteRead"), set_data_segment("ReadWrite")>>

\* The CPU's view of a selector of eight bytes an entry, given the limit that lgdt has loaded.
Segment(gdtr, selector) ==
  IF selector + 7 <= gdtr.limit THEN gdtr.table[selector \div 8 + 1] ELSE null_segment
IsCode64(segment) == segment.present /\ segment.type_ = "ExecuteRead" /\ segment.long_mode

load_gdt == [limit |-> 8 * Len(GLOBAL_DESCRIPTOR_TABLE) - 1, table |-> GLOBAL_DESCRIPTOR_TABLE]

\* The far return loads cs.
set_ds_es_fs_gs(cpu, value) == [cpu EXCEPT !.ds = value, !.es = value, !.fs = value, !.gs = value]
set_cs_ss(cpu, cs, ss) == [cpu EXCEPT !.ss = ss, !.cs = cs]

\* What a data segment register may hold, so that an instruction can load it again.
Loadable(gdtr, selector) == selector \div 8 = 0 \/ Segment(gdtr, selector).present

-----------------------------------------------------------------------------
(* Interrupts.                                                              *)
XHCI == 64
LapicTimer == 65

new_attribute(dpl, type_) == [present |-> TRUE, dpl |-> dpl, type_ |-> type_]
new_gate(segment_selector, attr, offset) ==
  [segment_selector |-> segment_selector, attr |-> attr,
   offset_low |-> offset % Half,
   offset_middle |-> (offset \div Half) % Half,
   offset_high |-> offset \div (Half * Half)]

zero_gate ==
  [segment_selector |-> 0, attr |-> [present |-> FALSE, dpl |-> 0, type_ |-> "Upper8Bytes"],
   offset_low |-> 0, offset_middle |-> 0, offset_high |-> 0]

\* The table has 256 entries of 16 bytes. The CPU takes a vector whose entry is within the limit.
_load_idt == [limit |-> 16 * 256 - 1]
InTable(idtr, v) == 16 * v + 15 <= idtr.limit

\* Where the CPU goes.
Target(gate) == gate.offset_low + Half * (gate.offset_middle + Half * gate.offset_high)

-----------------------------------------------------------------------------
(* Paging. A page directory maps pages of PAGESIZE_2M.                      *)
PAGESIZE_2M == Entries * PAGESIZE_4K
PAGESIZE_1G == Entries * PAGESIZE_2M
Mapped == PageDirs * PAGESIZE_1G

Absent == [present |-> FALSE]
setup_identity_page_table ==
  [i_pml4 \in 0 .. Entries - 1 |->
     IF i_pml4 # 0 THEN Absent
     ELSE [present |-> TRUE,
           table |-> [i_pdpt \in 0 .. Entries - 1 |->
             IF i_pdpt >= PageDirs THEN Absent
             ELSE [present |-> TRUE,
                   table |-> [i_pd \in 0 .. Entries - 1 |->
                     [present |-> TRUE, page |-> i_pdpt * PAGESIZE_1G + i_pd * PAGESIZE_2M]]]]]]

\* The CPU's walk through the tables, and NoPage where an entry is not present.
NoPage == -1
Walk(pml4, addr) ==
  LET e4 == pml4[(addr \div (Entries * PAGESIZE_1G)) % Entries]
      e3 == e4.table[(addr \div PAGESIZE_1G) % Entries]
      e2 == e3.table[(addr \div PAGESIZE_2M) % Entries]
  IN  IF e4.present /\ e3.present THEN e2.page + (addr % PAGESIZE_2M) ELSE NoPage
=============================================================================
