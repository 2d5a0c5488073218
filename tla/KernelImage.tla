---------------------------- MODULE KernelImage ----------------------------
(***************************************************************************)
(* How the boot loader puts kernel.elf into memory (bootloader/src/elf.rs  *)
(* and load_kernel of bootloader/src/main.rs). Memory is a function from   *)
(* addresses to bytes, and the file a sequence of bytes.                   *)
(***************************************************************************)
EXTENDS Integers, Sequences, FiniteSets, FiniteSetsExt

CONSTANTS
  PAGE,      \* 0x1000
  u64_MAX    \* beyond every address

PT_LOAD == 1
Zero == "zero"

\* p_type is declared with 16 bits, so that the upper half of the word in the file is padding.
is_load(phdr) == phdr.p_type % 65536 = PT_LOAD
loads(elf) == SelectSeq(elf.prog_headers, is_load)

inmem_range(phdr) == <<phdr.p_vaddr, phdr.p_vaddr + phdr.p_memsz>>
infile_range(phdr) == <<phdr.p_offset, phdr.p_offset + phdr.p_filesz>>

\* Wrong: what is not in the file is not counted.
calc_load_address_range_file(elf) ==
  LET sections == {loads(elf)[i] : i \in DOMAIN loads(elf)}
  IN  <<Min({u64_MAX} \union {h.p_vaddr : h \in sections}),
        Max({0} \union {h.p_vaddr + h.p_filesz : h \in sections})>>

calc_load_address_range(elf) ==
  LET ranges == {inmem_range(loads(elf)[i]) : i \in DOMAIN loads(elf)}
  IN  <<Min({u64_MAX} \union {r[1] : r \in ranges}), Max({0} \union {r[2] : r \in ranges})>>

\* The pages that load_kernel asks the firmware for.
kernel_pages(elf) ==
  LET range == calc_load_address_range(elf)
      first == range[1] \div PAGE
  IN  first .. first + (range[2] - range[1] + PAGE - 1) \div PAGE - 1

\* The slices of load_kernel are in bounds, and the assertion of copy_slice_pad holds.
loadable(elf, phdr) ==
  infile_range(phdr)[2] <= Len(elf.bytes) /\ phdr.p_filesz <= phdr.p_memsz

\* Wrong: the rest of the section keeps what was in memory.
copy_slice(mem, elf, phdr) ==
  [a \in DOMAIN mem |-> IF a \in phdr.p_vaddr .. phdr.p_vaddr + phdr.p_filesz - 1
                        THEN elf.bytes[phdr.p_offset + a - phdr.p_vaddr + 1] ELSE mem[a]]

copy_slice_pad(mem, elf, phdr) ==
  LET range == inmem_range(phdr)
      from == SubSeq(elf.bytes, infile_range(phdr)[1] + 1, infile_range(phdr)[2])
  IN  [a \in DOMAIN mem |-> CASE a \notin range[1] .. range[2] - 1 -> mem[a]
                              [] a - range[1] < Len(from) -> from[a - range[1] + 1]
                              [] OTHER -> Zero]
=============================================================================
