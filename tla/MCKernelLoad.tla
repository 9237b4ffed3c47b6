---------------------------- MODULE MCKernelLoad ----------------------------
(* Instances of KernelLoad for TLC.                                        *)
EXTENDS KernelLoad

Seg(vaddr, filesz, memsz, text, data) ==
    [load |-> TRUE, text |-> text, data |-> data,
     vaddr |-> vaddr, filesz |-> filesz, memsz |-> memsz]
NoteSeg == [load |-> FALSE, text |-> FALSE, data |-> FALSE,
            vaddr |-> 12000000, filesz |-> 100, memsz |-> 100]
Sec(type, size) == [type |-> type, size |-> size]
Elf(entry, segments, sections) ==
    [fmt |-> "elf", entry |-> entry, pagesz |-> 8192,
     segments |-> segments, sections |-> sections]
Aout(magic, pagesz, text, data, bss, syms, strs) ==
    [fmt |-> "aout", entry |-> 0, pagesz |-> pagesz, magic |-> magic,
     text |-> text, data |-> data, bss |-> bss, syms |-> syms, strs |-> strs]

\* A kernel as it is linked: one segment, bss, odd-sized names, symbols last.
Generic == Elf(8192, <<Seg(0, 900001, 1200003, TRUE, TRUE), NoteSeg>>,
               <<Sec("OTHER", 70), Sec("SHSTRTAB", 61), Sec("SYMTAB", 64000), Sec("STRTAB", 51003)>>)
\* Text and data apart, and symbols stripped; names without symbols; not at 0.
Stripped == Elf(256, <<Seg(0, 500000, 500000, TRUE, FALSE), Seg(507904, 40000, 90000, FALSE, TRUE)>>,
                <<Sec("SHSTRTAB", 30)>>)
Shifted  == Elf(12288, <<Seg(8192, 300000, 310000, TRUE, TRUE)>>,
                <<Sec("STRTAB", 10), Sec("SYMTAB", 160)>>)
Old      == Aout("NMAGIC", 4096, 700004, 60002, 80000, 24000, 30001)
Paged    == Aout("ZMAGIC", 8192, 704512, 65536, 81920, 0, 8)
Modern   == Aout("QMAGIC", 8192, 700000, 65536, 81920, 12, 21)
Impure   == Aout("OMAGIC", 8192, 700000, 65536, 81920, 12, 21)

AllKernels == {Generic, Stripped, Shifted, Old, Paged, Modern, Impure}
OneKernel  == {Generic}
=============================================================================
