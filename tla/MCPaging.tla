------------------------------ MODULE MCPaging ------------------------------
(***************************************************************************)
(* The memory maps and the loader for TLC, on both architectures.  A page  *)
(* is two bytes and a table has two entries.                               *)
(***************************************************************************)
EXTENDS ElfLoader

\* i386: the kernel region is pages 4 to 7, below the second entry of which
\* there is no table at boot.  Pages 0 and 1 share a page table, page 2 has
\* another one.  There is a device at frame 8 for page 0; the other target is
\* the kernel's first page.
I386 ==
    [LEVELS |-> 2, FANOUT |-> 2, PAGE_SIZE |-> 2, PAGES |-> 8,
     KERNEL_VIRTUAL_START_ADDR |-> 8, KERNEL_MEMORY_REGION_SIZE |-> 8,
     Sections |-> [text |-> <<10, 11>>, rodata |-> <<12, 14>>],
     Pool |-> {2, 3}, Ranges |-> {<<0, 4>>, <<2, 3>>, <<4, 6>>},
     Targets |-> {<<8, 0>>, <<0, 8>>}, ReadonlyRanges |-> {<<0, 2>>, <<14, 16>>},
     Touched |-> {0, 5}]

\* x86_64: the kernel region is pages 8 to 11 of 16.  The first two pages, which
\* the boot code has mapped, share a page table.
X86 ==
    [LEVELS |-> 4, FANOUT |-> 2, PAGE_SIZE |-> 2, PAGES |-> 16,
     KERNEL_VIRTUAL_START_ADDR |-> 16, KERNEL_MEMORY_REGION_SIZE |-> 8,
     Sections |-> [text |-> <<18, 19>>, rodata |-> <<20, 22>>],
     Pool |-> {2, 3}, Ranges |-> {<<0, 4>>, <<2, 3>>},
     Targets |-> {<<0, 16>>}, ReadonlyRanges |-> {<<22, 24>>},
     Touched |-> {0, 1, 9}]

BothMachines == [i386 |-> I386, x86_64 |-> X86]

\* A page that is mapped to one of two devices, and nothing else.
StaleMachine ==
    [x86_64 |-> [X86 EXCEPT !.Targets = {<<14, 0>>, <<15, 0>>}, !.ReadonlyRanges = {}, !.Touched = {0}]]

NoImages == [x86_64 |-> {}]

Segment(loaded, offset, vaddr, filesz, memsz, writable) ==
    [PT_LOAD |-> loaded, p_offset |-> offset, p_vaddr |-> vaddr, p_filesz |-> filesz,
     p_memsz |-> memsz, PF_W |-> writable]

\* Code and data, each of them in a page of its own, and the data one larger
\* than its file; a segment over two pages; a note only.
SomeImages ==
    {<<Segment(TRUE, 1, 0, 2, 2, FALSE), Segment(FALSE, 0, 0, 1, 1, FALSE), Segment(TRUE, 3, 2, 1, 2, TRUE)>>,
     <<Segment(TRUE, 2, 0, 2, 3, FALSE)>>,
     <<Segment(FALSE, 0, 0, 1, 1, TRUE)>>}

MCImages == [i386 |-> {<<Segment(TRUE, 2, 0, 2, 3, FALSE)>>}, x86_64 |-> SomeImages]


=============================================================================
