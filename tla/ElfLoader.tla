----------------------------- MODULE ElfLoader ------------------------------
(***************************************************************************)
(* ElfLoader::exec(): the segments of an image are mapped, filled through  *)
(* the mapping and mapped again with the protection they ask for, and the  *)
(* program is entered.  Kernel::do_exec_test() holds an InterruptLock all  *)
(* the while, so the only thing that happens beside it is that the         *)
(* processor loads translations into the TLB.                              *)
(*                                                                         *)
(* The byte at offset i of the image is i + 1, so that no byte of it is 0. *)
(***************************************************************************)
EXTENDS PhysicalMemoryMap, Sequences

CONSTANT Images   \* Images[a]: sequences of program headers, to choose from

VARIABLES contents, \* contents[f]: the bytes of frame f
          loader    \* the image that is loaded, and how far it has got

loaderVars == <<contents, loader>>

Frames == 0 .. PAGES - 1 \cup Pool \cup {t[1] : t \in Targets}

Junk == -1

NoImage == [phase |-> "none"]

LoaderInit ==
    /\ Init
    /\ contents = [f \in Frames |-> [i \in 0 .. PAGE_SIZE - 1 |-> Junk]]
    /\ loader = NoImage

-----------------------------------------------------------------------------
\* What an access to page p uses: the TLB, or else the tables.
Translation(p) == IF tlb[p].present THEN tlb[p] ELSE Walk(p)

\* memset() and memcpy() of some bytes, numbered from 0, to an address of memory m.
Write(m, address, bytes) ==
    [f \in Frames |-> [i \in 0 .. PAGE_SIZE - 1 |->
        LET here == {k \in DOMAIN bytes : /\ (address + k) % PAGE_SIZE = i
                                          /\ Translation(PageOf(address + k)).addr = f}
        IN  IF here = {} THEN m[f][i] ELSE bytes[CHOOSE k \in here : \A j \in here : j <= k]]]

memset(m, header) == Write(m, header.p_vaddr, [k \in 0 .. header.p_memsz - 1 |-> 0])

memcpy(m, header) ==
    Write(m, header.p_vaddr, [k \in 0 .. header.p_filesz - 1 |-> header.p_offset + k + 1])

-----------------------------------------------------------------------------
\* ElfLoaderFactory::create_loader() has found a loader; load() begins.
StartExec ==
    /\ stage = "running" /\ op = Idle /\ ~failed
    /\ loader = NoImage
    /\ \E image \in Images[ARCH] : loader' = [phase |-> "header", image |-> image, at |-> 1]
    /\ UNCHANGED <<vars, contents>>

Header == loader.image[loader.at]

Phase(from) == loader.phase = from /\ op = Idle /\ ~failed

\* process_program_header(): one that is not PT_LOAD is passed over.
SkipHeader ==
    /\ Phase("header") /\ loader.at <= Len(loader.image) /\ ~Header.PT_LOAD
    /\ loader' = [loader EXCEPT !.at = @ + 1]
    /\ UNCHANGED <<vars, contents>>

\* get_protection_flags()
get_protection_flags(header) == header.PF_W

\* The first map_pages() of action_load().
MapWritable ==
    /\ Phase("header") /\ loader.at <= Len(loader.image) /\ Header.PT_LOAD
    /\ map_pages(Header.p_vaddr, Header.p_vaddr + Header.p_memsz, TRUE)
    /\ loader' = [loader EXCEPT !.phase = "populate"]
    /\ UNCHANGED <<ARCH, stage, contents>>


\* The segment may be larger than what the file has of it.
PopulatedSegment(header) == memcpy(memset(contents, header), header)

\* A page that is not there is a page fault, on which the kernel panics.
Populate ==
    /\ Phase("populate")
    /\ IF \A k \in 0 .. Header.p_memsz - 1 : Translation(PageOf(Header.p_vaddr + k)).present
       THEN /\ contents' = PopulatedSegment(Header)
            /\ loader' = [loader EXCEPT !.phase = "protect"]
            /\ UNCHANGED vars
       ELSE Fail /\ UNCHANGED <<ARCH, contents, loader>>

MapProtected ==
    /\ Phase("protect")
    /\ map_pages(Header.p_vaddr, Header.p_vaddr + Header.p_memsz, get_protection_flags(Header))
    /\ loader' = [loader EXCEPT !.phase = "header", !.at = @ + 1]
    /\ UNCHANGED <<ARCH, stage, contents>>

\* The call of the start address.
Enter ==
    /\ Phase("header") /\ loader.at > Len(loader.image)
    /\ loader' = [loader EXCEPT !.phase = "entered"]
    /\ UNCHANGED <<vars, contents>>

\* The program returns, and there may be another one to run.
Return ==
    /\ Phase("entered")
    /\ loader' = NoImage
    /\ UNCHANGED <<vars, contents>>

load == SkipHeader \/ MapWritable \/ Populate \/ MapProtected \/ Enter \/ Return

\* The maps go on as they do without a loader; there is no other caller.
LoaderNext ==
    \/ StartExec \/ load
    \/ loader = NoImage /\ Call /\ UNCHANGED <<ARCH, contents, loader>>
    \/ (Boot \/ Step \/ Finish \/ Touch) /\ UNCHANGED <<ARCH, contents, loader>>

LoaderSpec == LoaderInit /\ [][LoaderNext]_<<vars, loaderVars>>

-----------------------------------------------------------------------------
\* "The segment in memory may be larger than the data region in the file. The
\* remainder is cleared to zero."  When the program is entered, the addresses of
\* every PT_LOAD segment have the bytes of the file and zeros behind them,
\* through the tables and through what the TLB holds, and can be written to only
\* if the segment says so.  It takes a frame for every page of the image.
SegmentsInMemory ==
    loader.phase = "entered" =>
        \A n \in DOMAIN loader.image :
            LET header == loader.image[n] IN
            header.PT_LOAD =>
                \A k \in 0 .. header.p_memsz - 1 :
                    LET t == Translation(PageOf(header.p_vaddr + k)) IN
                    /\ t.present
                    /\ t.addr # 0 =>
                         contents[t.addr][(header.p_vaddr + k) % PAGE_SIZE] =
                            (IF k < header.p_filesz THEN header.p_offset + k + 1 ELSE 0)
                    /\ t.writable => header.PF_W

=============================================================================
