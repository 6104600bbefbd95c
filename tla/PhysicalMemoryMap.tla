------------------------- MODULE PhysicalMemoryMap -------------------------
(***************************************************************************)
(* The hardware paging structures, from the tables the boot code leaves to *)
(* the memory maps that change them: KernelAddressSpaceBootstrapper, the   *)
(* unmanaged map of the kernel region, the managed map of the rest with    *)
(* its page map controllers, and ConcretePhysicalMemoryMap, which chooses  *)
(* between the two.  ARCH is "i386" (LEVELS = 2) or "x86_64" (LEVELS = 4). *)
(*                                                                         *)
(* A virtual page is its number, and so is a page frame.  An entry at      *)
(* level l is <<l, i>>: the page number without the lower l - 1 indices,   *)
(* so that <<1, p>> is the page table entry of page p.  No two entries     *)
(* share a table, so a table is the entry that refers to it.               *)
(*                                                                         *)
(* An operation holds an InterruptLock from its first step to its last and *)
(* no other thread runs.  Its loop is one step per page all the same: the  *)
(* TLB may be filled at any time, and only an invalidation empties it.     *)
(***************************************************************************)
EXTENDS Integers, FiniteSets

CONSTANT Machine   \* Machine[a]: the constants of a kernel for architecture a

VARIABLES ARCH,     \* the architecture the kernel is built for
          hw,       \* hw[e]: the hardware entry e
          tlb,      \* tlb[p]: the translation of page p the TLB holds
          pml,      \* the entries that have a controller for their table
          frame,    \* frame[p]: page_frame_ of the controller of <<1, p>>
          free,     \* the frames the page frame allocator has left
          stage,    \* how far Kernel::Kernel() has got
          op,       \* the operation under way
          failed,   \* an assertion failed or a null pointer was followed
          granted   \* history: the last caller's wish to write to a page

vars == <<ARCH, hw, tlb, pml, frame, free, stage, op, failed, granted>>

LEVELS == Machine[ARCH].LEVELS
FANOUT == Machine[ARCH].FANOUT
PAGE_SIZE == Machine[ARCH].PAGE_SIZE
PAGES == Machine[ARCH].PAGES                    \* the number of virtual pages
KERNEL_VIRTUAL_START_ADDR == Machine[ARCH].KERNEL_VIRTUAL_START_ADDR
KERNEL_MEMORY_REGION_SIZE == Machine[ARCH].KERNEL_MEMORY_REGION_SIZE
Sections == Machine[ARCH].Sections              \* .text and .rodata, as <<begin, end>>
Pool == Machine[ARCH].Pool                      \* the frames of the page frame allocator
Ranges == Machine[ARCH].Ranges                  \* <<begin, end>> given to map_pages()
Targets == Machine[ARCH].Targets                \* <<physical_address, linear_address>>, to map_page()
ReadonlyRanges == Machine[ARCH].ReadonlyRanges  \* <<begin, end>> given to set_readonly()
Touched == Machine[ARCH].Touched                \* the pages whose translation the TLB may hold

ASSUME PagingAssumption ==
    \A a \in DOMAIN Machine :
        LET m == Machine[a] IN
        /\ a \in {"i386", "x86_64"}
        /\ m.LEVELS = (IF a = "i386" THEN 2 ELSE 4) /\ m.FANOUT \in Nat \ {0, 1} /\ m.PAGE_SIZE \in Nat \ {0}
        /\ m.PAGES \in Nat /\ m.KERNEL_VIRTUAL_START_ADDR \in Nat /\ m.KERNEL_MEMORY_REGION_SIZE \in Nat
        /\ m.KERNEL_VIRTUAL_START_ADDR % (m.PAGE_SIZE * m.FANOUT) = 0
        /\ m.KERNEL_MEMORY_REGION_SIZE % (m.PAGE_SIZE * m.FANOUT) = 0
        /\ m.KERNEL_VIRTUAL_START_ADDR + m.KERNEL_MEMORY_REGION_SIZE <= m.PAGES * m.PAGE_SIZE
        /\ m.Pool \subseteq Nat \ {0}

Pages == 0 .. PAGES - 1
PageOf(address) == address \div PAGE_SIZE
KernelPage == PageOf(KERNEL_VIRTUAL_START_ADDR)
RegionPages ==
    KernelPage .. PageOf(KERNEL_VIRTUAL_START_ADDR + KERNEL_MEMORY_REGION_SIZE) - 1

-----------------------------------------------------------------------------
(***************************************************************************)
(* Entries and the walk of them.                                           *)
(***************************************************************************)
\* get_index_of_pml*_entry_by_address(), of all the levels down to l.
Index(l, p) ==
    CASE l = 1 -> p
      [] l = 2 -> p \div FANOUT
      [] l = 3 -> (p \div FANOUT) \div FANOUT
      [] OTHER -> ((p \div FANOUT) \div FANOUT) \div FANOUT

Entry(l, p) == <<l, Index(l, p)>>

Path(p) == {Entry(l, p) : l \in 1 .. LEVELS}

Upper(p) == {Entry(l, p) : l \in 2 .. LEVELS}

Entries == UNION {Path(p) : p \in Pages}

\* The entries of the tables below entry e.
Below(e) == {x \in UNION {Path(p) : p \in {q \in Pages : e \in Path(q)}} : x[1] < e[1]}

\* An address is a frame; of a table it matters only that it is not 0.
TABLE == 1

Absent == [addr |-> 0, present |-> FALSE, writable |-> FALSE]

\* What the processor finds: a write needs the permission of every level.
Walk(p) ==
    IF \A e \in Path(p) : hw[e].present
    THEN [addr |-> hw[Entry(1, p)].addr, present |-> TRUE,
          writable |-> \A e \in Path(p) : hw[e].writable]
    ELSE Absent

\* PagingResolver::get_page_table_entry() finds one.
Resolves(p) == \A e \in Upper(p) : hw[e].addr # 0

-----------------------------------------------------------------------------
(***************************************************************************)
(* What the boot code leaves: one page table that maps the first frames    *)
(* into the kernel region.  On x86_64 another one maps them where they     *)
(* are; on i386 that mapping is taken away again.                          *)
(***************************************************************************)
BootPages == {KernelPage} \cup (IF ARCH = "x86_64" THEN {0} ELSE {})

BootEntry(e) ==
    IF e[1] > 1
    THEN IF \E p \in BootPages : e \in Upper(p)
         THEN [addr |-> TABLE, present |-> TRUE, writable |-> TRUE] ELSE Absent
    ELSE IF \E p \in BootPages : Entry(2, e[2]) = Entry(2, p)
         THEN [addr |-> e[2] % FANOUT, present |-> TRUE, writable |-> TRUE] ELSE Absent

NoFrame == [addr |-> 0, allocator |-> FALSE]

Idle == [kind |-> "idle"]

Init ==
    /\ ARCH \in DOMAIN Machine
    /\ hw = [e \in Entries |-> BootEntry(e)]
    /\ tlb = [p \in Pages |-> Absent]
    /\ pml = {}
    /\ frame = [p \in Pages |-> NoFrame]
    /\ free = Pool
    /\ stage = "bootstrap"
    /\ op = Idle
    /\ failed = FALSE
    /\ granted = [p \in Pages |-> BootEntry(Entry(1, p)).writable]

-----------------------------------------------------------------------------
(***************************************************************************)
(* KernelAddressSpaceBootstrapper::prepare_address_space().                *)
(***************************************************************************)
NUMBER_OF_PAGE_TABLES == KERNEL_MEMORY_REGION_SIZE \div (PAGE_SIZE * FANOUT)

\* The entries that get one of its tables.
Unprepared == {e \in {Entry(2, p) : p \in RegionPages} : hw[e].addr = 0}

\* On x86_64 the tables above the page directory have to be there.
get_page_directory(p) == \A l \in 3 .. LEVELS : hw[Entry(l, p)].addr # 0

\* Writing cr3 empties the TLB.
reload == [p \in Pages |-> Absent]

prepare_address_space ==
    /\ stage = "bootstrap" /\ ~failed
    /\ IF /\ Cardinality(Unprepared) <= NUMBER_OF_PAGE_TABLES
          /\ \A p \in RegionPages : get_page_directory(p)
       THEN /\ hw' = [e \in Entries |->
                        IF e \in Unprepared
                        THEN [addr |-> TABLE, present |-> TRUE, writable |-> TRUE]
                        ELSE IF \E u \in Unprepared : e \in Below(u) THEN Absent
                        ELSE hw[e]]
            /\ tlb' = reload
            /\ stage' = "map"
            /\ UNCHANGED failed
       ELSE failed' = TRUE /\ UNCHANGED <<hw, tlb, stage>>
    /\ UNCHANGED <<pml, frame, free, op, granted>>

-----------------------------------------------------------------------------
(***************************************************************************)
(* ConcretePhysicalMemoryMap: the start of an operation.                   *)
(***************************************************************************)
\* A faulty one.
Chosen_MutantBoundary(end) == IF end <= KERNEL_VIRTUAL_START_ADDR THEN "managed" ELSE "unmanaged"

\* The map a range or an address is given to.
Chosen(end) == IF end < KERNEL_VIRTUAL_START_ADDR THEN "managed" ELSE "unmanaged"

Start(o) ==
    /\ op' = o
    /\ UNCHANGED <<hw, tlb, pml, frame, free, failed, granted>>

\* assert_is_page_aligned(begin) and assert(begin < end) hold of the ranges.
map_pages(begin, end, writable) ==
    /\ begin % PAGE_SIZE = 0 /\ begin < end
    /\ Start([kind |-> "map_pages", by |-> Chosen(end), begin |-> begin, at |-> begin,
              end |-> end, writable |-> writable, physical |-> 0])

map_page(physical, linear, writable) ==
    Start([kind |-> "map_page", by |-> Chosen(linear), begin |-> linear, at |-> linear,
           end |-> linear + 1, writable |-> writable, physical |-> physical])

set_readonly(begin, end) ==
    /\ begin < end
    /\ Start([kind |-> "set_readonly", by |-> Chosen(end), begin |-> begin, at |-> begin,
              end |-> end, writable |-> FALSE, physical |-> 0])

\* Kernel::prepare_kernel_address_space(), after the bootstrapper.
MapKernelRegion ==
    /\ stage = "map" /\ op = Idle
    /\ map_pages(KERNEL_VIRTUAL_START_ADDR,
                 KERNEL_VIRTUAL_START_ADDR + KERNEL_MEMORY_REGION_SIZE, TRUE)
    /\ stage' = "text"

ProtectText ==
    /\ stage = "text" /\ op = Idle
    /\ set_readonly(Sections.text[1], Sections.text[2])
    /\ stage' = "rodata"

ProtectRodata ==
    /\ stage = "rodata" /\ op = Idle
    /\ set_readonly(Sections.rodata[1], Sections.rodata[2])
    /\ stage' = "heap"

\* A new page map controller: each entry knows its hardware entry, the lock and
\* the MMU, but no controller of a table below.
feed == {}

\* The managed map takes over the tables that are there.
heap_is_ready ==
    /\ stage = "heap" /\ op = Idle
    /\ stage' = "running"
    /\ pml' = feed
    /\ UNCHANGED <<hw, tlb, frame, free, op, failed, granted>>

\* What callers make read-only they have mapped.
Call ==
    /\ stage = "running" /\ op = Idle
    /\ \/ \E r \in Ranges, w \in BOOLEAN : map_pages(r[1], r[2], w)
       \/ \E t \in Targets, w \in BOOLEAN : map_page(t[1], t[2], w)
       \/ \E r \in ReadonlyRanges :
            /\ \A p \in PageOf(r[1]) .. PageOf(r[2] - 1) : Walk(p).present
            /\ set_readonly(r[1], r[2])
    /\ UNCHANGED stage

-----------------------------------------------------------------------------
(***************************************************************************)
(* One page of an operation.                                               *)
(***************************************************************************)
\* The next page, or the invalidation that ends the operation.
Advance == op' = [op EXCEPT !.at = @ + PAGE_SIZE]

Fail ==
    /\ failed' = TRUE
    /\ UNCHANGED <<hw, tlb, pml, frame, free, stage, op, granted>>

Invalidated(first, last) == [p \in Pages |-> IF p \in first .. last THEN Absent ELSE tlb[p]]

\* UnmanagedPhysicalMemoryMap::map_page(): map_pages() calls it for each page,
\* with the physical address the kernel's logical addresses imply.
UnmanagedMap(p, physical, writable) ==
    /\ hw' = [hw EXCEPT ![Entry(1, p)] =
                [addr |-> physical, present |-> physical # 0, writable |-> writable]]
    /\ tlb' = Invalidated(p, p)
    /\ granted' = [granted EXCEPT ![p] = writable]
    /\ UNCHANGED <<pml, frame, free>>

UnmanagedReadonly(p) ==
    /\ hw' = [hw EXCEPT ![Entry(1, p)].writable = FALSE]
    /\ UNCHANGED <<tlb, pml, frame, free, granted>>

\* convert_logical_to_physical_address() asserts that the address is one of
\* the kernel's, and the caller of the resolver that it finds an entry.
UnmanagedStep ==
    LET p == PageOf(op.at)
        logical == op.kind # "map_pages" \/ op.at >= KERNEL_VIRTUAL_START_ADDR
    IN  /\ op.by = "unmanaged"
        /\ IF ~logical \/ ~Resolves(p) THEN Fail
           ELSE /\ CASE op.kind = "map_pages" -> UnmanagedMap(p, p - KernelPage, op.writable)
                     [] op.kind = "map_page" -> UnmanagedMap(p, op.physical, op.writable)
                     [] op.kind = "set_readonly" -> UnmanagedReadonly(p)
                /\ Advance
                /\ UNCHANGED <<stage, failed>>

\* set_pml*_unlocked() of an entry, with the controller of a table.
set_pml_unlocked(entry) == [entry EXCEPT !.addr = TABLE, !.present = TRUE]

\* create_pml*(): an entry of the table that comes with a new controller.
create_pml == Absent

set_protection(entry, writable) == [entry EXCEPT !.writable = writable]

\* populate(): a table comes with those below it on the way to the page.  An
\* entry that has a controller is left alone, and so is all below it.
Created(p) == IF Entry(LEVELS, p) \in pml THEN {} ELSE Upper(p)

Populated(p) ==
    LET top == Entry(LEVELS, p) IN
    [e \in Entries |->
        IF Created(p) = {} \/ e \notin Below(top) \cup {top} THEN hw[e]
        ELSE IF e = top THEN set_pml_unlocked(hw[e])
        ELSE IF e \in Upper(p) THEN set_pml_unlocked(create_pml)
        ELSE create_pml]

\* Every pml*_ pointer on the way to the page table entry is set.
Controlled(p) == Upper(p) \subseteq pml \cup Created(p)

\* set_protection() of the entries of page p, those that are present.
Protected(h, p, writable) ==
    [e \in Entries |->
        IF e \in Path(p) /\ h[e].present THEN set_protection(h[e], writable) ELSE h[e]]

\* The frame that a PageFrameController gives back.
Owned(controller) == IF controller.allocator THEN {controller.addr} ELSE {}

\* A faulty one: the old controller is not destroyed.
SetMapping_MutantLeak(h, p, controller, writable) ==
    /\ hw' = [h EXCEPT ![Entry(1, p)] =
                [addr |-> controller.addr, present |-> TRUE, writable |-> writable]]
    /\ frame' = [frame EXCEPT ![p] = controller]
    /\ free' = free \ Owned(controller)

\* set_mapping(): the entry gets a new PageFrameController and the old one is
\* destroyed; set_protection() makes it present, even if the frame is 0.
SetMapping(h, p, controller, writable) ==
    /\ hw' = [h EXCEPT ![Entry(1, p)] =
                [addr |-> controller.addr, present |-> TRUE, writable |-> writable]]
    /\ frame' = [frame EXCEPT ![p] = controller]
    /\ free' = (free \ Owned(controller)) \cup Owned(frame[p])

\* What allocate(PAGE_SIZE) gives: the first free frame, never frame 0, or 0
\* when there is none.
Allocated ==
    IF free \ {0} = {} THEN {0}
    ELSE {f \in free \ {0} : \A g \in free \ {0} : f <= g}

\* map_pages() allocates for a hole, map_page() maps what it is given: on
\* i386 in any case, on x86_64 if nothing is mapped there.
ManagedMap(p) ==
    LET h == Protected(Populated(p), p, op.writable)
        hole == ~h[Entry(1, p)].present
    IN  /\ IF op.kind = "map_pages" /\ hole
           THEN \E f \in Allocated : SetMapping(h, p, [addr |-> f, allocator |-> TRUE], op.writable)
           ELSE IF op.kind = "map_page" /\ (hole \/ ARCH = "i386")
           THEN SetMapping(h, p, [addr |-> op.physical, allocator |-> FALSE], op.writable)
           ELSE hw' = h /\ UNCHANGED <<frame, free>>
        /\ pml' = pml \cup Created(p)
        /\ granted' = [granted EXCEPT ![p] = op.writable]

\* set_readonly(): the page table entry on i386, on x86_64 all that are present.
ManagedReadonly(p) ==
    /\ hw' = IF ARCH = "i386" THEN [hw EXCEPT ![Entry(1, p)].writable = FALSE]
                              ELSE Protected(hw, p, FALSE)
    /\ UNCHANGED <<pml, frame, free, granted>>

\* A null pml*_ is followed if there is no controller on the way to the entry.
ManagedStep ==
    LET p == PageOf(op.at)
        controlled == IF op.kind = "set_readonly" THEN Upper(p) \subseteq pml ELSE Controlled(p)
    IN  /\ op.by = "managed"
        /\ IF ~controlled THEN Fail
           ELSE /\ IF op.kind = "set_readonly" THEN ManagedReadonly(p) ELSE ManagedMap(p)
                /\ Advance
                /\ UNCHANGED <<tlb, stage, failed>>

Step == ~failed /\ op # Idle /\ op.at < op.end /\ (UnmanagedStep \/ ManagedStep)

\* A faulty one: map_page() of i386 leaves the TLB alone.
Invalidates_MutantMapPage ==
    op.kind = "set_readonly" \/ (op.by = "managed" /\ op.kind = "map_pages")

\* An operation ends with invalidate_pages(begin, end), or invalidate_page(),
\* except that the unmanaged map_pages() and map_page() are done with it by
\* now and that map_page() of x86_64 has none.
Invalidates ==
    \/ op.kind = "set_readonly"
    \/ op.by = "managed" /\ (op.kind = "map_pages" \/ ARCH = "i386")

Finish ==
    /\ op # Idle /\ op.at >= op.end
    /\ tlb' = IF Invalidates THEN Invalidated(PageOf(op.begin), PageOf(op.at) - 1) ELSE tlb
    /\ granted' = IF op.kind = "set_readonly"
                  THEN [p \in Pages |-> granted[p] /\ p \notin PageOf(op.begin) .. PageOf(op.end - 1)]
                  ELSE granted
    /\ op' = Idle
    /\ UNCHANGED <<hw, pml, frame, free, stage, failed>>

\* The processor may load the translation of a page at any time.
Touch ==
    /\ ~failed
    /\ \E p \in Touched :
         /\ ~tlb[p].present /\ Walk(p).present
         /\ tlb' = [tlb EXCEPT ![p] = Walk(p)]
    /\ UNCHANGED <<hw, pml, frame, free, stage, op, failed, granted>>

Boot == prepare_address_space \/ MapKernelRegion \/ ProtectText \/ ProtectRodata \/ heap_is_ready

\* After a failure there is no step: the kernel stops.
Next == (Boot \/ Call \/ Step \/ Finish \/ Touch) /\ UNCHANGED ARCH

Spec == Init /\ [][Next]_vars

-----------------------------------------------------------------------------
HardwareEntry == [addr : Nat, present : BOOLEAN, writable : BOOLEAN]

TypeOK ==
    /\ hw \in [Entries -> HardwareEntry]
    /\ tlb \in [Pages -> HardwareEntry]
    /\ pml \subseteq {e \in Entries : e[1] > 1}
    /\ frame \in [Pages -> [addr : Nat, allocator : BOOLEAN]]
    /\ free \subseteq Pool \cup {0}
    /\ stage \in {"bootstrap", "map", "text", "rodata", "heap", "running"}
    /\ op.kind \in {"idle", "map_pages", "map_page", "set_readonly"}
    /\ failed \in BOOLEAN
    /\ granted \in [Pages -> BOOLEAN]

\* No assertion of the maps fails and no null pml*_ is followed: the
\* bootstrapper has tables enough, the unmanaged map always finds an entry in
\* the kernel region, and populate() comes before a use of the controllers.
NoFailure == ~failed

\* "This controls the contents of one underlying Page Table Entry and also owns
\* the page frame which is referenced therein."  A frame of the allocator is
\* free or belongs to one page, and the hardware maps that page to it.
FramesAccounted ==
    /\ \A f \in Pool :
         /\ f \in free <=> \A p \in Pages : f \notin Owned(frame[p])
         /\ \A p, q \in Pages : f \in Owned(frame[p]) \cap Owned(frame[q]) => p = q
    /\ \A p \in Pages :
         Upper(p) \subseteq pml => hw[Entry(1, p)].addr = frame[p].addr

\* Between operations the TLB has no page at another frame than the tables do,
\* so that a frame which was given back is out of reach.  A page that the tables
\* do not map may be left over from the mapping of the boot code of x86_64.
CachedAddress ==
    op = Idle => \A p \in Pages :
        tlb[p].present /\ Walk(p).present => tlb[p].addr = Walk(p).addr

\* A frame of the allocator is free or mapped by one page, and a page that the
\* TLB holds is at the frame where the tables have it.
FramesMappedOnce == FramesAccounted /\ CachedAddress

\* Between operations nothing can be written to, by the tables or by what the
\* TLB still holds, that the last operation on the page made read-only.
NoUngrantedWrites ==
    op = Idle => \A p \in Pages : Walk(p).writable \/ tlb[p].writable => granted[p]

\* The kernel region keeps its mapping to low memory whatever is mapped for
\* the user, its first page, which would be at frame 0, apart.
KernelKept ==
    stage \in {"rodata", "heap", "running"} =>
        \A p \in RegionPages \ {KernelPage} : Walk(p).present /\ Walk(p).addr = p - KernelPage

=============================================================================
