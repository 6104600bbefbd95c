----------------------------- MODULE MallocZone -----------------------------
(***************************************************************************)
(* MallocZone (Common/src/malloc_zone.cpp), the best-fit allocator behind  *)
(* malloc() and new.  Memory is a function from the addresses of block     *)
(* headers to their contents, linked by prev and next pointers as in the   *)
(* code.  Each operation is one action: stdlib.cpp makes them exclusive    *)
(* with an InterruptLock (PreemptiveKernel).                               *)
(***************************************************************************)
EXTENDS Integers, Functions

CONSTANTS Start, ZoneSize,   \* the arguments of create()
          SIZE_MAX,          \* the largest size_t, and the largest address
          ZoneHeader,        \* sizeof(MallocZone)
          BlockHeader,       \* sizeof(MallocBlock)
          Requests,          \* sizes asked of malloc() and realloc()
          AlignedRequests,   \* sizes asked of memalign()
          Alignments         \* alignments asked of memalign()

ASSUME SizesAssumption ==
    /\ {Start, ZoneSize, SIZE_MAX, ZoneHeader, BlockHeader} \subseteq Nat
    /\ Start > 0 /\ BlockHeader > 0
    /\ ZoneSize >= ZoneHeader + BlockHeader
    /\ Start + ZoneSize + 4 <= SIZE_MAX
    /\ Requests \cup AlignedRequests \subseteq 0 .. SIZE_MAX
    /\ Alignments \subseteq 0 .. SIZE_MAX

VARIABLES blocks,   \* the block headers, by address
          live,     \* live[p]: what the caller that holds p asked for
          fault     \* a null pointer has been dereferenced

vars == <<blocks, live, fault>>

-----------------------------------------------------------------------------
NULL == 0
ALIGN == 4
MIN_SPLIT_SIZE == BlockHeader

\* A sum or difference of two size_t or uintptr_t.
Wrap(x) ==
    IF x > SIZE_MAX THEN x - (SIZE_MAX + 1)
    ELSE IF x < 0 THEN x + (SIZE_MAX + 1)
    ELSE x

Block(prev, next, size, inuse, data) ==
    [prev |-> prev, next |-> next, size |-> size, inuse |-> inuse, data |-> data]

\* Function f, with x mapped to v.
With(f, x, v) == [y \in DOMAIN f \cup {x} |-> IF y = x THEN v ELSE f[y]]
Without(f, x) == Restrict(f, DOMAIN f \ {x})

round_up_block_size(size) ==
    LET new_size == (Wrap(size + ALIGN - 1) \div ALIGN) * ALIGN
    IN  IF new_size < size THEN SIZE_MAX - 3 ELSE new_size

\* block->next->prev = p, if there is a next block.
SetPrev(bs, next, p) ==
    IF next = NULL THEN bs ELSE [bs EXCEPT ![next].prev = p]

\* A faulty cut, which leaves the following block's prev behind.
Cut_MutantNoPrev(bs, b, size) ==
    LET n == Wrap(b + BlockHeader + size)
        rest == Wrap(bs[b].size - size) - BlockHeader
    IN  With([bs EXCEPT ![b].size = size, ![b].next = n], n,
             Block(b, bs[b].next, rest, FALSE, "junk"))

\* Block b is cut down to size; a new free block takes the rest of it.
Cut(bs, b, size) ==
    LET n == Wrap(b + BlockHeader + size)
        rest == Wrap(bs[b].size - size) - BlockHeader
        linked == SetPrev([bs EXCEPT ![b].size = size, ![b].next = n], bs[b].next, n)
    IN  With(linked, n, Block(b, bs[b].next, rest, FALSE, "junk"))

\* Block b swallows the block after it.
Absorb(bs, b) ==
    LET f == bs[b].next
        linked == SetPrev([bs EXCEPT ![b].size = @ + bs[f].size + BlockHeader,
                                     ![b].next = bs[f].next], bs[f].next, b)
    IN  Without(linked, f)

NextIsFree(bs, b) == bs[b].next # NULL /\ ~bs[bs[b].next].inuse
PrevIsFree(bs, b) == bs[b].prev # NULL /\ ~bs[bs[b].prev].inuse

consider_splitting_block(bs, b, size) ==
    LET n == Wrap(b + BlockHeader + size)
        cut == Cut(bs, b, size)
    IN  IF Wrap(bs[b].size - size) <= MIN_SPLIT_SIZE THEN bs
        ELSE IF NextIsFree(cut, n) THEN Absorb(cut, n)
        ELSE cut

-----------------------------------------------------------------------------
(***************************************************************************)
(* find_best_fit(): the smallest suitable free block, and of several the   *)
(* first on the list, which is the one with the lowest address; NULL if    *)
(* there is none.                                                          *)
(***************************************************************************)
Payload(b) == b + BlockHeader

\* A faulty search, which does not look whether a block is in use.
Suitable_MutantInUse(bs, size, align) ==
    {b \in DOMAIN bs : bs[b].size >= size /\ Payload(b) % align = 0}

Suitable(bs, size, align) ==
    {b \in DOMAIN bs : ~bs[b].inuse /\ bs[b].size >= size /\ Payload(b) % align = 0}

Better(bs, b, c) == bs[b].size < bs[c].size \/ (bs[b].size = bs[c].size /\ b <= c)

find_best_fit(bs, size, align) ==
    LET suitable == Suitable(bs, size, align)
    IN  IF suitable = {} THEN NULL
        ELSE CHOOSE b \in suitable : \A c \in suitable : Better(bs, b, c)

\* Block b, cut to size, is handed to a caller, who fills it.
HandOut(bs, b, size) ==
    [consider_splitting_block(bs, b, size) EXCEPT ![b].inuse = TRUE, ![b].data = "caller"]

Malloc(n) ==
    LET size == round_up_block_size(n)
        best == find_best_fit(blocks, size, 1)
    IN  /\ best # NULL
        /\ blocks' = HandOut(blocks, best, size)
        /\ live' = With(live, Payload(best), n)
        /\ UNCHANGED fault

\* memalign() when a free block happens to have the alignment.
MemalignExact(n, align) ==
    LET size == round_up_block_size(n)
        best == find_best_fit(blocks, size, align)
    IN  /\ best # NULL
        /\ blocks' = HandOut(blocks, best, size)
        /\ live' = With(live, Payload(best), n)
        /\ UNCHANGED fault

\* memalign() when the free block `best' has to be cut in two, the second
\* part having the alignment.
RequestBlock(best, align) ==
    Payload(best) + align - ((Payload(best) + BlockHeader) % align)

MemalignCut(n, align) ==
    LET size == round_up_block_size(n)
        best == find_best_fit(blocks, Wrap(Wrap(size + MIN_SPLIT_SIZE) + align), 1)
        request == RequestBlock(best, align)
    IN  /\ find_best_fit(blocks, size, align) = NULL
        /\ best # NULL
        /\ blocks' = HandOut(Cut(blocks, best, request - Payload(best)), request, size)
        /\ live' = With(live, Payload(request), n)
        /\ UNCHANGED fault

\* memalign() when there is no block to cut: it goes on with best = nullptr.
MemalignNull(n, align) ==
    LET size == round_up_block_size(n)
    IN  /\ find_best_fit(blocks, size, align) = NULL
        /\ find_best_fit(blocks, Wrap(Wrap(size + MIN_SPLIT_SIZE) + align), 1) = NULL
        /\ fault' = TRUE
        /\ UNCHANGED <<blocks, live>>

Memalign(n, align) ==
    \/ align = 0 /\ Malloc(n)
    \/ align # 0 /\ (MemalignExact(n, align) \/ MemalignCut(n, align) \/ MemalignNull(n, align))

-----------------------------------------------------------------------------
\* free(), past its assertions: the block and its free neighbours become one.
Released(bs, b) ==
    LET freed == [bs EXCEPT ![b].inuse = FALSE, ![b].data = "junk"]
        merged == IF PrevIsFree(freed, b) THEN Absorb(freed, freed[b].prev) ELSE freed
        block == IF PrevIsFree(freed, b) THEN freed[b].prev ELSE b
    IN  IF NextIsFree(merged, block) THEN Absorb(merged, block) ELSE merged

Free(p) ==
    /\ blocks' = Released(blocks, p - BlockHeader)
    /\ live' = Without(live, p)
    /\ UNCHANGED fault

-----------------------------------------------------------------------------
(***************************************************************************)
(* realloc() of the block b, in the order in which it tries its options.   *)
(***************************************************************************)

\* A new size of zero: free(ptr), then malloc(0).
ReallocZero(b) ==
    LET freed == Released(blocks, b)
        best == find_best_fit(freed, 0, 1)
    IN  /\ best # NULL
        /\ blocks' = HandOut(freed, best, 0)
        /\ live' = With(Without(live, Payload(b)), Payload(best), 0)

\* The block is large enough as it is.
ReallocShrink(b, n, size) ==
    /\ blocks[b].size >= size
    /\ blocks' = consider_splitting_block(blocks, b, size)
    /\ live' = [live EXCEPT ![Payload(b)] = n]

\* It is with the free block that follows it.
CanExtend(b, size) ==
    NextIsFree(blocks, b) /\ Absorb(blocks, b)[b].size >= size

ReallocExtend(b, n, size) ==
    /\ blocks[b].size < size
    /\ CanExtend(b, size)
    /\ blocks' = consider_splitting_block(Absorb(blocks, b), b, size)
    /\ live' = [live EXCEPT ![Payload(b)] = n]

\* There is another block: malloc(), memcpy(ptr, new_alloc, block->size),
\* free(ptr).  The copy goes from the new block to the old one.
ReallocMove(b, n, size) ==
    LET best == find_best_fit(blocks, size, 1)
        copied == [consider_splitting_block(blocks, best, size)
                      EXCEPT ![best].inuse = TRUE, ![b].data = blocks[best].data]
    IN  /\ blocks[b].size < size
        /\ ~CanExtend(b, size)
        /\ best # NULL
        /\ blocks' = Released(copied, b)
        /\ live' = With(Without(live, Payload(b)), Payload(best), n)

\* The free block before it makes it large enough.  The memmove() goes from
\* the beginning of the combined block to where the block was.
CanSlide(b, size) ==
    PrevIsFree(blocks, b) /\ Absorb(blocks, blocks[b].prev)[blocks[b].prev].size >= size

ReallocSlide(b, n, size) ==
    LET preceding == blocks[b].prev
        combined == [Absorb(blocks, preceding) EXCEPT ![preceding].inuse = TRUE]
    IN  /\ blocks[b].size < size
        /\ ~CanExtend(b, size)
        /\ find_best_fit(blocks, size, 1) = NULL
        /\ CanSlide(b, size)
        /\ blocks' = consider_splitting_block(combined, preceding, size)
        /\ live' = With(Without(live, Payload(b)), Payload(preceding), n)

Realloc(p, n) ==
    LET b == p - BlockHeader
        size == round_up_block_size(n)
    IN  /\ \/ n = 0 /\ ReallocZero(b)
           \/ n # 0 /\ \/ ReallocShrink(b, n, size)
                       \/ ReallocExtend(b, n, size)
                       \/ ReallocMove(b, n, size)
                       \/ ReallocSlide(b, n, size)
        /\ UNCHANGED fault

-----------------------------------------------------------------------------
(***************************************************************************)
(* create(): the start is aligned, and one free block takes the rest.      *)
(***************************************************************************)
AlignedStart == IF Start % 4 = 0 THEN Start ELSE Start + (4 - (Start % 4))

head_ == AlignedStart + ZoneHeader

ZoneEnd == AlignedStart + ZoneSize

Init ==
    /\ blocks = [b \in {head_} |->
                   Block(NULL, NULL, ZoneSize - ZoneHeader - BlockHeader, FALSE, "junk")]
    /\ live = << >>
    /\ fault = FALSE

\* Callers free and resize only what they hold.  A refused request changes
\* nothing; a realloc() of NULL is a malloc().
Next ==
    \/ /\ ~fault
       /\ \/ \E n \in Requests : Malloc(n)
          \/ \E n \in AlignedRequests, align \in Alignments : Memalign(n, align)
          \/ \E p \in DOMAIN live : Free(p)
          \/ \E p \in DOMAIN live, n \in Requests : Realloc(p, n)
    \/ fault /\ UNCHANGED vars

Spec == Init /\ [][Next]_vars

-----------------------------------------------------------------------------
(***************************************************************************)
(* Properties.                                                             *)
(***************************************************************************)
BlockEnd(bs, b) == Payload(b) + bs[b].size

TypeOK ==
    /\ DOMAIN blocks \subseteq 1 .. SIZE_MAX
    /\ \A b \in DOMAIN blocks :
         blocks[b] \in [prev : Nat, next : Nat, size : Nat, inuse : BOOLEAN,
                        data : {"caller", "junk"}]
    /\ live \in [DOMAIN live -> Requests \cup AlignedRequests \cup {0}]
    /\ fault \in BOOLEAN

\* Block b is inside the zone and linked to the blocks that touch it.
Linked(bs, b) ==
    /\ head_ <= b /\ BlockEnd(bs, b) <= ZoneEnd
    /\ bs[b].next = IF BlockEnd(bs, b) = ZoneEnd THEN NULL ELSE BlockEnd(bs, b)
    /\ bs[b].next # NULL => bs[b].next \in DOMAIN bs /\ bs[bs[b].next].prev = b
    /\ IF b = head_ THEN bs[b].prev = NULL
       ELSE bs[b].prev \in DOMAIN bs /\ bs[bs[b].prev].next = b

Tiles(bs) ==
    /\ head_ \in DOMAIN bs
    /\ \A b \in DOMAIN bs : Linked(bs, b)
    /\ \A b, c \in DOMAIN bs : b < c => BlockEnd(bs, b) <= c

\* The list visits every block, forwards and backwards, and the blocks tile
\* the zone from head_ to its end without a gap or an overlap, whatever has
\* been split off, merged, extended and moved.
BlocksTile == Tiles(blocks)

Merged(bs) == \A b \in DOMAIN bs : ~bs[b].inuse => ~NextIsFree(bs, b)

\* free(), and every split, merges with the free neighbours: there are never
\* two free blocks in a row for a request to be refused that would fit both.
Coalesced == Merged(blocks)

\* A pointer is in a caller's hands if and only if its block is in use, and
\* the block is as large as the caller asked.
LiveIsInUse ==
    /\ DOMAIN live = {Payload(b) : b \in {c \in DOMAIN blocks : blocks[c].inuse}}
    /\ \A p \in DOMAIN live : live[p] <= blocks[p - BlockHeader].size

\* Once everything has been freed the zone is the single block it began as.
AllFreedIsOneBlock == live = << >> => DOMAIN blocks = {head_}

\* Whatever malloc(), memalign(), realloc() and free() have split, merged,
\* extended and moved: the blocks tile the zone, the free ones are merged, a
\* pointer is held exactly when its block is in use and large enough, and once
\* everything is freed there is one block again (malloc_zone.cpp).
ZoneIntact == BlocksTile /\ Coalesced /\ LiveIsInUse /\ AllFreedIsOneBlock

\* The zone keeps MemoryAllocator's promise: allocations inside the zone that
\* never overlap.
H == INSTANCE Heap WITH Low <- AlignedStart, High <- ZoneEnd, allocated <- live

ImplementsHeap == H!HeapSpec


=============================================================================
