------------------------- MODULE MultibootMemoryMap -------------------------
(***************************************************************************)
(* MultibootMemoryMapPageFrameEnumerator: the walk over the memory map the *)
(* boot loader left, whose frames the page frame allocator is configured   *)
(* with (PageFrames).  The map is a sequence of entries in memory, and the *)
(* walk may read what memory holds after it.                               *)
(***************************************************************************)
EXTENDS Naturals, Sequences, SequencesExt

CONSTANTS PAGE_SIZE,
          SIZE_MAX,   \* the largest size_t
          Maps,       \* the maps a boot loader may leave
          After       \* what may follow a map in memory: sequences of entries

ASSUME MapAssumption == PAGE_SIZE \in Nat \ {0} /\ SIZE_MAX \in Nat

VARIABLES map,         \* the memory map
          memory,      \* the entries in memory, the map's first
          entry_,      \* the index of the current entry
          remaining_length_of_entry_,
          curr_page_frame_,
          enumerated,  \* the addresses get_next() has returned
          panicked     \* an assertion has failed

mapVars == <<map, memory, entry_, remaining_length_of_entry_, curr_page_frame_,
          enumerated, panicked>>

\* Entries of the usual size; junk may be anything.
Entry(base, length, available) ==
    [size |-> 20, base |-> base, length |-> length, available |-> available]

\* sizeof(multiboot_memory_map_t)
EntryBytes == 24

-----------------------------------------------------------------------------
\* limit_ = entry_ + mmap_length, which counts entries, not bytes.
limit_ == 1 + Len(map) * EntryBytes

\* The loop of get_next_valid_entry() leaves entry i for the next one; memory
\* ends where the model's does.
Steps(i) == i < limit_ /\ i < Len(memory) /\ memory[i].size > 0

\* get_next_valid_entry(i): 0 for nullptr.
get_next_valid_entry(i) ==
    LET found == {j \in i + 1 .. Len(memory) :
                    /\ memory[j].available
                    /\ \A k \in i .. j - 1 : Steps(k) /\ (k > i => ~memory[k].available)}
    IN  IF found = {} THEN 0 ELSE CHOOSE j \in found : TRUE

has_next == remaining_length_of_entry_ > 0 \/ get_next_valid_entry(entry_) # 0

\* The constructor, which asserts that the first entry is available.
MapInit ==
    /\ map \in Maps
    /\ \E rest \in After : memory = map \o rest
    /\ memory[1].size > 0 /\ memory[1].available
    /\ entry_ = 1
    /\ remaining_length_of_entry_ = memory[1].length
    /\ curr_page_frame_ = memory[1].base
    /\ enumerated = << >>
    /\ panicked = FALSE

\* get_next() returns address a, of which `remaining' bytes of entry i are left.
Take(i, a, remaining) ==
    /\ entry_' = i
    /\ enumerated' = Append(enumerated, a)
    /\ remaining_length_of_entry_' = (remaining + SIZE_MAX + 1 - PAGE_SIZE) % (SIZE_MAX + 1)
    /\ curr_page_frame_' = a + PAGE_SIZE
    /\ UNCHANGED <<map, memory, panicked>>


\* The loop of enumerate_page_frames(): has_next(), then get_next(), which
\* asserts that there is an entry to scan to.
get_next ==
    LET next == get_next_valid_entry(entry_)
    IN  /\ has_next /\ ~panicked
        /\ IF remaining_length_of_entry_ >= PAGE_SIZE
           THEN Take(entry_, curr_page_frame_, remaining_length_of_entry_)
           ELSE IF next # 0 THEN Take(next, memory[next].base, memory[next].length)
           ELSE /\ panicked' = TRUE
                /\ UNCHANGED <<map, memory, entry_, remaining_length_of_entry_,
                               curr_page_frame_, enumerated>>

MapSpec == MapInit /\ [][get_next]_mapVars

-----------------------------------------------------------------------------
\* The addresses of the whole pages of the available entries.
AvailablePages ==
    UNION {{map[i].base + n * PAGE_SIZE : n \in 0 .. (map[i].length \div PAGE_SIZE) - 1} :
              i \in {j \in DOMAIN map : map[j].available}}

\* "enumerates the available page frames": never a page that the map does not
\* say is available.  An available entry shorter than a page makes the length
\* that remains of it wrap around, and the walk goes on through whatever
\* follows; and the walk takes an entry that follows the map for one of it.
OnlyAvailable == ToSet(enumerated) \subseteq AvailablePages

\* Every available page is enumerated, once, by the time has_next() is false.
EveryPageOnce ==
    /\ Cardinality(ToSet(enumerated)) = Len(enumerated)
    /\ ~has_next => AvailablePages \subseteq ToSet(enumerated)

\* "assert(entry_ != nullptr)" (scan_to_next_valid_entry): has_next() is true
\* when less than a page is left of the last available entry.
EntryFound == ~panicked

=============================================================================
