\* The structure sizes of i386.  The zone has room for four or five blocks, so
\* that it is soon full and every way of splitting and merging is met; 255 is
\* SIZE_MAX, which round_up_block_size() must not wrap.
CONSTANTS
    Start = 4
    ZoneSize = 108
    SIZE_MAX = 255
    ZoneHeader = 8
    BlockHeader = 16
    Requests = {0, 5, 24, 255}
    AlignedRequests = {0, 10}
    Alignments = {0, 8, 32}
SPECIFICATION Spec
INVARIANTS
    ZoneIntact
PROPERTY ImplementsHeap
