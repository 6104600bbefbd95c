\* Two frames for three user pages, and a TLB that may hold two of them and one
\* of the kernel's.
CONSTANTS
    Machine <- BothMachines
    Images <- MCImages
SPECIFICATION LoaderSpec
INVARIANTS
    FramesMappedOnce
    NoUngrantedWrites
    KernelKept
    
