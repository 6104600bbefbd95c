\* A page that is mapped read-only while the TLB has it as writable.
CONSTANTS
    Machine <- StaleMachine
    Images <- NoImages
SPECIFICATION LoaderSpec
INVARIANTS
    NoUngrantedWrites
