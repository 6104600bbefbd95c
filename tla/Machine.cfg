\* Both architectures, vectors of every kind and two exceptions; three strokes
\* and a queue of two events; clocks of ten ticks a second with two leap ticks
\* after every third interrupt, and counters that start at and beyond every
\* threshold; two threads, each in at most one call, with every alignment of
\* their stacks.
CONSTANTS
    ARCHES = {"i386", "x86_64"}
    VECTORS <- MCVectors
    TSS_ADDRS <- MCTssAddrs
    ISTACK <- MCIStack
    MAX_FAULTS = 2
    KEYS <- MCKeys
    CODE <- MCCode
    ESCAPED = {"up"}
    SHIFTS = {"shift"}
    CAPACITY = 2
    MAX_TYPED = 3
    CLOCK_FREQUENCY = 10
    TIMER_RATE = 3
    LEAP_INTERVAL = 2
    LEAP_TICKS = 2
    START_TICKS = {0, 9, 10, 25}
    START_LEAPS = {0, 1, 2, 3, 200}
    MAX_FIRES = 12
    LAST_THREAD = 2
    STACK_SIZE = 48
    DATA = {0, 1}
    LOCALS = {0, 1, 2, 3}
    MAX_CALLS = 1
SPECIFICATION MCSpec
INVARIANTS
    
    ThreadsResume
    BootInOrder
    KeysAsTyped
    ClockKeepsTime
PROPERTIES
    EveryPanicHalts
    EveryEventReturned
