\* Classes with single, multiple and virtual bases, and functions with every
\* kind of clause; two exceptions and two emergency buffers; two threads; three
\* SharedPointers and two UniquePointers to two objects.  A function without
\* callers returns, and a lookup ends.
SPECIFICATION MCSpec
CONSTANTS
    CLASSES <- MCClasses
    VBASES <- MCVBases
    THROWN <- MCThrown
    FUNCTIONS <- MCFunctions
    EX = {e1, e2}
    NoEx = NoEx
    BUFFERS = {1, 2}
    HELD_LIMIT = 1
    MAX_DEPTH = 3
    MAX_HELD = 2
    BODY_END = 2
    HANDLER_END = 4
    DIGIT_BITS = 2
    INT_BITS = 8
    WIDE_BITS = 16
    POINTER_BYTES = 4
    Threads = {t1, t2}
    NoThread = NoThread
    CALLS = {"thread_info", "static"}
    HALVES = {TRUE, FALSE}
    TICK_STEPS = 5
    MAX_THROWS = 1
    Shared = {s1, s2, s3}
    Unique = {u1, u2}
    Counts = {c1, c2, c3}
    Objects = {o1, o2}
    Statics = {g}
    nullptr = nullptr
INVARIANTS
    CaughtAreHandled
    ExceptionsLive
    NearestHandlerTakes
    TablesRead
    InitialisedOnce
    PointersOwn
 
CHECK_DEADLOCK FALSE
