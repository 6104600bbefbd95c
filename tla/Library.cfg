\* Two buffers of capacity three, a list of up to four nodes and two vectors of
\* up to three elements; three variants; ints of six bits and bit arrays of seven.
CONSTANTS
    Name = {n1, n2}
    Value = {v1, v2}
    CAPACITY = 3
    Address = {a1, a2, a3, a4}
    MAX_ITEMS = 3
    Names = {e1, e2, e3}
    Lefts = {l1, l2}
    Rights = {r1, r2}
    None = None
    Monostate = Monostate
    MovedFromValue = MovedFromValue
    Functions <- MCFunctions
    INT_BITS = 6
    POINTER_DIGITS = 4
    SIZE_BITS = 3
    BIT_CAPACITY = 7
    NUMBER_OF_WORD_BITS = 3
    Calls <- MCCalls
SPECIFICATION MCSpec
SYMMETRY Symmetry

    
    
    
PROPERTY
    ContainersImplementDeque
