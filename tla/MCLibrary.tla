------------------------------ MODULE MCLibrary -----------------------------
(***************************************************************************)
(* The common library for TLC.  A behaviour uses one part of it: one of    *)
(* the three containers, the variants, or a call of the C library; the     *)
(* others stay as they are.                                                *)
(***************************************************************************)
EXTENDS RingBuffer, CLibrary, TLC

CONSTANTS Address, MAX_ITEMS,
          Names, Lefts, Rights, None, Monostate, MovedFromValue, Functions

VARIABLES subject, head_, count_, node, vector, kind, variant, misused

List == INSTANCE LinkedList

Vectors == INSTANCE Vector

Variant == INSTANCE Variants WITH Moved <- MovedFromValue

\* The functions a chain is made of: one for every constant, one for every error
\* that keeps the values, and one that returns nothing.
Result(is_left, value) ==
    [alive |-> TRUE, is_left |-> is_left,
     union |-> [side |-> IF is_left THEN "left" ELSE "right", value |-> value]]

MCValues == Rights \cup {Monostate, MovedFromValue}

MCFunctions ==
    {[void |-> FALSE, result |-> [x \in MCValues |-> Result(FALSE, y)]] : y \in Rights}
    \cup {[void |-> FALSE, result |-> [x \in MCValues |->
              IF x \in Rights THEN Result(FALSE, x) ELSE Result(TRUE, e)]] : e \in Lefts}
    \cup {[void |-> TRUE, result |-> [x \in MCValues |-> Result(FALSE, Monostate)]]}

-----------------------------------------------------------------------------
(***************************************************************************)
(* The calls: every format of up to two of some conversions and plain      *)
(* characters, every number of some bits, and all short strings.           *)
(***************************************************************************)
Code == [d |-> 100, u |-> 117, x |-> 120, X |-> 88, s |-> 115, c |-> 99, p |-> 112]

\* A piece of a format with its arguments.
Pieces ==
    {[fmt |-> <<Percent, Code.d>>, args |-> <<v>>] : v \in {-17, -32, 0, 25}}
    \cup {[fmt |-> <<Percent, Code.x>>, args |-> <<v>>] : v \in {0, 27}}
    \cup {[fmt |-> <<Percent, Code.X>>, args |-> <<27>>],
          [fmt |-> <<Percent, Code.u>>, args |-> <<60>>],
          [fmt |-> <<Percent, Code.s>>, args |-> <<<<97, 10>>>>],
          [fmt |-> <<Percent, Code.s>>, args |-> <<NullString>>],
          [fmt |-> <<Percent, Code.c>>, args |-> <<98>>],
          [fmt |-> <<Percent, Percent>>, args |-> << >>],
          [fmt |-> <<122>>, args |-> << >>]}

Prints ==
    {[subject |-> "printf", fmt |-> a.fmt \o b.fmt, args |-> a.args \o b.args, size |-> n] :
        a \in Pieces, b \in Pieces, n \in 1 .. 7}

\* A pointer in a buffer that has room for it, by a margin or just.
Pointers ==
    {[subject |-> "printf", fmt |-> <<Percent, Code.p>>, args |-> <<v>>, size |-> n] :
        v \in {0, 5, 171}, n \in 1 .. POINTER_DIGITS + 5}

Numbers ==
    {[subject |-> "number", conversion |-> Code.d, base |-> 10, value |-> v] :
        v \in -(2 ^ (INT_BITS - 1)) + 1 .. 2 ^ (INT_BITS - 1) - 1}
    \cup {[subject |-> "number", conversion |-> k, base |-> 16, value |-> v] :
            k \in {Code.x, Code.X}, v \in 0 .. 2 ^ INT_BITS - 1}

Texts(chars, n) == UNION {[1 .. k -> chars] : k \in 0 .. n}

Conversions ==
    {[subject |-> "strtol", s |-> s, base |-> b] :
        s \in Texts({Plus, Minus, Zero, LowerX, 55, 57, 97}, 4), b \in {0, 8, 10, 16}}

Moves ==
    {[subject |-> "memmove", top |-> 6, dst |-> d, src |-> s, n |-> k] :
        d \in 0 .. 3, s \in 0 .. 3, k \in 0 .. 3}

Strings == {[subject |-> "strings", s |-> s, t |-> t] : s \in Texts({97, 98}, 5), t \in Texts({97, 98}, 3)}

Bits == {[subject |-> "bits", bits |-> b] : b \in SUBSET (0 .. BIT_CAPACITY - 1)}

\* Values of four bytes and eight, here one and two.
Stacks == {[subject |-> "stack", values |-> v] : v \in Texts({<<1>>, <<2>>, <<3, 4>>, <<5, 6>>}, 4)}

MCCalls == Stacks \cup Prints \cup Numbers \cup Conversions \cup Moves \cup Strings \cup Bits

-----------------------------------------------------------------------------
containerVars == <<ring, head_, count_, node, vector>>

libraryVars == <<subject, containerVars, kind, variant, misused, call>>

\* In the behaviours that make no call.
NoCall == [subject |-> "none"]

MCInit ==
    /\ subject \in {"ring", "list", "vector", "variants", "c"}
    /\ Init /\ List!Init /\ Vectors!Init
    /\ Variant!VariantsInit
    /\ subject = "variants" \/ kind = "either"
    /\ IF subject = "c" THEN CLibraryInit ELSE call = NoCall

UseRing ==
    subject = "ring" /\ Next
    /\ UNCHANGED <<subject, head_, count_, node, vector, kind, variant, misused, call>>

UseList ==
    subject = "list" /\ List!Next
    /\ UNCHANGED <<subject, ring, vector, kind, variant, misused, call>>

UseVector ==
    subject = "vector" /\ Vectors!Next
    /\ UNCHANGED <<subject, ring, head_, count_, node, kind, variant, misused, call>>

UseVariants ==
    subject = "variants" /\ Variant!VariantsNext
    /\ UNCHANGED <<subject, containerVars, call>>

\* A call of the C library is one step, whose result the properties look at.
UseC ==
    subject = "c" /\ CLibraryNext
    /\ UNCHANGED <<subject, containerVars, kind, variant, misused>>

MCNext == UseRing \/ UseList \/ UseVector \/ UseVariants \/ UseC

MCSpec == MCInit /\ [][MCNext]_libraryVars

Symmetry == Permutations(Name) \cup Permutations(Value) \cup Permutations(Address)

-----------------------------------------------------------------------------

\* Every call of a container does to its elements what it does to a sequence,
\* across wrap-around, growth, copies and moves; only a push into a full
\* RingBuffer is dropped.
ContainersImplementDeque ==
    ImplementsDeque /\ List!ListImplementsDeque /\ Vectors!VectorImplementsDeque



=============================================================================
