--------------------------- MODULE ProcessorTables ---------------------------
(***************************************************************************)
(* The entries of page tables and descriptor tables, which the kernel      *)
(* writes field by field into words whose layout the processor dictates,   *)
(* and the descriptor tables that it builds from them at boot.             *)
(*                                                                         *)
(* A word is the set of the numbers of its bits that are 1, and so is the  *)
(* value of a field.  An entry is one or two words.  A class is modelled   *)
(* by its layout: for every field, the pieces of it, each with the word    *)
(* and the bits it is stored in and the bit of the value it starts with.   *)
(***************************************************************************)
EXTENDS Integers, FiniteSets, Sequences

VARIABLES kind,     \* the class of the entry
          words,    \* <<data>> or <<data, data2>>
          meant     \* history: the value each field was last set to

vars == <<kind, words, meant>>

-----------------------------------------------------------------------------
Piece(word, lo, hi, from) == [word |-> word, lo |-> lo, hi |-> hi, from |-> from]
Flag(bit) == {Piece(1, bit, bit, 0)}

\* The layouts of the classes.  A flag is a one-bit field.
i386_PageTableEntry ==
    [present |-> Flag(0), readwrite |-> Flag(1), supervisor |-> Flag(2),
     page_write_through |-> Flag(3), page_cache_disabled |-> Flag(4),
     accessed |-> Flag(5), dirty |-> Flag(6), pat_bit |-> Flag(7),
     global |-> Flag(8), address |-> {Piece(1, 12, 31, 12)}]

i386_PageDirectoryEntry ==
    [present |-> Flag(0), readwrite |-> Flag(1), supervisor |-> Flag(2),
     page_write_through |-> Flag(3), page_cache_disabled |-> Flag(4),
     accessed |-> Flag(5), address |-> {Piece(1, 12, 31, 12)}]

x86_64_PageTableEntry ==
    [present |-> Flag(0), readwrite |-> Flag(1), supervisor |-> Flag(2),
     page_write_through |-> Flag(3), page_cache_disabled |-> Flag(4),
     accessed |-> Flag(5), dirty |-> Flag(6), pat_bit |-> Flag(7),
     global |-> Flag(8), execute_disabled |-> Flag(63),
     address |-> {Piece(1, 12, 51, 12)}]

x86_64_PageDirectoryEntry ==
    [present |-> Flag(0), readwrite |-> Flag(1), supervisor |-> Flag(2),
     page_write_through |-> Flag(3), page_cache_disabled |-> Flag(4),
     accessed |-> Flag(5), execute_disabled |-> Flag(63),
     address |-> {Piece(1, 12, 51, 12)}]

i386_InterruptDescriptor ==
    [segment_selector |-> {Piece(1, 16, 31, 0)}, dpl |-> {Piece(1, 45, 46, 0)},
     present |-> Flag(47),
     offset |-> {Piece(1, 0, 15, 0), Piece(1, 48, 63, 16)}]

x86_64_InterruptDescriptor ==
    [segment_selector |-> {Piece(1, 16, 31, 0)}, dpl |-> {Piece(1, 45, 46, 0)},
     present |-> Flag(47),
     offset |-> {Piece(1, 0, 15, 0), Piece(1, 48, 63, 16), Piece(2, 0, 31, 32)}]

Layout(k) ==
    CASE k = "i386 pte" -> i386_PageTableEntry
      [] k = "i386 pde" -> i386_PageDirectoryEntry
      [] k = "x86_64 pte" -> x86_64_PageTableEntry
      [] k = "x86_64 pde" -> x86_64_PageDirectoryEntry
      [] k = "i386 gate" -> i386_InterruptDescriptor
      [] k = "x86_64 gate" -> x86_64_InterruptDescriptor

Kinds == {"i386 pte", "i386 pde", "x86_64 pte", "x86_64 pde",
          "i386 gate", "x86_64 gate"}
Gates == {"i386 gate", "x86_64 gate"}

-----------------------------------------------------------------------------
(***************************************************************************)
(* Setters and getters.                                                    *)
(***************************************************************************)

\* The bits of value v that a piece stores, at their place in the word.
Stored(piece, v) ==
    {b - piece.from + piece.lo : b \in v \cap (piece.from .. piece.from + piece.hi - piece.lo)}

\* A setter clears the bits of the field and ors the new value in.
set_field(ws, pieces, v) ==
    [w \in DOMAIN ws |->
        LET mine == {p \in pieces : p.word = w}
        IN  (ws[w] \ UNION {p.lo .. p.hi : p \in mine})
                \cup UNION {Stored(p, v) : p \in mine}]

get_field(ws, pieces) ==
    UNION {{b - p.lo + p.from : b \in ws[p.word] \cap (p.lo .. p.hi)} : p \in pieces}

\* PageTableEntry::get_address() extends the sign of bit 47.
get_address(k, ws) ==
    LET address == get_field(ws, Layout(k).address)
    IN  IF k = "x86_64 pte" /\ 47 \in address THEN address \cup (52 .. 63) ELSE address

\* InterruptDescriptor::set_type(): the bits that are set and cleared.
TypeBits(k, type) ==
    CASE k = "i386 gate" /\ type = "TaskGate" -> [set |-> {42, 40}, clear |-> {44, 43, 41}]
      [] k = "i386 gate" /\ type = "InterruptGate" ->
            [set |-> {43, 42, 41}, clear |-> {44, 40, 39, 38, 37}]
      [] k = "i386 gate" /\ type = "TrapGate" ->
            [set |-> {43, 42, 41, 40}, clear |-> {44, 39, 38, 37}]
      [] k = "x86_64 gate" /\ type = "InterruptGate" -> [set |-> {43, 42, 41}, clear |-> {40}]
      [] k = "x86_64 gate" /\ type = "TrapGate" -> [set |-> {43, 42, 41, 40}, clear |-> {}]

set_type(k, ws, type) ==
    [ws EXCEPT ![1] = (@ \ TypeBits(k, type).clear) \cup TypeBits(k, type).set]

get_type(k, ws) ==
    CASE k = "i386 gate" /\ 41 \notin ws[1] -> "TaskGate"
      [] 40 \in ws[1] -> "TrapGate"
      [] OTHER -> "InterruptGate"

-----------------------------------------------------------------------------
(***************************************************************************)
(* Any sequence of setter calls on a new entry.  The addresses are what    *)
(* the kernel stores: page frames, and on x86_64 canonical addresses.      *)
(***************************************************************************)
GateTypes(k) ==
    IF k = "i386 gate" THEN {"TaskGate", "InterruptGate", "TrapGate"}
    ELSE {"InterruptGate", "TrapGate"}

Width(k) == IF k \in {"i386 pte", "i386 pde", "i386 gate"} THEN 32 ELSE 64

Values(k, f) ==
    CASE f = "address" ->
            IF Width(k) = 32 THEN {{}, {12}, 12 .. 31}
            ELSE {{}, {12, 46}, 12 .. 46} \cup (IF k = "x86_64 pte" THEN {{13} \cup (47 .. 63)} ELSE {})
      [] f = "offset" -> {{0}, {15, 16}, 0 .. Width(k) - 1} \cup (IF Width(k) = 64 THEN {{31, 32}} ELSE {})
      [] f = "segment_selector" -> {{}, {3, 4}, 0 .. 15}
      [] f = "dpl" -> SUBSET {0, 1}
      [] OTHER -> {{}, {0}}

InitEntry ==
    /\ kind \in Kinds
    /\ words = IF kind = "x86_64 gate" THEN <<{}, {}>> ELSE <<{}>>
    /\ meant = [f \in DOMAIN Layout(kind) \cup {"type"} |-> IF f = "type" THEN "unset" ELSE {}]

SetField ==
    \E f \in DOMAIN Layout(kind) : \E v \in Values(kind, f) :
        /\ words' = set_field(words, Layout(kind)[f], v)
        /\ meant' = [meant EXCEPT ![f] = v]
        /\ UNCHANGED kind

SetType ==
    \E t \in GateTypes(kind) :
        /\ kind \in Gates
        /\ words' = set_type(kind, words, t)
        /\ meant' = [meant EXCEPT !["type"] = t]
        /\ UNCHANGED kind

NextEntry == SetField \/ SetType

-----------------------------------------------------------------------------
(***************************************************************************)
(* What the processor reads, from its manual: where each field is, the     *)
(* code of each gate type, and the bits that must be zero.                 *)
(***************************************************************************)
HardwareField(k, f) ==
    CASE f = "address" -> IF Width(k) = 32 THEN {<<1, b, b>> : b \in 12 .. 31}
                          ELSE {<<1, b, b>> : b \in 12 .. 51}
      [] f = "offset" -> {<<1, b, b>> : b \in 0 .. 15} \cup {<<1, b + 32, b>> : b \in 16 .. 31}
                            \cup (IF Width(k) = 64 THEN {<<2, b - 32, b>> : b \in 32 .. 63} ELSE {})
      [] f = "segment_selector" -> {<<1, 16 + b, b>> : b \in 0 .. 15}
      [] f = "dpl" -> {<<1, 45 + b, b>> : b \in 0 .. 1}
      [] f = "present" -> {<<1, IF k \in Gates THEN 47 ELSE 0, 0>>}
      [] f = "readwrite" -> {<<1, 1, 0>>}
      [] f = "supervisor" -> {<<1, 2, 0>>}
      [] f = "page_write_through" -> {<<1, 3, 0>>}
      [] f = "page_cache_disabled" -> {<<1, 4, 0>>}
      [] f = "accessed" -> {<<1, 5, 0>>}
      [] f = "dirty" -> {<<1, 6, 0>>}
      [] f = "pat_bit" -> {<<1, 7, 0>>}
      [] f = "global" -> {<<1, 8, 0>>}
      [] f = "execute_disabled" -> {<<1, 63, 0>>}

ReadByHardware(k, ws, f) ==
    {at[3] : at \in {at \in HardwareField(k, f) : at[2] \in ws[at[1]]}}

HardwareGateType(ws) == {b - 40 : b \in ws[1] \cap (40 .. 43)}
GateTypeCode ==
    [TaskGate |-> {0, 2}, InterruptGate |-> {1, 2, 3}, TrapGate |-> {0, 1, 2, 3}]

MustBeZero(k, ws) ==
    CASE k \in Gates -> ws[1] \cap ((32 .. 39) \cup {44})
      [] k = "x86_64 pte" -> ws[1] \cap (52 .. 62)
      [] k = "x86_64 pde" -> ws[1] \cap ((52 .. 62) \cup {7})
      [] OTHER -> {}

\* After any sequence of setter calls on a page table entry, a page directory
\* entry or a gate, the getters return, and the processor reads, the value each
\* field was last given: no setter disturbs another field, not even when a
\* sign-extended address is stored beside the execute-disable bit, and no bit
\* that must be zero is set.
EntryMeansWhatWasSet ==
    /\ \A f \in DOMAIN Layout(kind) :
          /\ IF f = "address" THEN get_address(kind, words) = meant[f]
             ELSE get_field(words, Layout(kind)[f]) = meant[f]
          /\ ReadByHardware(kind, words, f) = IF f = "address" THEN meant[f] \cap (12 .. 51) ELSE meant[f]
    /\ meant.type # "unset" =>
          /\ get_type(kind, words) = meant.type
          /\ HardwareGateType(words) = GateTypeCode[meant.type]
    /\ MustBeZero(kind, words) = {}
=============================================================================
