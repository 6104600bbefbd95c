------------------------------ MODULE EhTables ------------------------------
(***************************************************************************)
(* The bytes of the exception tables (Common/src/libcxxrt/dwarf_eh.h) and  *)
(* what exception.cc reads from them.  Module Exceptions looks calls up in *)
(* tables of records; TablesSayTheSame shows that the reading of the bytes *)
(* a compiler emits for such a table has the same result.                  *)
(*                                                                         *)
(* Bytes are scaled down: a base-128 digit has DIGIT_BITS bits, an octet   *)
(* one more.  An address is an index into the bytes, and 0 is null.        *)
(***************************************************************************)
EXTENDS Exceptions

CONSTANTS DIGIT_BITS,    \* 7 in the code
          INT_BITS,      \* of int, 32
          WIDE_BITS,     \* of uint64_t, 64
          POINTER_BYTES  \* sizeof(void *)

OCTET == 2 ^ (DIGIT_BITS + 1)

Signed(u, bits) == IF u >= 2 ^ (bits - 1) THEN u - 2 ^ bits ELSE u

-----------------------------------------------------------------------------
(***************************************************************************)
(* Reading numbers.  A reader returns the value and where the next one is. *)
(***************************************************************************)

\* A digit is an int when it is shifted, so it may come to be negative.
RECURSIVE read_leb128(_, _, _, _)
read_leb128(bytes, at, bit, uleb) ==
    LET digit == bytes[at] % 2 ^ DIGIT_BITS
        sum == (uleb + Signed((digit * 2 ^ bit) % 2 ^ INT_BITS, INT_BITS)) % 2 ^ WIDE_BITS
    IN  IF bytes[at] # digit
        THEN read_leb128(bytes, at + 1, bit + DIGIT_BITS, sum)
        ELSE [value |-> sum, bits |-> bit + DIGIT_BITS, at |-> at + 1]

read_uleb128(bytes, at) ==
    LET leb == read_leb128(bytes, at, 0, 0)
    IN  [value |-> Signed(leb.value, WIDE_BITS), at |-> leb.at]

read_sleb128(bytes, at) ==
    LET leb == read_leb128(bytes, at, 0, 0)
        extended == IF leb.value \div 2 ^ (leb.bits - 1) = 1
                    THEN leb.value + 2 ^ WIDE_BITS - 2 ^ leb.bits ELSE leb.value
    IN  [value |-> Signed(extended, WIDE_BITS), at |-> leb.at]

\* enum dwarf_data_encoding and dwarf_data_relative.
DW_EH_PE_absptr == 0
DW_EH_PE_uleb128 == 1
DW_EH_PE_udata2 == 2
DW_EH_PE_udata4 == 3
DW_EH_PE_signed == 8
DW_EH_PE_pcrel == 16
DW_EH_PE_funcrel == 64
DW_EH_PE_indirect == 128
DW_EH_PE_omit == 255

get_encoding(x) == x % 16

get_base(x) == ((x \div 16) % 8) * 16

is_indirect(x) == x >= DW_EH_PE_indirect

dwarf_size_of_fixed_size_field(type) ==
    CASE get_encoding(type) % DW_EH_PE_signed = DW_EH_PE_udata2 -> 2
      [] get_encoding(type) % DW_EH_PE_signed = DW_EH_PE_udata4 -> 4
      [] get_encoding(type) = DW_EH_PE_absptr -> POINTER_BYTES

\* Without data8, which these numbers have no room for.
read_value(encoding, bytes, at) ==
    LET type == get_encoding(encoding)
        size == dwarf_size_of_fixed_size_field(encoding)
        word == FoldLeft(LAMBDA acc, k : acc + bytes[at + k - 1] * OCTET ^ (k - 1),
                         0, [k \in 1 .. size |-> k])
    IN  CASE type = DW_EH_PE_uleb128 -> read_uleb128(bytes, at)
          [] type = DW_EH_PE_uleb128 + DW_EH_PE_signed -> read_sleb128(bytes, at)
          [] OTHER -> [value |-> IF type >= DW_EH_PE_signed \/ type = DW_EH_PE_absptr
                                 THEN Signed(word, (DIGIT_BITS + 1) * size) ELSE word,
                       at |-> at + size]

\* memory is what indirect addresses point to.  The text and data bases, which
\* the kernel does not have, are 0.
resolve_indirect_value(encoding, v, start, region_start, memory) ==
    LET base == get_base(encoding)
        address == v + (CASE base = DW_EH_PE_pcrel -> start
                          [] base = DW_EH_PE_funcrel -> region_start
                          [] OTHER -> 0)
    IN  IF is_indirect(encoding) THEN memory[address] ELSE address

read_value_with_encoding(bytes, at, out, region_start, memory) ==
    LET encoding == bytes[at]
        v == read_value(encoding, bytes, at + 1)
    IN  IF encoding = DW_EH_PE_omit THEN [value |-> out, at |-> at + 1]
        ELSE [value |-> resolve_indirect_value(encoding, v.value, at, region_start, memory), at |-> v.at]

-----------------------------------------------------------------------------
(***************************************************************************)
(* The tables.                                                             *)
(***************************************************************************)
parse_lsda(bytes, region_start, memory) ==
    LET pads == read_value_with_encoding(bytes, 1, region_start, region_start, memory)
        type_table_encoding == bytes[pads.at]
        typed == type_table_encoding # DW_EH_PE_omit
        v == read_uleb128(bytes, pads.at + 1)
        after == IF typed THEN v.at ELSE pads.at + 1
        callsite_size == read_uleb128(bytes, after + 1)
    IN  [bytes |-> bytes, memory |-> memory, region_start |-> region_start,
         landing_pads |-> pads.value,
         type_table |-> IF typed THEN v.at + v.value ELSE 0,
         type_table_encoding |-> type_table_encoding,
         callsite_encoding |-> bytes[after],
         call_site_table |-> callsite_size.at,
         action_table |-> callsite_size.at + callsite_size.value]

\* The loop of dwarf_eh_find_callsite.  It reads on while the place is not
\* behind the end of the table, so once from the actions too.
RECURSIVE FindFrom(_, _, _)
FindFrom(lsda, ip, at) ==
    LET Read(from) == read_value(lsda.callsite_encoding, lsda.bytes, from)
        start == Read(at)
        size == Read(start.at)
        landing_pad == Read(size.at)
        action == read_uleb128(lsda.bytes, landing_pad.at)
    IN  IF at > lsda.action_table THEN [found |-> FALSE]
        ELSE IF start.value > ip THEN [found |-> FALSE]
        ELSE IF start.value < ip /\ ip <= start.value + size.value
        THEN [found |-> TRUE,
              action_record |-> IF action.value # 0 THEN lsda.action_table + action.value - 1 ELSE 0,
              landing_pad |-> IF landing_pad.value # 0 THEN lsda.landing_pads + landing_pad.value ELSE 0]
        ELSE FindFrom(lsda, ip, action.at)

\* ip is relative to the start of the region.
find_callsite(lsda, ip) == FindFrom(lsda, ip, lsda.call_site_table)

\* The address of a type_info, or 0.
get_type_info_entry(lsda, filter) ==
    LET record == lsda.type_table
                    - dwarf_size_of_fixed_size_field(lsda.type_table_encoding) * filter
        offset == read_value(lsda.type_table_encoding, lsda.bytes, record).value
    IN  IF offset = 0 THEN 0
        ELSE resolve_indirect_value(lsda.type_table_encoding, offset, record,
                                    lsda.region_start, lsda.memory)

\* Is one of an exception specification's types, a list that ends with 0, one
\* in matching, the addresses of the type_infos that take the exception?
RECURSIVE SpecMatches(_, _, _)
SpecMatches(lsda, type_index, matching) ==
    /\ lsda.bytes[type_index] # 0
    /\ \/ get_type_info_entry(lsda, lsda.bytes[type_index]) \in matching
       \/ SpecMatches(lsda, type_index + 1, matching)

\* A faulty one: displacements count from the start of the record.
ActionFrom_Mutant(lsda, record, displacement) == record + displacement.value

\* Where the next record is: displacements count from where they are.
ActionFrom(lsda, record, displacement) == displacement.from + displacement.value

\* check_action_record's loop.
RECURSIVE CheckFrom(_, _, _, _)
CheckFrom(lsda, record, matching, found) ==
    LET filter == read_sleb128(lsda.bytes, record)
        displacement == [from |-> filter.at, value |-> read_sleb128(lsda.bytes, filter.at).value]
        next == IF displacement.value # 0 THEN ActionFrom(lsda, record, displacement) ELSE 0
        f == filter.value
    IN  CASE record = 0 -> [handler |-> found, selector |-> 0]
          [] record # 0 /\ f > 0 /\ get_type_info_entry(lsda, f) \in matching ->
                [handler |-> "catch", selector |-> f]
          [] record # 0 /\ f < 0 /\ ~SpecMatches(lsda, lsda.type_table - f - 1, matching) ->
                [handler |-> "spec", selector |-> f]
          [] OTHER -> CheckFrom(lsda, next, matching, IF f = 0 THEN "cleanup" ELSE found)

check_records(lsda, action_record, matching) ==
    IF action_record = 0 THEN [handler |-> "cleanup", selector |-> 0]
    ELSE CheckFrom(lsda, action_record, matching, "none")

-----------------------------------------------------------------------------
(***************************************************************************)
(* __gxx_personality_v0's use of them: for the bytes of a frame's table,   *)
(* its return address and the type_infos that take the exception.          *)
(***************************************************************************)
VARIABLE lookup

Lookup(bytes, region_start, memory, ip, matching) ==
    [stage |-> "parse", bytes |-> bytes, region_start |-> region_start, memory |-> memory,
     ip |-> ip, matching |-> matching]

Parse ==
    /\ lookup.stage = "parse"
    /\ lookup' = [lookup EXCEPT !.stage = "find"]
                   @@ [lsda |-> parse_lsda(lookup.bytes, lookup.region_start, lookup.memory)]

Find ==
    /\ lookup.stage = "find"
    /\ lookup' = [lookup EXCEPT !.stage = "check"] @@ [site |-> find_callsite(lookup.lsda, lookup.ip)]

\* Nothing more is read when there is no call site.
Check ==
    /\ lookup.stage = "check"
    /\ lookup' = [lookup EXCEPT !.stage = "done"] @@
                 [action |-> IF lookup.site.found
                             THEN check_records(lookup.lsda, lookup.site.action_record, lookup.matching)
                             ELSE [handler |-> "terminate", selector |-> 0]]

LookupNext == Parse \/ Find \/ Check

=============================================================================
