------------------------------ MODULE CLibrary ------------------------------
(***************************************************************************)
(* The conversions, copies and searches of the C library (stdio.cpp,       *)
(* string.cpp, string_to_long_converter.hpp), BitArray and StaticStack, as *)
(* functions.  A character is its code, a string the sequence of those     *)
(* before its null, and an address in a string an index.                   *)
(*                                                                         *)
(* Every behaviour has one call, chosen in the initial state: the          *)
(* properties say what is right about its result.                          *)
(***************************************************************************)
EXTENDS Integers, Sequences

LOCAL INSTANCE SequencesExt
LOCAL INSTANCE FiniteSetsExt

CONSTANTS INT_BITS,        \* of int, 32 in the code
          POINTER_DIGITS,  \* sizeof(uintptr_t) * 2
          SIZE_BITS,       \* of size_t
          BIT_CAPACITY, NUMBER_OF_WORD_BITS,  \* of a BitArray
          Calls            \* [subject, arguments]

VARIABLE call

CLibraryInit == call \in Calls

CLibraryNext == UNCHANGED call

CLibrarySpec == CLibraryInit /\ [][CLibraryNext]_call

-----------------------------------------------------------------------------
(***************************************************************************)
(* Characters.                                                             *)
(***************************************************************************)
NUL == 0
Zero == 48
Plus == 43
Minus == 45
LowerX == 120
Percent == 37

At(s, i) == IF i <= Len(s) THEN s[i] ELSE NUL

isdigit(c) == c \in 48 .. 57
isupper(c) == c \in 65 .. 90
islower(c) == c \in 97 .. 122
isprint(c) == c \in 32 .. 126

digits_lower == [d \in 0 .. 35 |-> IF d < 10 THEN 48 + d ELSE 87 + d]

\* In digits_upper the table has "LOMN", which shows for bases above 22 only.
digits_upper == [d \in 0 .. 35 |-> CASE d < 10 -> 48 + d
                                     [] d = 22 -> 79 [] d = 23 -> 77 [] d = 24 -> 78
                                     [] OTHER -> 55 + d]

\* The value of an int with the bits of n.
SignedInt(n) == LET u == n % 2 ^ INT_BITS IN IF u >= 2 ^ (INT_BITS - 1) THEN u - 2 ^ INT_BITS ELSE u

-----------------------------------------------------------------------------
(***************************************************************************)
(* stdio.cpp.  The output: the characters stored, the room that is left,   *)
(* and the count of characters that is returned.                           *)
(***************************************************************************)
Output(size) == [str |-> << >>, size |-> size, i |-> 0]

insert_char(c, o) ==
    IF o.size > 1 /\ (isprint(c) \/ c \in {9, 10})
    THEN [str |-> Append(o.str, c), size |-> o.size - 1, i |-> o.i + 1]
    ELSE [o EXCEPT !.i = @ + 1]

\* A null pointer, and what is printed for it, "(null)".
NullString == <<-1>>
NullText == <<40, 110, 117, 108, 108, 41>>

insert_string(value, o) ==
    FoldLeft(LAMBDA acc, c : insert_char(c, acc), o, IF value = NullString THEN NullText ELSE value)

\* The digits of a positive value, the last one first.
RECURSIVE Backwards(_, _, _)
Backwards(value, base, digits) ==
    IF value <= 0 THEN << >> ELSE <<digits[value % base]>> \o Backwards(value \div base, base, digits)

insert_uint(value, base, digits, o) ==
    insert_string(IF value = 0 THEN <<digits[0]>> ELSE Reverse(Backwards(value, base, digits)), o)

\* -value is value itself for the least int, which then has no digits.
insert_int(value, base, digits, o) ==
    LET magnitude == IF value < 0 THEN SignedInt(-value) ELSE value
    IN  insert_string(IF magnitude = 0 THEN <<digits[0]>>
                      ELSE Reverse(Backwards(magnitude, base, digits)),
                      IF value < 0 THEN insert_char(Minus, o) ELSE o)

\* The zeros in front take room when they are made, and again when inserted.
insert_pointer(value, o) ==
    LET prefixed == insert_string(<<Zero, LowerX>>, o)
        digits == Backwards(value, 16, digits_lower)
        zeros == Max({0, Min({POINTER_DIGITS - Len(digits), prefixed.size - 1})})
    IN  insert_string(Reverse(digits \o [k \in 1 .. zeros |-> Zero]),
                      [prefixed EXCEPT !.size = @ - zeros])

\* One character of the format.
Format(st, c) ==
    LET o == st.output
        arg == Head(st.args)
        Insert(output, rest) == [output |-> output, percent |-> FALSE, args |-> rest]
    IN  CASE ~st.percent /\ c = Percent -> [st EXCEPT !.percent = TRUE]
          [] ~st.percent /\ c # Percent -> Insert(insert_char(c, o), st.args)
          [] st.percent /\ c = 100 -> Insert(insert_int(arg, 10, digits_lower, o), Tail(st.args))
          [] st.percent /\ c = 117 -> Insert(insert_uint(arg, 10, digits_lower, o), Tail(st.args))
          [] st.percent /\ c = 120 -> Insert(insert_uint(arg, 16, digits_lower, o), Tail(st.args))
          [] st.percent /\ c = 88 -> Insert(insert_uint(arg, 16, digits_upper, o), Tail(st.args))
          [] st.percent /\ c = 112 -> Insert(insert_pointer(arg, o), Tail(st.args))
          [] st.percent /\ c = 115 -> Insert(insert_string(arg, o), Tail(st.args))
          [] st.percent /\ c = 99 -> Insert(insert_char(arg, o), Tail(st.args))
          [] OTHER -> Insert(insert_char(c, o), st.args)

\* What is in the buffer, and the result.
vsnprintf(size, fmt, args) ==
    IF size = 0 THEN Output(0)
    ELSE FoldLeft(Format, [output |-> Output(size), percent |-> FALSE, args |-> args], fmt).output

\* The size it gives to the second call is one less than it allocates, so the
\* last character is lost.  This is with arguments that are read again from the
\* first, as on i386; on x86_64 the second reading goes on behind the first.
vasprintf(fmt, args) ==
    LET len == vsnprintf(1, fmt, args).i
    IN  [allocated |-> len + 1, result |-> vsnprintf(len, fmt, args)]

-----------------------------------------------------------------------------
(***************************************************************************)
(* strtol().                                                               *)
(***************************************************************************)
get_digit_for_char(c) ==
    CASE isdigit(c) -> c - 48 [] islower(c) -> c - 87 [] isupper(c) -> c - 55 [] OTHER -> 0

is_valid_digit_for_char(c, base) ==
    (isdigit(c) \/ islower(c) \/ isupper(c)) /\ get_digit_for_char(c) < base

\* The multiplier and where the number goes on.
eat_sign(s) ==
    CASE At(s, 1) = Plus -> <<1, 2>> [] At(s, 1) = Minus -> <<-1, 2>> [] OTHER -> <<1, 1>>

has_octal_prefix(s, p) == At(s, p) = Zero /\ At(s, p + 1) # LowerX

has_hex_prefix(s, p) == At(s, p) = Zero /\ At(s, p + 1) = LowerX

eat_base_prefix(s, p, base) ==
    CASE base \in {0, 8} /\ has_octal_prefix(s, p) -> <<8, p + 1>>
      [] base \in {0, 16} /\ has_hex_prefix(s, p) -> <<16, p + 2>>
      [] OTHER -> <<IF base = 0 THEN 10 ELSE base, p>>

RECURSIVE scan_to_end_of_number(_, _, _)
scan_to_end_of_number(s, p, base) ==
    IF is_valid_digit_for_char(At(s, p), base) THEN scan_to_end_of_number(s, p + 1, base) ELSE p

\* From the last digit to the first, each with its power of the base.
parse_number_digits(s, p, end, base) ==
    FoldLeft(LAMBDA acc, k : acc + get_digit_for_char(s[end - 1 - k]) * base ^ k,
             0, [k \in 1 .. end - p |-> k - 1])

Unset == 0

\* [value, end]: the number and the index of what follows it.  A number of
\* octal digits which is 0 alone loses its digit to the prefix.
strtol(s, base) ==
    IF base < 0 \/ base >= 35 THEN [value |-> 0, end |-> Unset]
    ELSE LET sign == eat_sign(s)
             number == eat_base_prefix(s, sign[2], base)
             end == scan_to_end_of_number(s, number[2], number[1])
         IN  IF end = number[2] THEN [value |-> 0, end |-> 1]
             ELSE [value |-> sign[1] * parse_number_digits(s, number[2], end, number[1]), end |-> end]

-----------------------------------------------------------------------------
(***************************************************************************)
(* Memory and strings.                                                     *)
(***************************************************************************)
SIZES == 2 ^ SIZE_BITS


Forward(dst, src) == dst < src

\* The loop from index i, in steps of 1 or -1, up to end.
RECURSIVE CopyLoop(_, _, _, _, _, _)
CopyLoop(mem, dst, src, i, end, step) ==
    IF i = end THEN mem
    ELSE CopyLoop([mem EXCEPT ![dst + i] = mem[src + i]], dst, src, (i + step) % SIZES, end, step)

memmove(mem, dst, src, n) ==
    IF dst = src THEN mem
    ELSE IF Forward(dst, src) THEN CopyLoop(mem, dst, src, 0, n, 1)
    ELSE CopyLoop(mem, dst, src, (n - 1) % SIZES, SIZES - 1, -1)

memcpy(mem, dst, src, n) == CopyLoop(mem, dst, src, 0, n, 1)

strlen(s) == Len(s)

strnlen(s, maxlen) == Min({Len(s), maxlen})

\* The first of n places where two strings differ or the first one ends.
RECURSIVE Difference(_, _, _, _)
Difference(s1, s2, i, n) ==
    IF n = 0 THEN 0
    ELSE IF At(s1, i) # NUL /\ At(s1, i) = At(s2, i) THEN Difference(s1, s2, i + 1, n - 1)
    ELSE At(s1, i) - At(s2, i)

strncmp(s1, s2, n) == Difference(s1, s2, 1, n)

strcmp(s1, s2) == Difference(s1, s2, 1, Len(s1) + Len(s2) + 1)

RECURSIVE memcmp(_, _, _)
memcmp(a, b, n) ==
    IF n = 0 THEN 0
    ELSE IF Head(a) # Head(b) THEN Head(a) - Head(b)
    ELSE memcmp(Tail(a), Tail(b), n - 1)

\* From index h: where the needle is, or 0.
RECURSIVE strstr(_, _, _)
strstr(haystack, h, needle) ==
    IF needle = << >> THEN h
    ELSE IF h > Len(haystack) THEN 0
    ELSE IF haystack[h] = Head(needle) /\ strstr(haystack, h + 1, Tail(needle)) = h + 1 THEN h
    ELSE strstr(haystack, h + 1, needle)

-----------------------------------------------------------------------------
(***************************************************************************)
(* BitArray: the set of its set bits, in words of the storage.             *)
(***************************************************************************)
NOT_FOUND == -1

get_number_of_words == BIT_CAPACITY \div NUMBER_OF_WORD_BITS

WordIsZero(bits, w) == bits \cap (w * NUMBER_OF_WORD_BITS .. (w + 1) * NUMBER_OF_WORD_BITS - 1) = {}

\* Words are compared with zero the other way round than the bits looked for
\* would ask, and a last word that is not whole is left out.
scan_forwards_to_find_bit_index_of_matching_word(bits, desired) ==
    LET words == {w \in 0 .. get_number_of_words - 1 : WordIsZero(bits, w) = desired}
    IN  IF words = {} THEN NOT_FOUND ELSE Min(words) * NUMBER_OF_WORD_BITS

slow_scan_forward(bits, begin, desired) ==
    LET found == {i \in begin .. BIT_CAPACITY - 1 : (i \in bits) = desired}
    IN  IF found = {} THEN NOT_FOUND ELSE Min(found)

scan_forward(bits, desired) ==
    LET begin == scan_forwards_to_find_bit_index_of_matching_word(bits, desired)
    IN  IF begin = NOT_FOUND THEN NOT_FOUND ELSE slow_scan_forward(bits, begin, desired)

slow_scan_backward(bits, begin, desired) ==
    LET found == {i \in 0 .. begin : (i \in bits) = desired}
    IN  IF found = {} THEN NOT_FOUND ELSE Max(found)

scan_backward(bits, desired) == slow_scan_backward(bits, BIT_CAPACITY - 1, desired)

set_region(bits, begin, length) == bits \cup (begin .. begin + length - 1)

clear_region(bits, begin, length) == bits \ (begin .. begin + length - 1)

-----------------------------------------------------------------------------
(***************************************************************************)
(* StaticStack: the bytes of the object, which is at an address, and the   *)
(* address of the top of the stack.                                        *)
(***************************************************************************)
EmptyStack(base, n) == [base |-> base, backing |-> [a \in 0 .. n - 1 |-> 0], stack_pointer |-> base + n]

CopyStack(other, base) ==
    [other EXCEPT !.base = base, !.stack_pointer = base + (other.stack_pointer - other.base)]

Push(stack, bytes) ==
    LET sp == stack.stack_pointer - Len(bytes)
        at == sp - stack.base
    IN  [stack EXCEPT !.stack_pointer = sp,
                      !.backing = [a \in DOMAIN @ |-> IF a \in at .. at + Len(bytes) - 1
                                                      THEN bytes[a - at + 1] ELSE @[a]]]

Peek(stack, n, delta) ==
    [k \in 1 .. n |-> LET a == stack.stack_pointer - stack.base + n * delta + k - 1
                      IN  IF a \in DOMAIN stack.backing THEN stack.backing[a] ELSE Unset]

Pop(stack, n) == [stack EXCEPT !.stack_pointer = @ + n]

-----------------------------------------------------------------------------
\* The output of a call that has room enough.
Ample == 1000

\* vsnprintf() "Returns the number of characters that would have been output if
\* the size had not been limited", for any size, and puts the characters that
\* fit into the buffer (stdio.h).  What vasprintf() makes is a part of the text.
PrintedUpToSize ==
    call.subject = "printf" =>
        LET full == vsnprintf(Ample, call.fmt, call.args)
            limited == vsnprintf(call.size, call.fmt, call.args)
        IN  /\ limited.i = full.i
            /\ limited.str = SubSeq(full.str, 1, Min({Len(full.str), call.size - 1}))
            /\ IsPrefix(vasprintf(call.fmt, call.args).result.str, full.str)

\* What is printed of a number reads back as that number, with the same base:
\* digits, their order and their signs agree between vsnprintf() and strtol().
\* The least int is an exception: it prints as "-".
NumbersReadBack ==
    call.subject = "number" =>
        LET text == vsnprintf(Ample, <<Percent, call.conversion>>, <<call.value>>).str
            read == strtol(text, call.base)
        IN  /\ read.value = call.value
            /\ read.end = Len(text) + 1

\* The digits at the start of a string, as a number.
Horner(s, base) == FoldLeft(LAMBDA acc, c : acc * base + get_digit_for_char(c), 0, s)

\* strtol() takes the longest run of digits after the sign and the prefix, and
\* nothing after it.
ReadsWholeNumber ==
    call.subject = "strtol" =>
        LET r == strtol(call.s, call.base)
            body == IF At(call.s, 1) \in {Plus, Minus} THEN Tail(call.s) ELSE call.s
            hex == At(body, 1) = Zero /\ At(body, 2) = LowerX
            base == CASE call.base # 0 -> call.base [] hex -> 16
                      [] At(body, 1) = Zero -> 8 [] OTHER -> 10
            digits == IF base = 16 /\ hex THEN SubSeq(body, 3, Len(body)) ELSE body
            valid == Max({k \in 0 .. Len(digits) :
                            \A j \in 1 .. k : is_valid_digit_for_char(digits[j], base)})
            value == Horner(SubSeq(digits, 1, valid), base)
        IN  r.value = IF At(call.s, 1) = Minus THEN -value ELSE value

\* memmove() leaves a copy of the source at the destination however the two
\* overlap, for no bytes too, where its index wraps, and changes nothing else.
\* memcpy() does so when they do not overlap.
MovesOverlapping ==
    call.subject = "memmove" =>
        LET mem == [a \in 0 .. call.top |-> a]
            copied == [a \in DOMAIN mem |-> IF a \in call.dst .. call.dst + call.n - 1
                                            THEN mem[a - call.dst + call.src] ELSE mem[a]]
        IN  /\ memmove(mem, call.dst, call.src, call.n) = copied
            /\ call.dst + call.n <= call.src \/ call.src + call.n <= call.dst =>
                 memcpy(mem, call.dst, call.src, call.n) = copied

Sign(n) == CASE n < 0 -> -1 [] n = 0 -> 0 [] OTHER -> 1

\* strstr() returns the first place where the needle is; strcmp(), strncmp() and
\* memcmp() agree on the order of strings.
StringsFound ==
    call.subject = "strings" =>
        LET places == {h \in 1 .. Len(call.s) + 1 :
                         \A j \in 1 .. Len(call.t) : At(call.s, h + j - 1) = call.t[j]}
            n == strnlen(call.s, strlen(call.t))
        IN  /\ strstr(call.s, 1, call.t) = (IF places = {} THEN 0 ELSE Min(places))
            /\ Sign(strncmp(call.s, call.t, n)) = Sign(memcmp(call.s, call.t, n))
            /\ (strcmp(call.s, call.t) = 0) = (call.s = call.t)
            /\ strncmp(call.s, call.t, n) # 0 =>
                 Sign(strcmp(call.s, call.t)) = Sign(memcmp(call.s, call.t, n))

\* A scan of a BitArray never returns a bit that has another value or is not of
\* the array; scan_backward() finds the last one if there is one.  That
\* scan_forward() finds the first one is not so.
ScansAreSound ==
    call.subject = "bits" =>
        \A desired \in BOOLEAN :
            LET forward == scan_forward(call.bits, desired)
                backward == scan_backward(call.bits, desired)
                matching == {i \in 0 .. BIT_CAPACITY - 1 : (i \in call.bits) = desired}
            IN  /\ forward \in matching \cup {NOT_FOUND}
                /\ backward = (IF matching = {} THEN NOT_FOUND ELSE Max(matching))
                /\ \A b, l \in 0 .. BIT_CAPACITY :
                     b + l <= BIT_CAPACITY =>
                        set_region(clear_region(call.bits, b, l), b, l) = set_region(call.bits, b, l)

\* A stack that is filled, copied to another address (as a thread's is), and
\* emptied gives every value back, the last one first, from its own bytes.
StackGivesBack ==
    call.subject = "stack" =>
        LET size == FoldLeft(LAMBDA acc, v : acc + Len(v), 0, call.values)
            filled == FoldLeft(Push, EmptyStack(100, size), call.values)
            copy == CopyStack(filled, 200)
            emptied == FoldRight(LAMBDA v, acc : [stack |-> Pop(acc.stack, Len(v)),
                                                  out |-> Append(acc.out, Peek(acc.stack, Len(v), 0))],
                                 call.values, [stack |-> copy, out |-> << >>])
        IN  /\ emptied.out = Reverse(call.values)
            /\ emptied.stack.stack_pointer = 200 + size

=============================================================================
