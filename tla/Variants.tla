------------------------------ MODULE Variants ------------------------------
(***************************************************************************)
(* Either<Left, Right>, and Optional and Expected which are built on it.   *)
(* An Either is a union of two objects, constructed and destroyed by hand, *)
(* and a flag that says which of them is there.  An Optional is an Either  *)
(* of None and a value, an Expected one of an Error and a value.           *)
(*                                                                         *)
(* A variant is a variable of the program: raw memory before it is         *)
(* constructed and after its destructor.  A move leaves an object that is  *)
(* still there, but has no value any more.                                 *)
(***************************************************************************)
EXTENDS FiniteSets

CONSTANTS Names,      \* the variants
          Lefts, Rights,  \* the values of either type
          None, Monostate, Moved,
          Functions   \* what is given to map() and and_then()

VARIABLES kind,       \* "either", "optional" or "expected", for a behaviour
          variant,    \* variant[n]: is_left_ and what is in the union
          misused     \* an object was destroyed, or read, that is not there

variantVars == <<kind, variant, misused>>

Empty == [side |-> "none", value |-> Moved]

LeftValues == IF kind = "optional" THEN {None} ELSE Lefts

VariantsInit ==
    /\ kind \in {"either", "optional", "expected"}
    /\ variant = [n \in Names |-> [alive |-> FALSE, is_left |-> FALSE, union |-> Empty]]
    /\ misused = FALSE

-----------------------------------------------------------------------------
(***************************************************************************)
(* Either.                                                                 *)
(***************************************************************************)
SideOf(v) == IF v.is_left THEN "left" ELSE "right"

\* destruct() of a variant that has its object.
CanDestruct(v) == v.union.side = SideOf(v)

\* The placement new of an object.
Put(is_left, value) ==
    [alive |-> TRUE, is_left |-> is_left,
     union |-> [side |-> IF is_left THEN "left" ELSE "right", value |-> value]]

\* What is left of one whose object was moved away.
MovedFrom(v) == [v EXCEPT !.union.value = Moved]

Construct(n, is_left, value) ==
    /\ ~variant[n].alive
    /\ variant' = [variant EXCEPT ![n] = Put(is_left, value)]
    /\ UNCHANGED <<kind, misused>>


CopyConstructVariant(n, other) ==
    /\ ~variant[n].alive /\ variant[other].alive
    /\ variant' = [variant EXCEPT ![n] = Put(variant[other].is_left, variant[other].union.value)]
    /\ misused' = (misused \/ variant[other].union.side # SideOf(variant[other]))
    /\ UNCHANGED kind

MoveConstructVariant(n, other) ==
    /\ ~variant[n].alive /\ variant[other].alive
    /\ variant' = [variant EXCEPT ![n] = Put(variant[other].is_left, variant[other].union.value),
                                  ![other] = MovedFrom(@)]
    /\ misused' = (misused \/ variant[other].union.side # SideOf(variant[other]))
    /\ UNCHANGED kind

\* operator= of a left or a right value, which is not in the variant itself.
AssignValue(n, is_left, value) ==
    /\ variant[n].alive
    /\ misused' = (misused \/ ~CanDestruct(variant[n]))
    /\ variant' = [variant EXCEPT ![n] = Put(is_left, value)]
    /\ UNCHANGED kind

\* operator= of another variant; of itself it does nothing.
AssignCopy(n, other) ==
    /\ variant[n].alive /\ variant[other].alive /\ n # other
    /\ misused' = (misused \/ ~CanDestruct(variant[n]) \/ ~CanDestruct(variant[other]))
    /\ variant' = [variant EXCEPT ![n] = Put(variant[other].is_left, variant[other].union.value)]
    /\ UNCHANGED kind

AssignMove(n, other) ==
    /\ variant[n].alive /\ variant[other].alive /\ n # other
    /\ misused' = (misused \/ ~CanDestruct(variant[n]) \/ ~CanDestruct(variant[other]))
    /\ variant' = [variant EXCEPT ![n] = Put(variant[other].is_left, variant[other].union.value),
                                  ![other] = MovedFrom(@)]
    /\ UNCHANGED kind

Destroy(n) ==
    /\ variant[n].alive
    /\ misused' = (misused \/ ~CanDestruct(variant[n]))
    /\ variant' = [variant EXCEPT ![n].alive = FALSE, ![n].union = Empty]
    /\ UNCHANGED kind

equals_value(v, is_left, value) == v.is_left = is_left /\ v.union.value = value

equals(v, w) == v.is_left = w.is_left /\ v.union.value = w.union.value

differs(v, w) == v.is_left # w.is_left \/ v.union.value # w.union.value

-----------------------------------------------------------------------------
(***************************************************************************)
(* What Optional and Expected have in common.  A function is a record: the *)
(* variant it returns for every value, and whether it returns void; for    *)
(* map() it returns a value.  One without arguments is called where the    *)
(* value is a Monostate.                                                   *)
(***************************************************************************)
has_value(v) == ~v.is_left

get_left(v) == v.union.value

get_right(v) == v.union.value

get_value(v) == get_right(v)

Call(fn, v) == fn.result[get_value(v)]

\* fn returns void: the variants of map_impl() with and without an argument.
map_impl_returns_void(v, fn) ==
    IF has_value(v) THEN Put(FALSE, Monostate) ELSE Put(TRUE, get_left(v))

map_impl_returns_nonvoid(v, fn) ==
    IF has_value(v) THEN Put(FALSE, Call(fn, v).union.value) ELSE Put(TRUE, get_left(v))

ReturnsValue(fn) == \A x \in DOMAIN fn.result : has_value(fn.result[x])

map_impl(v, fn) ==
    IF fn.void THEN map_impl_returns_void(v, fn) ELSE map_impl_returns_nonvoid(v, fn)

and_then_impl_returns_nonvoid(v, fn) ==
    IF has_value(v) THEN Call(fn, v) ELSE Put(TRUE, get_left(v))

and_then_impl(v, fn) ==
    IF fn.void THEN map_impl_returns_void(v, fn) ELSE and_then_impl_returns_nonvoid(v, fn)

\* or_else() runs fn if there is no value, and returns the variant.
or_else_impl(v) == [called |-> ~has_value(v), returned |-> v]

\* Expected: the function makes another error of an error.
map_error(v, fn) == IF has_value(v) THEN v ELSE Put(TRUE, fn[v.union.value])

-----------------------------------------------------------------------------
(***************************************************************************)
(* The operations on the variables of a program.  Those of Optional and    *)
(* Expected forward to those of Either.                                    *)
(***************************************************************************)
\* Expected is assigned as a whole: it has no operator= for values.
Assignable == kind # "expected"

\* Optional's reset(), operator=(const None&) included.
reset(n) == kind = "optional" /\ AssignValue(n, TRUE, None)

\* The results of map(), and_then() and or_else() are new variants.  Of one that
\* is given up, and_then() gives the function the value to take, and or_else()
\* returns what is in it.
and_then(n, other, fn) ==
    \/ variant' = [variant EXCEPT ![n] = and_then_impl(variant[other], fn)]
    \/ /\ has_value(variant[other])
       /\ variant' = [variant EXCEPT ![n] = and_then_impl(variant[other], fn), ![other] = MovedFrom(@)]

or_else(n, other) ==
    \/ variant' = [variant EXCEPT ![n] = or_else_impl(variant[other]).returned]
    \/ variant' = [variant EXCEPT ![n] = or_else_impl(variant[other]).returned, ![other] = MovedFrom(@)]

Chain(n, other) ==
    /\ kind # "either" /\ ~variant[n].alive /\ variant[other].alive
    /\ \/ \E fn \in Functions :
             \/ ReturnsValue(fn) /\ variant' = [variant EXCEPT ![n] = map_impl(variant[other], fn)]
             \/ and_then(n, other, fn)
       \/ or_else(n, other)
    /\ misused' = (misused \/ ~CanDestruct(variant[other]))
    /\ UNCHANGED kind

ChainError(n, other) ==
    /\ kind = "expected" /\ ~variant[n].alive /\ variant[other].alive
    /\ \E e \in Lefts : variant' = [variant EXCEPT
            ![n] = map_error(variant[other], [x \in Lefts \cup {Moved} |-> e])]
    /\ misused' = (misused \/ ~CanDestruct(variant[other]))
    /\ UNCHANGED kind

VariantsNext ==
    \E n \in Names :
        \/ \E x \in LeftValues : Construct(n, TRUE, x)
        \/ \E x \in Rights : Construct(n, FALSE, x)
        \/ Assignable /\ \E x \in Rights : AssignValue(n, FALSE, x)
        \/ kind = "either" /\ \E x \in Lefts : AssignValue(n, TRUE, x)
        \/ reset(n)
        \/ Destroy(n)
        \/ \E other \in Names :
             \/ CopyConstructVariant(n, other)
             \/ MoveConstructVariant(n, other)
             \/ AssignCopy(n, other)
             \/ AssignMove(n, other)
             \/ Chain(n, other)
             \/ ChainError(n, other)

VariantsSpec == VariantsInit /\ [][VariantsNext]_variantVars

-----------------------------------------------------------------------------
\* The union of a variant holds the object that is_left_ says, from its
\* constructor to its destructor and through every assignment, so that no
\* object is destroyed that is not there, and none is left behind; == is equality
\* of what is held, and != its negation (either.hpp).
AlternativeIsThere ==
    /\ ~misused
    /\ \A n \in Names :
         IF variant[n].alive THEN CanDestruct(variant[n]) ELSE variant[n].union = Empty
    /\ \A n, m \in {k \in Names : variant[k].alive} :
         /\ equals(variant[n], variant[m]) = (variant[n].union = variant[m].union)
         /\ differs(variant[n], variant[m]) = ~equals(variant[n], variant[m])

\* One function after the other.
Then(f, g) ==
    [void |-> g.void,
     result |-> [x \in DOMAIN f.result |-> and_then_impl(f.result[x], g)]]

\* "This method can be chained with other calls": it makes no difference whether
\* the functions of a chain are given one by one or as one function, an error
\* goes through a chain as it is, and or_else() runs for errors only.
ChainsCompose ==
    \A n \in {k \in Names : variant[k].alive} :
        LET v == variant[n] IN
        /\ \A f, g \in {h \in Functions : ~h.void} :
             and_then_impl(and_then_impl(v, f), g) = and_then_impl(v, Then(f, g))
        /\ \A f \in Functions :
             ~has_value(v) => map_impl(v, f) = v /\ and_then_impl(v, f) = v
        /\ \A f \in {h \in Functions : ReturnsValue(h)} :
             map_impl(v, f) = and_then_impl(v, f)
        /\ or_else_impl(v).called = v.is_left

=============================================================================
