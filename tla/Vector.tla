------------------------------- MODULE Vector -------------------------------
(***************************************************************************)
(* Vector<T> (Common/include/common/vector.hpp): elements at the beginning *)
(* of a heap array that is replaced by one of twice the size when it is    *)
(* full.  A slot is Raw (nothing was constructed there), Moved (it holds   *)
(* the object std::move leaves behind) or holds a value.                   *)
(***************************************************************************)
EXTENDS Naturals, Sequences, FiniteSets

CONSTANTS Name, Value,
          MAX_ITEMS  \* how many elements the instance lets a vector have

Raw == "raw"
Moved == "moved"

GROWTH_FACTOR == 2

VARIABLE vector

MaxCapacity == GROWTH_FACTOR * MAX_ITEMS

TypeOK ==
    \A n \in Name :
        /\ vector[n].count \in 0 .. MAX_ITEMS
        /\ \E capacity \in vector[n].count .. MaxCapacity :
               vector[n].data \in [0 .. capacity - 1 -> Value \cup {Raw, Moved}]

NewVector == [data |-> << >>, count |-> 0]

Init == vector = [n \in Name |-> NewVector]

(* The indices of the array are 0 .. capacity - 1.                         *)
capacity_(v) == Cardinality(DOMAIN v.data)

(* reserve moves the elements to the new array and deletes the old one.    *)
reserve(v, new_capacity) ==
    IF new_capacity > capacity_(v)
    THEN [v EXCEPT !.data = [i \in 0 .. new_capacity - 1 |-> IF i < v.count THEN v.data[i] ELSE Raw]]
    ELSE v

increase_capacity_for_insertion(v) ==
    IF capacity_(v) = 0 THEN reserve(v, 1)
    ELSE IF v.count = capacity_(v) THEN reserve(v, v.count * GROWTH_FACTOR)
    ELSE v

(* insert's loop, from the back: an element is move-constructed one place  *)
(* further, and what it leaves is destroyed.                               *)
ShiftedBack(v, index) ==
    LET after[k \in 0 .. v.count - index] ==
            IF k = 0 THEN v.data
            ELSE LET i == v.count - (k - 1)
                 IN  [after[k - 1] EXCEPT ![i] = after[k - 1][i - 1], ![i - 1] = Raw]
    IN  after[v.count - index]

insert(v, index, x) ==
    LET grown == increase_capacity_for_insertion(v)
    IN  [grown EXCEPT !.data = [ShiftedBack(grown, index) EXCEPT ![index] = x], !.count = @ + 1]

(* remove's loop: an element is destroyed and the next one is              *)
(* move-constructed in its place.  Nothing destroys the last one.          *)
ShiftedFront(v, index) ==
    LET after[k \in 0 .. v.count - 1 - index] ==
            IF k = 0 THEN v.data
            ELSE LET i == index + (k - 1)
                 IN  [after[k - 1] EXCEPT ![i] = after[k - 1][i + 1], ![i + 1] = Moved]
    IN  after[v.count - 1 - index]

removed(v, index) == [v EXCEPT !.data = ShiftedFront(v, index), !.count = @ - 1]

(* The copy has an array that its elements fill; each is assigned into     *)
(* memory in which no object was constructed.                              *)
Copied(v) == [data |-> [i \in 0 .. v.count - 1 |-> v.data[i]], count |-> v.count]

(***************************************************************************)
(* The calls.                                                              *)
(***************************************************************************)
Insert(n, index, x) ==
    /\ vector[n].count < MAX_ITEMS
    /\ index <= vector[n].count
    /\ vector' = [vector EXCEPT ![n] = insert(@, index, x)]

push_back(n, x) == Insert(n, vector[n].count, x)

push_front(n, x) == Insert(n, 0, x)

Remove(n, index) ==
    /\ index < vector[n].count
    /\ vector' = [vector EXCEPT ![n] = removed(@, index)]

pop_back(n) ==
    /\ vector[n].count > 0
    /\ Remove(n, vector[n].count - 1)

pop_front(n) == Remove(n, 0)

Reserve(n, new_capacity) == vector' = [vector EXCEPT ![n] = reserve(@, new_capacity)]

(* The copy constructor and copy-assignment; the move constructor and      *)
(* move-assignment, which take the other's array.                          *)
Copy(n, m) == vector' = IF n # m THEN [vector EXCEPT ![n] = Copied(vector[m])] ELSE vector

Move(n, m) ==
    vector' = IF n # m THEN [vector EXCEPT ![n] = vector[m], ![m] = NewVector] ELSE vector

Next ==
    \E n \in Name :
        \/ \E x \in Value : push_back(n, x)
        \/ \E x \in Value : push_front(n, x)
        \/ \E index \in 0 .. MAX_ITEMS, x \in Value : Insert(n, index, x)
        \/ \E index \in 0 .. MAX_ITEMS : Remove(n, index)
        \/ pop_back(n)
        \/ pop_front(n)
        \/ Reserve(n, MAX_ITEMS)
        \/ \E m \in Name : Copy(n, m)
        \/ \E m \in Name : Move(n, m)

Spec == Init /\ [][Next]_vector
-----------------------------------------------------------------------------
(***************************************************************************)
(* Properties.                                                             *)
(***************************************************************************)
Contents(v) == [i \in 1 .. v.count |-> v.data[i - 1]]

\* Every element is an object, never raw memory or one that was moved from,
\* however the array was grown and its elements shifted.
ElementsLive == \A n \in Name : \A i \in 0 .. vector[n].count - 1 : vector[n].data[i] \in Value

D == INSTANCE Deque WITH CAPACITY <- MAX_ITEMS, items <- [n \in Name |-> Contents(vector[n])]

\* Each call does to the elements what it does to a sequence; reserve() and the
\* growth of the array change none of them.
VectorImplementsDeque ==
    [][\A n \in Name :
        /\ \A i \in 0 .. MAX_ITEMS, x \in Value : Insert(n, i, x) => D!Insert(n, i, x)
        /\ \A i \in 0 .. MAX_ITEMS : Remove(n, i) => D!Remove(n, i)
        /\ Reserve(n, MAX_ITEMS) => D!Keep
        /\ \A m \in Name : Copy(n, m) => D!Copy(n, m)
        /\ \A m \in Name : Move(n, m) => D!Move(n, m)]_vector

=============================================================================
