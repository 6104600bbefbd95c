----------------------------- MODULE RingBuffer -----------------------------
(***************************************************************************)
(* RingBuffer<TYPE, CAPACITY> (Common/include/common/ring_buffer.hpp): a   *)
(* double-ended queue in a fixed array of uninitialised slots.  front_pos_ *)
(* and back_pos_ name the slots of the first and of the last element, and  *)
(* coincide when the buffer holds one element and also when it is empty.   *)
(*                                                                         *)
(* A slot is Raw (no object was constructed there, or it was destroyed),   *)
(* Moved (the moved-from object std::move leaves behind, still to be       *)
(* destroyed) or holds a value.                                            *)
(***************************************************************************)
EXTENDS Integers, Sequences

CONSTANTS Name,      \* the buffers, which are copied and moved into each other
          Value,     \* what the elements are
          CAPACITY

Raw == "raw"
Moved == "moved"

(* static_assert(CAPACITY > 0).                                            *)
ASSUME RingBufferAssumption ==
    /\ CAPACITY \in Nat \ {0}
    /\ Raw \notin Value
    /\ Moved \notin Value

VARIABLE ring  \* the fields of every buffer

Position == 0 .. CAPACITY - 1

Buffer == [slot : [Position -> Value \cup {Raw, Moved}],
           front_pos : Position, back_pos : Position, count : 0 .. CAPACITY]

TypeOK == ring \in [Name -> Buffer]

NewBuffer == [slot |-> [p \in Position |-> Raw], front_pos |-> 0, back_pos |-> 0, count |-> 0]

Init == ring = [n \in Name |-> NewBuffer]

(***************************************************************************)
(* CircularIndex.                                                          *)
(***************************************************************************)
Incremented(p) == (p + 1) % CAPACITY

Decremented(p) == IF p = 0 THEN CAPACITY - 1 ELSE (p - 1) % CAPACITY

(* index_at steps a cursor from the front, index times.                    *)
index_at(b, index) == (b.front_pos + index) % CAPACITY

empty(b) == b.count = 0

full(b) == b.count >= CAPACITY

at(b, i) == b.slot[index_at(b, i)]

(***************************************************************************)
(* The operations, on the fields of one buffer.                            *)
(***************************************************************************)
push_back(b, v) ==
    LET back == IF empty(b) THEN b.back_pos ELSE Incremented(b.back_pos)
    IN  IF full(b) THEN b
        ELSE [b EXCEPT !.back_pos = back, !.count = @ + 1, !.slot[back] = v]

push_front(b, v) ==
    LET front == IF empty(b) THEN b.front_pos ELSE Decremented(b.front_pos)
    IN  IF full(b) THEN b
        ELSE [b EXCEPT !.front_pos = front, !.count = @ + 1, !.slot[front] = v]

pop_back(b) ==
    [b EXCEPT !.slot[b.back_pos] = Raw,
              !.back_pos = IF b.count # 1 THEN Decremented(@) ELSE @,
              !.count = @ - 1]


pop_front(b) ==
    [b EXCEPT !.slot[b.front_pos] = Raw,
              !.front_pos = IF b.count # 1 THEN Incremented(@) ELSE @,
              !.count = @ - 1]

(* insert's loop: from the back, each element is move-constructed one slot *)
(* further and the object it leaves is destroyed.  After k rounds the      *)
(* elements from count - k on have been moved.                             *)
ShiftedBack(b, index) ==
    LET after[k \in 0 .. b.count - index] ==
            IF k = 0 THEN b.slot
            ELSE LET i == b.count - (k - 1)
                 IN  [after[k - 1] EXCEPT ![index_at(b, i)] = after[k - 1][index_at(b, i - 1)],
                                          ![index_at(b, i - 1)] = Raw]
    IN  after[b.count - index]

insert(b, index, v) ==
    IF full(b) THEN b
    ELSE IF index = 0 THEN push_front(b, v)
    ELSE IF index = b.count THEN push_back(b, v)
    ELSE [b EXCEPT !.back_pos = Incremented(@),
                   !.slot = [ShiftedBack(b, index) EXCEPT ![index_at(b, index)] = v],
                   !.count = @ + 1]

(* remove's loop: each element is destroyed and the next one is            *)
(* move-constructed in its place.  The last slot keeps its moved-from      *)
(* object, which nothing destroys.                                         *)
ShiftedFront(b, index) ==
    LET after[k \in 0 .. b.count - 1 - index] ==
            IF k = 0 THEN b.slot
            ELSE LET i == index + (k - 1)
                 IN  [after[k - 1] EXCEPT ![index_at(b, i)] = after[k - 1][index_at(b, i + 1)],
                                          ![index_at(b, i + 1)] = Moved]
    IN  after[b.count - 1 - index]

(* A faulty one, which takes the wrong end for the last index.             *)
remove_Mutant(b, index) ==
    IF index = 0 \/ index = b.count - 1 THEN pop_front(b)
    ELSE [b EXCEPT !.slot = ShiftedFront(b, index), !.back_pos = Decremented(@), !.count = @ - 1]

remove(b, index) ==
    IF index = 0 THEN pop_front(b)
    ELSE IF index = b.count - 1 THEN pop_back(b)
    ELSE [b EXCEPT !.slot = ShiftedFront(b, index),
                   !.back_pos = IF b.count # 1 THEN Decremented(@) ELSE @,
                   !.count = @ - 1]

(* clear pops from the front until the buffer is empty; the last pop       *)
(* leaves front_pos_ where it is.                                          *)
clear(b) ==
    LET after[k \in 0 .. b.count] == IF k = 0 THEN b ELSE pop_front(after[k - 1])
    IN  after[b.count]

(* Copy- and move-assignment into another buffer: clear it and push back   *)
(* each element.                                                           *)
Pushed(b, other) ==
    LET after[k \in 0 .. other.count] ==
            IF k = 0 THEN clear(b) ELSE push_back(after[k - 1], at(other, k - 1))
    IN  after[other.count]

(* The source of a move: its elements are moved from, then cleared.        *)
MovedFrom(other) ==
    clear([other EXCEPT !.slot = [p \in Position |->
        IF \E i \in 0 .. other.count - 1 : p = index_at(other, i) THEN Moved ELSE other.slot[p]]])

(***************************************************************************)
(* The calls.  The arguments satisfy the assertions the operations start   *)
(* with.                                                                   *)
(***************************************************************************)
PushBack(n, v) == ring' = [ring EXCEPT ![n] = push_back(@, v)]

PushFront(n, v) == ring' = [ring EXCEPT ![n] = push_front(@, v)]

PopBack(n) ==
    /\ ~empty(ring[n])
    /\ ring' = [ring EXCEPT ![n] = pop_back(@)]

PopFront(n) ==
    /\ ~empty(ring[n])
    /\ ring' = [ring EXCEPT ![n] = pop_front(@)]

Insert(n, index, v) ==
    /\ index <= ring[n].count
    /\ ring' = [ring EXCEPT ![n] = insert(@, index, v)]

Remove(n, index) ==
    /\ ~empty(ring[n])
    /\ index < ring[n].count
    /\ ring' = [ring EXCEPT ![n] = remove(@, index)]

Clear(n) == ring' = [ring EXCEPT ![n] = clear(@)]

CopyAssign(n, m) == ring' = IF n # m THEN [ring EXCEPT ![n] = Pushed(@, ring[m])] ELSE ring

MoveAssign(n, m) ==
    ring' = IF n # m THEN [ring EXCEPT ![n] = Pushed(@, ring[m]), ![m] = MovedFrom(@)] ELSE ring

(* The copy and the move constructor fill a buffer that has just been      *)
(* constructed.                                                            *)
CopyConstruct(n, m) ==
    /\ n # m
    /\ ring' = [ring EXCEPT ![n] = Pushed(NewBuffer, ring[m])]

MoveConstruct(n, m) ==
    /\ n # m
    /\ ring' = [ring EXCEPT ![n] = Pushed(NewBuffer, ring[m]), ![m] = MovedFrom(@)]

Next ==
    \E n \in Name :
        \/ \E v \in Value : PushBack(n, v)
        \/ \E v \in Value : PushFront(n, v)
        \/ PopBack(n)
        \/ PopFront(n)
        \/ \E index \in 0 .. CAPACITY, v \in Value : Insert(n, index, v)
        \/ \E index \in 0 .. CAPACITY - 1 : Remove(n, index)
        \/ Clear(n)
        \/ \E m \in Name : CopyAssign(n, m)
        \/ \E m \in Name : MoveAssign(n, m)
        \/ \E m \in Name : CopyConstruct(n, m)
        \/ \E m \in Name : MoveConstruct(n, m)

Spec == Init /\ [][Next]_ring
-----------------------------------------------------------------------------
(***************************************************************************)
(* What the buffers are asked: the ends of one that is not empty, and      *)
(* whether two have equal elements.                                        *)
(***************************************************************************)
front(b) == b.slot[b.front_pos]

back(b) == b.slot[b.back_pos]

equals(b, other) ==
    /\ other.count = b.count
    /\ \A i \in 0 .. b.count - 1 : at(other, i) = at(b, i)

(***************************************************************************)
(* Properties.                                                             *)
(***************************************************************************)
(* The slots of the elements, from front_pos_ on.                          *)
Occupied(b) == {index_at(b, i) : i \in 0 .. b.count - 1}

Contents(b) == [i \in 1 .. b.count |-> at(b, i - 1)]

\* However the buffer was pushed, popped, shifted, copied and moved, back_pos_
\* is where the last element is: the pushes, back() and pop_back() use it
\* without looking at count_.  So front() and back() are the ends of what at()
\* gives, and buffers are equal when these are, wherever in their slots.
BackIsLast ==
    \A n \in Name :
        /\ ring[n].back_pos = IF empty(ring[n]) THEN ring[n].front_pos
                              ELSE index_at(ring[n], ring[n].count - 1)
        /\ ~empty(ring[n]) => /\ front(ring[n]) = Head(Contents(ring[n]))
                              /\ back(ring[n]) = Contents(ring[n])[ring[n].count]
        /\ \A m \in Name : equals(ring[n], ring[m]) = (Contents(ring[n]) = Contents(ring[m]))

\* The slots of the elements hold objects and no other slot does: whatever was
\* popped, removed or moved has been destroyed or moved from.
LiveSlots ==
    \A n \in Name : {p \in Position : ring[n].slot[p] \in Value} = Occupied(ring[n])

D == INSTANCE Deque WITH items <- [n \in Name |-> Contents(ring[n])]

\* Each call does to the elements what it does to a bounded queue, across the
\* wrap-around of both positions: order is kept, and only a push into a full
\* buffer is dropped.
ImplementsDeque ==
    [][\A n \in Name :
        /\ \A v \in Value : PushBack(n, v) => D!PushBack(n, v)
        /\ \A v \in Value : PushFront(n, v) => D!PushFront(n, v)
        /\ PopBack(n) => D!PopBack(n)
        /\ PopFront(n) => D!PopFront(n)
        /\ \A i \in 0 .. CAPACITY, v \in Value : Insert(n, i, v) => D!Insert(n, i, v)
        /\ \A i \in 0 .. CAPACITY - 1 : Remove(n, i) => D!Remove(n, i)
        /\ Clear(n) => D!Clear(n)
        /\ \A m \in Name : CopyAssign(n, m) \/ CopyConstruct(n, m) => D!Copy(n, m)
        /\ \A m \in Name : MoveAssign(n, m) \/ MoveConstruct(n, m) => D!Move(n, m)]_ring

=============================================================================
