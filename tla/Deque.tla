------------------------------- MODULE Deque --------------------------------
(***************************************************************************)
(* What the containers promise: a family of double-ended queues that also  *)
(* insert and remove at any index.  An insertion into a full queue leaves  *)
(* it as it is; nothing else is ever dropped.  RingBuffer, Vector and      *)
(* LinkedList implement it, the last two with no limit but the instance's. *)
(***************************************************************************)
EXTENDS Naturals, Sequences

CONSTANTS Name, CAPACITY

VARIABLE items

(* The first i elements, and those from index i on.                       *)
Before(s, i) == SubSeq(s, 1, i)

From(s, i) == SubSeq(s, i + 1, Len(s))

Insert(n, i, v) ==
    /\ i <= Len(items[n])
    /\ items' = IF Len(items[n]) < CAPACITY
                THEN [items EXCEPT ![n] = Before(@, i) \o <<v>> \o From(@, i)]
                ELSE items

PushBack(n, v) == Insert(n, Len(items[n]), v)

PushFront(n, v) == Insert(n, 0, v)

Remove(n, i) ==
    /\ i < Len(items[n])
    /\ items' = [items EXCEPT ![n] = Before(@, i) \o From(@, i + 1)]

PopBack(n) == Len(items[n]) > 0 /\ Remove(n, Len(items[n]) - 1)

PopFront(n) == Remove(n, 0)

Clear(n) == items' = [items EXCEPT ![n] = <<>>]

Copy(n, m) == items' = [items EXCEPT ![n] = items[m]]

Move(n, m) == items' = IF n = m THEN items ELSE [items EXCEPT ![n] = items[m], ![m] = <<>>]

(* A change of the array that holds the elements.                          *)
Keep == items' = items

=============================================================================
