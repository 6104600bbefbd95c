----------------------------- MODULE Ownership -----------------------------
(***************************************************************************)
(* SharedPointer and UniquePointer: who owns an object, and when it is     *)
(* deleted.  The calls hold InterruptLocks and are single steps, except    *)
(* the destructor of a SharedPointer, which holds none: another thread may *)
(* run between its fetch_sub() and the deletions.                          *)
(*                                                                         *)
(* The memory is one record, and an operation maps memories to memories.   *)
(* Deleted objects and counts go back to the heap, which may give their    *)
(* addresses out again.                                                    *)
(***************************************************************************)
EXTENDS Integers, FiniteSets

CONSTANTS Shared, Unique,   \* the pointers, each of them a variable
          Counts,           \* addresses for count_
          Objects,          \* addresses for objects of the heap
          Statics,          \* objects that are not on the heap
          nullptr

\* An address is of one kind, and there are finitely many pointers.
ASSUME Addresses ==
    /\ IsFiniteSet(Shared)
    /\ nullptr \notin Counts \cup Objects \cup Statics
    /\ Objects \cap Statics = {}

VARIABLE memory

ownershipVars == <<memory>>

NotAlive == [state |-> "raw", data |-> nullptr, count |-> nullptr]

OwnershipInit ==
    memory = [shared |-> [s \in Shared |-> NotAlive],
              unique |-> [u \in Unique |-> [state |-> "raw", data |-> nullptr, should_leak |-> FALSE]],
              count |-> [c \in Counts |-> -1],     \* -1: not allocated
              object |-> [o \in Objects |-> FALSE], \* is there an object?
              misused |-> FALSE]   \* something was deleted that is not there

-----------------------------------------------------------------------------
(***************************************************************************)
(* The private operations.                                                 *)
(***************************************************************************)
delete_data(m, o) ==
    IF o = nullptr THEN m
    ELSE IF o \in Objects /\ m.object[o] THEN [m EXCEPT !.object[o] = FALSE]
    ELSE [m EXCEPT !.misused = TRUE]

delete_count(m, c) ==
    IF m.count[c] >= 0 THEN [m EXCEPT !.count[c] = -1] ELSE [m EXCEPT !.misused = TRUE]

\* A faulty one: the third owner is not counted.
acquire_unlocked_Mutant(m, s) ==
    IF m.shared[s].count = nullptr \/ m.count[m.shared[s].count] > 1 THEN m
    ELSE [m EXCEPT !.count[m.shared[s].count] = @ + 1]

acquire_unlocked(m, s) ==
    IF m.shared[s].count = nullptr THEN m
    ELSE [m EXCEPT !.count[m.shared[s].count] = @ + 1]

\* The first part of release_unlocked(): count_->fetch_sub(1).
fetch_sub(m, s) ==
    IF m.shared[s].count = nullptr THEN m
    ELSE [m EXCEPT !.count[m.shared[s].count] = @ - 1,
                   !.misused = @ \/ m.count[m.shared[s].count] <= 0]

\* Did it return 1?
IsLast(m, s) == m.shared[s].count # nullptr /\ m.count[m.shared[s].count] = 0

SetShared(m, s, state, data, count) ==
    [m EXCEPT !.shared[s] = [state |-> state, data |-> data, count |-> count]]

DeleteBoth(m, s) == delete_count(delete_data(m, m.shared[s].data), m.shared[s].count)

release_unlocked(m, s) ==
    LET sub == fetch_sub(m, s) IN
    SetShared(IF IsLast(sub, s) THEN DeleteBoth(sub, s) ELSE sub, s, "live", nullptr, nullptr)

release_unique(m, u) ==
    [(IF m.unique[u].should_leak THEN m ELSE delete_data(m, m.unique[u].data))
        EXCEPT !.unique[u].data = nullptr]

-----------------------------------------------------------------------------
(***************************************************************************)
(* SharedPointer.                                                          *)
(***************************************************************************)
FreshObjects == {o \in Objects : ~memory.object[o]}
FreshCounts == {c \in Counts : memory.count[c] = -1}
LiveShared == {s \in Shared : memory.shared[s].state = "live"}
LiveUnique == {u \in Unique : memory.unique[u].state = "live"}

\* SharedPointer(), and SharedPointer(Type*) with a new object.
ConstructShared(s) ==
    /\ memory.shared[s].state = "raw"
    /\ \/ memory' = SetShared(memory, s, "live", nullptr, nullptr)
       \/ \E o \in FreshObjects, c \in FreshCounts :
            memory' = SetShared([memory EXCEPT !.object[o] = TRUE, !.count[c] = 1], s, "live", o, c)

CopyConstruct(s, other) ==
    /\ memory.shared[s].state = "raw" /\ other \in LiveShared
    /\ memory' = acquire_unlocked(SetShared(memory, s, "live", memory.shared[other].data,
                                            memory.shared[other].count), s)

MoveConstruct(s, other) ==
    /\ memory.shared[s].state = "raw" /\ other \in LiveShared
    /\ memory' = SetShared(SetShared(memory, s, "live", memory.shared[other].data,
                                     memory.shared[other].count), other, "live", nullptr, nullptr)

\* operator=(const SharedPointer&), of another one.
CopyAssign(s, other) ==
    /\ {s, other} \subseteq LiveShared /\ s # other
    /\ LET m == release_unlocked(memory, s) IN
       memory' = acquire_unlocked(SetShared(m, s, "live", m.shared[other].data,
                                            m.shared[other].count), s)

MoveAssign(s, other) ==
    /\ {s, other} \subseteq LiveShared /\ s # other
    /\ LET m == release_unlocked(memory, s) IN
       memory' = SetShared(SetShared(m, s, "live", m.shared[other].data, m.shared[other].count),
                           other, "live", nullptr, nullptr)

\* set_should_leak() and the assignment of nullptr leave the UniquePointer
\* empty, and whatever it was told, the count of the new owner starts at 1.
FromUnique(m, s, u, c) ==
    [SetShared(m, s, "live", m.unique[u].data, c)
        EXCEPT !.count[c] = 1,
               !.unique[u] = [state |-> "live", data |-> nullptr, should_leak |-> FALSE]]

\* Callers convert what is on the heap.
Convertible(u) == u \in LiveUnique /\ memory.unique[u].data \notin Statics

ConstructFromUnique(s, u) ==
    /\ memory.shared[s].state = "raw" /\ Convertible(u)
    /\ \E c \in FreshCounts : memory' = FromUnique(memory, s, u, c)

AssignFromUnique(s, u) ==
    /\ s \in LiveShared /\ Convertible(u)
    /\ LET m == release_unlocked(memory, s) IN
       \E c \in {x \in Counts : m.count[x] = -1} : memory' = FromUnique(m, s, u, c)

\* ~SharedPointer(): the owner that finds itself the last one has to delete.
DestroyShared(s) ==
    /\ s \in LiveShared
    /\ LET m == fetch_sub(memory, s) IN
       memory' = IF IsLast(m, s) THEN [m EXCEPT !.shared[s].state = "last"]
                 ELSE [m EXCEPT !.shared[s] = NotAlive]

DeleteLast(s) ==
    /\ memory.shared[s].state = "last"
    /\ memory' = [DeleteBoth(memory, s) EXCEPT !.shared[s] = NotAlive]

-----------------------------------------------------------------------------
(***************************************************************************)
(* UniquePointer.                                                          *)
(***************************************************************************)
SetUnique(m, u, data, leak) ==
    [m EXCEPT !.unique[u] = [state |-> "live", data |-> data, should_leak |-> leak]]

\* With nothing, with a new object, or with one that is not on the heap,
\* followed by set_should_leak().
ConstructUnique(u) ==
    /\ memory.unique[u].state = "raw"
    /\ \/ memory' = SetUnique(memory, u, nullptr, FALSE)
       \/ \E o \in FreshObjects : memory' = SetUnique([memory EXCEPT !.object[o] = TRUE], u, o, FALSE)
       \/ \E o \in Statics : memory' = SetUnique(memory, u, o, TRUE)

Moved(m, u, other) ==
    SetUnique(SetUnique(m, u, m.unique[other].data, m.unique[other].should_leak),
              other, nullptr, FALSE)

MoveConstructUnique(u, other) ==
    /\ memory.unique[u].state = "raw" /\ other \in LiveUnique
    /\ memory' = Moved(memory, u, other)

MoveAssignUnique(u, other) ==
    /\ {u, other} \subseteq LiveUnique /\ u # other
    /\ memory' = Moved(release_unique(memory, u), u, other)

DestroyUnique(u) ==
    /\ u \in LiveUnique
    /\ memory' = [release_unique(memory, u) EXCEPT !.unique[u].state = "raw"]

-----------------------------------------------------------------------------
OwnershipNext ==
    \/ \E s \in Shared :
         \/ ConstructShared(s) \/ DestroyShared(s) \/ DeleteLast(s)
         \/ \E other \in Shared :
              \/ CopyConstruct(s, other) \/ MoveConstruct(s, other)
              \/ CopyAssign(s, other) \/ MoveAssign(s, other)
         \/ \E u \in Unique : ConstructFromUnique(s, u) \/ AssignFromUnique(s, u)
    \/ \E u \in Unique :
         \/ ConstructUnique(u) \/ DestroyUnique(u)
         \/ \E other \in Unique : MoveConstructUnique(u, other) \/ MoveAssignUnique(u, other)

OwnershipSpec == OwnershipInit /\ [][OwnershipNext]_ownershipVars

-----------------------------------------------------------------------------
\* A count is the number of the SharedPointers that have it (get_count()), of
\* which all have the same object; a count at 0 waits for the one thread whose
\* fetch_sub() returned 1.
CountIsOwners ==
    \A c \in Counts :
        LET owners == {s \in Shared : memory.shared[s].count = c} IN
        /\ \A s, t \in owners : memory.shared[s].data = memory.shared[t].data
        /\ IF memory.count[c] = -1 THEN owners = {}
           ELSE IF memory.count[c] = 0 THEN \E s \in owners : owners = {s} /\ s \notin LiveShared
           ELSE owners \subseteq LiveShared /\ memory.count[c] = Cardinality(owners)

\* An object is there as long as a pointer of either kind has it, and no
\* longer; no object has owners of both kinds or two counts, and nothing is
\* deleted twice.
OwnedIsAlive ==
    /\ ~memory.misused
    /\ \A o \in Objects :
         LET counts == {memory.shared[s].count : s \in {t \in Shared : memory.shared[t].data = o}}
             uniques == {u \in Unique : memory.unique[u].data = o}
         IN  Cardinality(counts) + Cardinality(uniques) = (IF memory.object[o] THEN 1 ELSE 0)

\* An object lives exactly as long as a SharedPointer or a UniquePointer has
\* it, and a count is the number of its owners, with the release of the last
\* one in two steps (shared_pointer.hpp, unique_pointer.hpp).
PointersOwn == CountIsOwners /\ OwnedIsAlive

=============================================================================
