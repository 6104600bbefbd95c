-------------------------------- MODULE Heap --------------------------------
(***************************************************************************)
(* What MemoryAllocator promises its callers: allocations that lie inside  *)
(* the region it was given and never overlap, each of at least the size    *)
(* that was asked for, until they are freed.  A request may always be      *)
(* refused.  MallocZone is shown to implement this module.                 *)
(***************************************************************************)
EXTENDS Integers, Functions

CONSTANTS Low, High   \* the region: addresses Low .. High - 1

VARIABLE allocated    \* allocated[p]: the size promised at pointer p

\* Function f, with x mapped to v.
With(f, x, v) == [y \in DOMAIN f \cup {x} |-> IF y = x THEN v ELSE f[y]]
Without(f, x) == Restrict(f, DOMAIN f \ {x})

\* n bytes at p are inside the region and apart from the allocations in held.
Fits(held, p, n) ==
    /\ Low <= p /\ p + n <= High
    /\ \A q \in DOMAIN held : q # p /\ (p + n <= q \/ q + held[q] <= p)

HeapInit == allocated = << >>

Give(p, n) ==
    /\ Fits(allocated, p, n)
    /\ allocated' = With(allocated, p, n)

Take(p) == allocated' = Without(allocated, p)

\* The allocation at p becomes one of n bytes at q, which may overlap it.
Resize(p, q, n) ==
    /\ Fits(Without(allocated, p), q, n)
    /\ allocated' = With(Without(allocated, p), q, n)

HeapNext ==
    \/ \E p \in DOMAIN allocated' : Give(p, allocated'[p])
    \/ \E p \in DOMAIN allocated : Take(p)
    \/ \E p \in DOMAIN allocated, q \in DOMAIN allocated' : Resize(p, q, allocated'[q])

HeapSpec == HeapInit /\ [][HeapNext]_allocated

=============================================================================
