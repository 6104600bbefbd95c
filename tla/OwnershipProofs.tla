--------------------------- MODULE OwnershipProofs --------------------------
(***************************************************************************)
(* Whoever owns an object keeps it alive, for any number of pointers,      *)
(* objects and counts.                                                     *)
(***************************************************************************)
EXTENDS Ownership, FiniteSetTheorems, TLAPS

Memories ==
    [shared : [Shared -> [state : {"raw", "live", "last"}, data : Objects \cup {nullptr},
                          count : Counts \cup {nullptr}]],
     unique : [Unique -> [state : {"raw", "live"}, data : Objects \cup Statics \cup {nullptr},
                          should_leak : BOOLEAN]],
     count : [Counts -> Int],
     object : [Objects -> BOOLEAN],
     misused : {FALSE}]

Owners(m, c) == {s \in Shared : m.shared[s].count = c}

\* What is in the variables goes together.
SharedShapes(m) ==
    \A s \in Shared :
        /\ m.shared[s].state = "raw" => m.shared[s].count = nullptr
        /\ m.shared[s].state = "last" => m.shared[s].count # nullptr
        /\ m.shared[s].count = nullptr => m.shared[s].data = nullptr

UniqueShapes(m) ==
    \A u \in Unique :
        /\ m.unique[u].state = "raw" => m.unique[u].data = nullptr
        /\ m.unique[u].data \in Statics => m.unique[u].should_leak
        /\ m.unique[u].should_leak => m.unique[u].data \notin Objects

Shapes(m) == SharedShapes(m) /\ UniqueShapes(m)

\* CountIsOwners of one count.
Counted(m, c) ==
    /\ \A s, t \in Owners(m, c) : m.shared[s].data = m.shared[t].data
    /\ m.count[c] >= -1
    /\ m.count[c] = -1 => Owners(m, c) = {}
    /\ m.count[c] = 0 => \E s \in Shared : Owners(m, c) = {s} /\ m.shared[s].state # "live"
    /\ m.count[c] > 0 => /\ \A s \in Owners(m, c) : m.shared[s].state = "live"
                         /\ m.count[c] = Cardinality(Owners(m, c))

\* An object has one count or one UniquePointer, and only then is it there.
Owned(m) ==
    /\ \A s \in Shared : m.shared[s].data # nullptr => m.object[m.shared[s].data]
    /\ \A u \in Unique : m.unique[u].data \in Objects => m.object[m.unique[u].data]
    /\ \A s, t \in Shared :
         m.shared[s].data # nullptr /\ m.shared[s].data = m.shared[t].data
           => m.shared[s].count = m.shared[t].count
    /\ \A s \in Shared, u \in Unique :
         m.shared[s].data # nullptr => m.shared[s].data # m.unique[u].data
    /\ \A u, v \in Unique :
         m.unique[u].data \in Objects /\ m.unique[u].data = m.unique[v].data => u = v
    /\ \A o \in Objects :
         m.object[o] => \/ \E s \in Shared : m.shared[s].data = o
                        \/ \E u \in Unique : m.unique[u].data = o

Sound(m) == m \in Memories /\ Shapes(m) /\ (\A c \in Counts : Counted(m, c)) /\ Owned(m)

OwnershipInv == Sound(memory)

-----------------------------------------------------------------------------
\* A set of owners with one more and with one less.
LEMMA OneMore ==
    ASSUME NEW S, IsFiniteSet(S), NEW x, x \notin S
    PROVE  Cardinality(S \cup {x}) = Cardinality(S) + 1 /\ Cardinality(S) \in Nat
  BY FS_AddElement, FS_CardinalityType, Zenon

LEMMA OneLess ==
    ASSUME NEW S, IsFiniteSet(S), NEW x \in S
    PROVE  Cardinality(S \ {x}) = Cardinality(S) - 1 /\ Cardinality(S) \in Nat
  BY FS_RemoveElement, FS_CardinalityType, Zenon

LEMMA OwnersFinite ==
    ASSUME NEW m, NEW c
    PROVE  IsFiniteSet(Owners(m, c)) /\ Owners(m, c) \subseteq Shared
  BY FS_Subset, Addresses, Zenon DEF Owners

LEMMA OnlyOne ==
    ASSUME NEW S, IsFiniteSet(S), NEW x \in S, Cardinality(S) = 1
    PROVE  S = {x}
  BY FS_Singleton

\* A count that a live pointer has is the number of its owners.
LEMMA LiveCounted ==
    ASSUME NEW m, Sound(m), NEW s \in Shared, m.shared[s].state = "live",
           m.shared[s].count # nullptr
    PROVE  LET c == m.shared[s].count IN
           /\ c \in Counts /\ s \in Owners(m, c) /\ m.count[c] \in Nat \ {0}
           /\ m.count[c] = Cardinality(Owners(m, c))
           /\ m.count[c] = 1 => Owners(m, c) = {s}
<1> DEFINE c == m.shared[s].count
<1>1. c \in Counts /\ s \in Owners(m, c) /\ m.count[c] \in Int /\ Counted(m, c)
  BY Zenon DEF Sound, Memories, Owners
<1>2. m.count[c] # -1 /\ m.count[c] # 0
  BY <1>1, Zenon DEF Counted
<1>3. m.count[c] \in Nat \ {0} /\ m.count[c] = Cardinality(Owners(m, c))
  BY <1>1, <1>2 DEF Counted
<1>4. m.count[c] = 1 => Owners(m, c) = {s}
  BY <1>1, <1>3, OwnersFinite, OnlyOne, Zenon
<1> QED
  BY <1>1, <1>3, <1>4, Zenon

-----------------------------------------------------------------------------
\* One SharedPointer changes from m to n, with the rest of the memory.
Changed(m, n, s) ==
    /\ n \in Memories /\ n.unique = m.unique
    /\ \A x \in Shared \ {s} : n.shared[x] = m.shared[x]

\* It lets go of what it has.
Emptied(m, n, s, state) ==
    /\ Changed(m, n, s)
    /\ n.shared[s].state = state /\ n.shared[s].data = nullptr /\ n.shared[s].count = nullptr

\* A count that neither the step nor its owners' change concerns.
KeptOutside(m, n, S) == \A x \in Shared \ S : n.shared[x] = m.shared[x]

LEMMA KeptCounted ==
    ASSUME NEW m, NEW n, NEW S, NEW c \in Counts, Counted(m, c), KeptOutside(m, n, S),
           n.count[c] = m.count[c], \A x \in S : m.shared[x].count # c /\ n.shared[x].count # c
    PROVE  Counted(n, c)
<1>1. Owners(n, c) = Owners(m, c) /\ \A x \in Owners(m, c) : n.shared[x] = m.shared[x]
  BY Zenon DEF KeptOutside, Owners
<1>2. /\ \A x, y \in Owners(n, c) : n.shared[x].data = n.shared[y].data
      /\ n.count[c] = 0 => \E x \in Shared : Owners(n, c) = {x} /\ n.shared[x].state # "live"
      /\ n.count[c] > 0 => \A x \in Owners(n, c) : n.shared[x].state = "live"
  BY <1>1, Zenon DEF Counted
<1> QED
  BY <1>1, <1>2, Zenon DEF Counted

LEMMA SameOwners ==
    ASSUME NEW m, NEW n, NEW s \in Shared, NEW c \in Counts, Counted(m, c), Changed(m, n, s),
           n.count[c] = m.count[c], m.shared[s].count # c, n.shared[s].count # c
    PROVE  Counted(n, c)
<1>1. KeptOutside(m, n, {s})
  BY Zenon DEF KeptOutside, Changed
<1> QED
  BY <1>1, KeptCounted

\* What fetch_sub() does to the memory.
Recounted(m, n, c, k) ==
    /\ n \in Memories /\ n.shared = m.shared /\ n.unique = m.unique /\ n.object = m.object
    /\ n.count[c] = m.count[c] + k /\ \A d \in Counts \ {c} : n.count[d] = m.count[d]

LEMMA Subtracted ==
    ASSUME NEW m \in Memories, NEW s \in Shared, m.shared[s].count \in Counts,
           m.shared[s].count # nullptr, m.count[m.shared[s].count] > 0
    PROVE  Recounted(m, fetch_sub(m, s), m.shared[s].count, -1)
<1> DEFINE n == fetch_sub(m, s)
           c == m.shared[s].count
<1>1. n = [m EXCEPT !.count[c] = @ - 1, !.misused = @ \/ m.count[c] <= 0]
  BY Zenon DEF fetch_sub
<1>2. /\ m.count \in [Counts -> Int] /\ m.misused = FALSE
      /\ DOMAIN m = {"shared", "unique", "count", "object", "misused"}
  BY Zenon DEF Memories
<1>3. ~(m.count[c] <= 0)
  BY <1>2
<1>4. /\ n.shared = m.shared /\ n.unique = m.unique /\ n.object = m.object
      /\ n.count = [m.count EXCEPT ![c] = @ - 1]
  BY <1>1, <1>2, Zenon
<1>5. n.misused = FALSE
  BY <1>1, <1>2, <1>3, Zenon
<1>6. n.count \in [Counts -> Int] /\ n.count[c] = m.count[c] - 1
      /\ \A d \in Counts \ {c} : n.count[d] = m.count[d]
  BY <1>2, <1>4
<1>7. n = [shared |-> n.shared, unique |-> n.unique, count |-> n.count, object |-> n.object,
           misused |-> n.misused]
  BY <1>1, <1>2, Zenon
<1>8. n \in Memories
  BY <1>4, <1>5, <1>6, <1>7, Zenon DEF Memories
<1> QED
  BY <1>2, <1>4, <1>6, <1>8, Zenon DEF Recounted

\* acquire_unlocked() has the opposite effect.
LEMMA Added ==
    ASSUME NEW m \in Memories, NEW s \in Shared, m.shared[s].count \in Counts,
           m.shared[s].count # nullptr
    PROVE  Recounted(m, acquire_unlocked(m, s), m.shared[s].count, 1)
<1> DEFINE n == acquire_unlocked(m, s)
           c == m.shared[s].count
<1>1. n = [m EXCEPT !.count[c] = @ + 1]
  BY Zenon DEF acquire_unlocked
<1>2. /\ m.count \in [Counts -> Int]
      /\ DOMAIN m = {"shared", "unique", "count", "object", "misused"}
  BY Zenon DEF Memories
<1>3. /\ n.shared = m.shared /\ n.unique = m.unique /\ n.object = m.object /\ n.misused = m.misused
      /\ n.count = [m.count EXCEPT ![c] = @ + 1]
  BY <1>1, <1>2, Zenon
<1>4. /\ n.count \in [Counts -> Int] /\ n.count[c] = m.count[c] + 1
      /\ \A d \in Counts \ {c} : n.count[d] = m.count[d]
  BY <1>2, <1>3
<1>5. n = [shared |-> n.shared, unique |-> n.unique, count |-> n.count, object |-> n.object,
           misused |-> n.misused]
  BY <1>1, <1>2, Zenon
<1>6. n \in Memories
  BY <1>3, <1>4, <1>5, Zenon DEF Memories
<1> QED
  BY <1>2, <1>3, <1>4, <1>6, Zenon DEF Recounted

\* What setting a SharedPointer does.
SetTo(m, n, s, state, data, count) ==
    /\ Changed(m, n, s) /\ n.object = m.object /\ n.count = m.count
    /\ n.shared[s].state = state /\ n.shared[s].data = data /\ n.shared[s].count = count

LEMMA SharedSet ==
    ASSUME NEW m \in Memories, NEW s \in Shared, NEW state \in {"raw", "live", "last"},
           NEW data \in Objects \cup {nullptr}, NEW count \in Counts \cup {nullptr}
    PROVE  SetTo(m, SetShared(m, s, state, data, count), s, state, data, count)
<1> DEFINE n == SetShared(m, s, state, data, count)
<1>1. /\ n.shared = [m.shared EXCEPT ![s] = [state |-> state, data |-> data, count |-> count]]
      /\ n.unique = m.unique /\ n.object = m.object /\ n.count = m.count
      /\ n \in Memories
  BY Zenon DEF Memories, SetShared
<1>2. /\ n.shared[s] = [state |-> state, data |-> data, count |-> count]
      /\ \A x \in Shared \ {s} : n.shared[x] = m.shared[x]
  BY <1>1, Zenon DEF Memories
<1> QED
  BY <1>1, <1>2 DEF Changed, SetTo

\* An owner of several that lets go, to be destroyed or to take something else.
LEMMA Leave ==
    ASSUME NEW m, Sound(m), NEW s \in Shared, m.shared[s].state = "live",
           ~IsLast(fetch_sub(m, s), s), NEW state \in {"raw", "live"}, NEW n,
           SetTo(fetch_sub(m, s), n, s, state, nullptr, nullptr)
    PROVE  Sound(n) /\ Emptied(m, n, s, state)
<1> DEFINE c == m.shared[s].count
<1>1. CASE c = nullptr
  <2>b. /\ Changed(m, n, s) /\ n.object = m.object /\ n.count = m.count
        /\ n.shared[s].state = state /\ n.shared[s].data = nullptr /\ n.shared[s].count = nullptr
    BY <1>1, Zenon DEF SetTo, fetch_sub
  <2>2. m.shared[s].data = nullptr
    BY <1>1, Zenon DEF Sound, Shapes, SharedShapes, UniqueShapes
  <2>5. Shapes(n)
    BY <2>b DEF Sound, Shapes, SharedShapes, UniqueShapes, Changed
  <2>6. ASSUME NEW d \in Counts PROVE Counted(n, d)
    BY <1>1, <2>b, SameOwners, Addresses, Zenon DEF Sound
  <2>7. Owned(n)
    BY <2>b, <2>2, Addresses DEF Sound, Owned, Changed
  <2> QED
    BY <2>b, <2>5, <2>6, <2>7, Zenon DEF Sound, Changed, Emptied
<1>2. CASE c # nullptr
  <2>1. /\ c \in Counts /\ s \in Owners(m, c) /\ m.count[c] \in Nat \ {0}
        /\ m.count[c] = Cardinality(Owners(m, c))
    BY <1>2, LiveCounted, Zenon
  <2>2. /\ fetch_sub(m, s) \in Memories /\ fetch_sub(m, s).shared = m.shared
        /\ fetch_sub(m, s).unique = m.unique /\ fetch_sub(m, s).object = m.object
        /\ fetch_sub(m, s).count[c] = m.count[c] - 1
        /\ \A d \in Counts \ {c} : fetch_sub(m, s).count[d] = m.count[d]
    <3>1. Recounted(m, fetch_sub(m, s), c, -1) /\ m.count[c] \in Int
      BY <1>2, <2>1, Subtracted DEF Sound
    <3> QED
      BY <3>1, Zenon DEF Recounted
  <2>b. /\ Changed(fetch_sub(m, s), n, s) /\ n.object = m.object
        /\ n.count = fetch_sub(m, s).count
        /\ n.shared[s].state = state /\ n.shared[s].data = nullptr /\ n.shared[s].count = nullptr
    BY <2>2, Zenon DEF SetTo
  <2>3. Changed(m, n, s) /\ n \in Memories /\ n.unique = m.unique
        /\ \A x \in Shared \ {s} : n.shared[x] = m.shared[x]
    BY <2>2, <2>b, Zenon DEF Changed
  <2>4. m.count[c] # 1
    BY <1>2, <2>1, <2>2 DEF IsLast
  <2>5. Owners(n, c) = Owners(m, c) \ {s}
    BY <2>b, <2>3, <2>1, Addresses DEF Owners
  <2>6. Cardinality(Owners(n, c)) = m.count[c] - 1
    BY <2>1, <2>5, OneLess, OwnersFinite, Zenon
  <2>7. n.count[c] = m.count[c] - 1 /\ n.count[c] > 0 /\ \A d \in Counts \ {c} : n.count[d] = m.count[d]
    BY <2>1, <2>2, <2>4, <2>b
  <2>8. Shapes(n)
    BY <2>b, <2>3 DEF Sound, Shapes, SharedShapes, UniqueShapes
  <2>9. ASSUME NEW d \in Counts PROVE Counted(n, d)
    <3>1. CASE d = c
      <4>1. Counted(m, c) /\ m.count[c] > 0
        BY <2>1 DEF Sound
      <4>2. \A x \in Owners(n, c) : x \in Owners(m, c) /\ n.shared[x] = m.shared[x]
        BY <2>b, <2>3, <2>5, Zenon DEF Owners
      <4>3. /\ \A x, y \in Owners(n, c) : n.shared[x].data = n.shared[y].data
            /\ \A x \in Owners(n, c) : n.shared[x].state = "live"
        BY <4>1, <4>2 DEF Counted
      <4> QED
        BY <3>1, <4>3, <2>1, <2>6, <2>7 DEF Counted
    <3>2. CASE d # c
      BY <3>2, <2>b, <2>3, <2>7, SameOwners, Addresses, Zenon DEF Sound
    <3> QED
      BY <3>1, <3>2, Zenon
  <2>10. PICK t \in Owners(m, c) : t # s
    <3>1. Owners(m, c) # {s}
      BY <2>1, <2>4, FS_Singleton, Zenon
    <3> QED
      BY <2>1, <3>1, Zenon
  <2>11. n.shared[t].data = m.shared[s].data /\ t \in Shared
    BY <2>1, <2>10, <2>b, <2>3, SMTT(30) DEF Sound, Counted, Owners
  <2>12. Owned(n)
    <3>1. ASSUME NEW o \in Objects, n.object[o]
          PROVE (\E x \in Shared : n.shared[x].data = o) \/ \E u \in Unique : n.unique[u].data = o
      BY <3>1, <2>b, <2>3, <2>11 DEF Sound, Owned
    <3> QED
      BY <3>1, <2>b, <2>3, Addresses DEF Sound, Owned
  <2> QED
    BY <2>b, <2>3, <2>8, <2>9, <2>12, Zenon DEF Sound, Emptied
<1> QED
  BY <1>1, <1>2, Zenon

\* The last owner, when its fetch_sub() has returned 1.
LEMMA Expire ==
    ASSUME NEW m, Sound(m), NEW s \in Shared, m.shared[s].state = "live",
           IsLast(fetch_sub(m, s), s), NEW n,
           SetTo(fetch_sub(m, s), n, s, "last", m.shared[s].data, m.shared[s].count)
    PROVE  Sound(n)
<1> DEFINE c == m.shared[s].count
           f == fetch_sub(m, s)
<1>1. c # nullptr
  BY Zenon DEF IsLast, fetch_sub
<1>2. /\ c \in Counts /\ s \in Owners(m, c) /\ m.count[c] \in Nat \ {0}
      /\ m.count[c] = 1 => Owners(m, c) = {s}
  BY <1>1, LiveCounted, Zenon
<1>3. /\ f \in Memories /\ f.shared = m.shared /\ f.unique = m.unique /\ f.object = m.object
      /\ f.count[c] = m.count[c] - 1 /\ \A d \in Counts \ {c} : f.count[d] = m.count[d]
  <2>1. Recounted(m, f, c, -1) /\ m.count[c] \in Int
    BY <1>1, <1>2, Subtracted DEF Sound
  <2> QED
    BY <2>1, Zenon DEF Recounted
<1>4. f.count[c] = 0
  BY <1>1, <1>3, Zenon DEF IsLast
<1>5. m.count[c] = 1 /\ Owners(m, c) = {s}
  BY <1>2, <1>3, <1>4
<1> HIDE DEF f
<1>6. /\ n \in Memories /\ n.unique = m.unique /\ n.object = m.object
      /\ n.count[c] = 0 /\ \A d \in Counts \ {c} : n.count[d] = m.count[d]
      /\ \A x \in Shared \ {s} : n.shared[x] = m.shared[x]
      /\ n.shared[s].state = "last" /\ n.shared[s].data = m.shared[s].data /\ n.shared[s].count = c
  BY <1>3, <1>4, Zenon DEF SetTo, Changed, f
<1>7. Shapes(n)
  BY <1>1, <1>6 DEF Sound, Shapes, SharedShapes, UniqueShapes
<1>8. ASSUME NEW d \in Counts PROVE Counted(n, d)
  <2>1. CASE d = c
    <3>1. Owners(n, c) = {s}
      BY <1>5, <1>6, Zenon DEF Owners
    <3> QED
      BY <2>1, <3>1, <1>6 DEF Counted
  <2>2. CASE d # c
    BY <2>2, <1>6, SameOwners, SMTT(30) DEF Sound, Changed
  <2> QED
    BY <2>1, <2>2, Zenon
<1>9. Owned(n)
  <2>1. \A x \in Shared : n.shared[x].data = m.shared[x].data /\ n.shared[x].count = m.shared[x].count
    BY <1>6, Zenon
  <2> QED
    BY <2>1, <1>6 DEF Sound, Owned
<1> QED
  BY <1>6, <1>7, <1>8, <1>9, Zenon DEF Sound

\* What the deletions of the last owner do.
Freed(m, n, c, o) ==
    /\ n \in Memories /\ n.shared = m.shared /\ n.unique = m.unique
    /\ n.count[c] = -1 /\ \A d \in Counts \ {c} : n.count[d] = m.count[d]
    /\ \A x \in Objects : n.object[x] = (m.object[x] /\ x # o)

LEMMA DataDeleted ==
    ASSUME NEW m \in Memories, NEW o \in Objects \cup {nullptr}, o # nullptr => m.object[o],
           NEW n, n = delete_data(m, o)
    PROVE  /\ n \in Memories /\ n.shared = m.shared /\ n.unique = m.unique /\ n.count = m.count
           /\ \A x \in Objects : n.object[x] = (m.object[x] /\ x # o)
<1>1. CASE o = nullptr
  BY <1>1, Addresses, Zenon DEF delete_data, Memories
<1>2. CASE o # nullptr
  <2>1. n = [m EXCEPT !.object[o] = FALSE]
    BY <1>2, Zenon DEF delete_data
  <2>2. n.object = [m.object EXCEPT ![o] = FALSE] /\ o \in Objects
    BY <1>2, <2>1, Zenon DEF Memories
  <2>3. n \in Memories /\ n.shared = m.shared /\ n.unique = m.unique /\ n.count = m.count
    <3>1. /\ n.shared = m.shared /\ n.unique = m.unique /\ n.count = m.count /\ n.misused = m.misused
          /\ n = [shared |-> n.shared, unique |-> n.unique, count |-> n.count, object |-> n.object,
                  misused |-> n.misused]
      BY <2>1, Zenon DEF Memories
    <3>2. n.object \in [Objects -> BOOLEAN]
      BY <2>2, Zenon DEF Memories
    <3> QED
      BY <3>1, <3>2, Zenon DEF Memories
  <2>4. \A x \in Objects : n.object[x] = (m.object[x] /\ x # o)
    BY <2>2, Zenon DEF Memories
  <2> QED
    BY <2>3, <2>4, Zenon
<1> QED
  BY <1>1, <1>2, Zenon

LEMMA BothDeleted ==
    ASSUME NEW m \in Memories, NEW s \in Shared, m.shared[s].count \in Counts,
           m.count[m.shared[s].count] >= 0,
           m.shared[s].data # nullptr => m.object[m.shared[s].data]
    PROVE  Freed(m, DeleteBoth(m, s), m.shared[s].count, m.shared[s].data)
<1> DEFINE c == m.shared[s].count
           o == m.shared[s].data
           k == delete_data(m, o)
           n == delete_count(k, c)
<1>1. o \in Objects \cup {nullptr}
  BY Zenon DEF Memories
<1>2. /\ k \in Memories /\ k.shared = m.shared /\ k.unique = m.unique /\ k.count = m.count
      /\ \A x \in Objects : k.object[x] = (m.object[x] /\ x # o)
  BY <1>1, DataDeleted
<1> HIDE DEF k
<1>3. n = [k EXCEPT !.count[c] = -1]
  BY <1>2, Zenon DEF delete_count
<1>4. /\ n \in Memories /\ n.shared = k.shared /\ n.unique = k.unique /\ n.object = k.object
      /\ n.count = [k.count EXCEPT ![c] = -1]
  <2>1. /\ n.shared = k.shared /\ n.unique = k.unique /\ n.object = k.object /\ n.misused = k.misused
        /\ n.count = [k.count EXCEPT ![c] = -1]
        /\ n = [shared |-> n.shared, unique |-> n.unique, count |-> n.count, object |-> n.object,
                misused |-> n.misused]
    BY <1>2, <1>3, Zenon DEF Memories
  <2>2. n.count \in [Counts -> Int]
    BY <1>2, <2>1 DEF Memories
  <2> HIDE DEF n
  <2> QED
    BY <1>2, <2>1, <2>2, Zenon DEF Memories
<1>5. n.count[c] = -1 /\ \A d \in Counts \ {c} : n.count[d] = m.count[d]
  BY <1>2, <1>4 DEF Memories
<1>6. DeleteBoth(m, s) = n
  BY Zenon DEF DeleteBoth, k
<1> HIDE DEF n
<1> QED
  BY <1>2, <1>4, <1>5, <1>6, ZenonT(30) DEF Freed

\* The last owner deletes, in a step of its own or in release_unlocked().
LEMMA Delete ==
    ASSUME NEW m \in Memories, NEW s \in Shared, NEW e, Sound(e),
           SetTo(m, e, s, "last", m.shared[s].data, m.shared[s].count),
           NEW state \in {"raw", "live"}, NEW n,
           SetTo(DeleteBoth(m, s), n, s, state, nullptr, nullptr)
    PROVE  Sound(n) /\ Emptied(m, n, s, state)
<1> DEFINE c == m.shared[s].count
           o == m.shared[s].data
           b == DeleteBoth(m, s)
<1>1. /\ e.unique = m.unique /\ e.object = m.object /\ e.count = m.count
      /\ \A x \in Shared \ {s} : e.shared[x] = m.shared[x]
      /\ e.shared[s].state = "last" /\ e.shared[s].data = o /\ e.shared[s].count = c
  BY Zenon DEF SetTo, Changed
<1>2. c \in Counts /\ o \in Objects \cup {nullptr} /\ s \in Owners(e, c)
  BY <1>1, Zenon DEF Sound, Shapes, SharedShapes, UniqueShapes, Memories, Owners
<1>3. e.count[c] = 0 /\ Owners(e, c) = {s}
  <2>1. e.count[c] \in Int /\ Counted(e, c)
    BY <1>2, Zenon DEF Sound, Memories
  <2>2. e.count[c] = 0
    BY <1>1, <1>2, <2>1 DEF Counted
  <2> QED
    BY <1>2, <2>1, <2>2, Zenon DEF Counted
<1>4. o # nullptr => m.object[o]
  BY <1>1, Zenon DEF Sound, Owned
<1>5. /\ b \in Memories /\ b.shared = m.shared /\ b.unique = m.unique
      /\ b.count[c] = -1 /\ \A d \in Counts \ {c} : b.count[d] = m.count[d]
      /\ \A x \in Objects : b.object[x] = (m.object[x] /\ x # o)
  <2>1. Freed(m, b, c, o)
    BY <1>1, <1>2, <1>3, <1>4, BothDeleted
  <2> QED
    BY <2>1, Zenon DEF Freed
<1> HIDE DEF b
<1>6. SetTo(b, n, s, state, nullptr, nullptr)
  BY Zenon DEF b
<1>7. /\ n \in Memories /\ n.unique = e.unique
      /\ \A x \in Shared \ {s} : n.shared[x] = e.shared[x]
      /\ n.shared[s].state = state /\ n.shared[s].data = nullptr /\ n.shared[s].count = nullptr
      /\ n.count[c] = -1 /\ \A d \in Counts \ {c} : n.count[d] = e.count[d]
      /\ \A x \in Objects : n.object[x] = (e.object[x] /\ x # o)
  BY <1>1, <1>5, <1>6 DEF SetTo, Changed
<1>8. Shapes(n)
  BY <1>7 DEF Sound, Shapes, SharedShapes, UniqueShapes
<1>9. ASSUME NEW d \in Counts PROVE Counted(n, d)
  <2>1. CASE d = c
    <3>1. Owners(n, c) = {}
      BY <1>2, <1>3, <1>7, Addresses DEF Owners
    <3> QED
      BY <2>1, <3>1, <1>7 DEF Counted
  <2>2. CASE d # c
    BY <2>2, <1>1, <1>7, SameOwners, Addresses, SMTT(30) DEF Sound, Changed
  <2> QED
    BY <2>1, <2>2, Zenon
<1>10. \A x \in Shared : x # s /\ o # nullptr => e.shared[x].data # o
  BY <1>1, <1>3 DEF Sound, Owned, Owners
<1>11. \A u \in Unique : o # nullptr => e.unique[u].data # o
  BY <1>1 DEF Sound, Owned
<1>12. Owned(n)
  <2>1. ASSUME NEW x \in Shared, n.shared[x].data # nullptr PROVE n.object[n.shared[x].data]
    <3>1. x # s /\ n.shared[x].data = e.shared[x].data
      BY <2>1, <1>7, Zenon
    <3>2. e.shared[x].data \in Objects /\ e.object[e.shared[x].data] /\ e.shared[x].data # o
      BY <2>1, <3>1, <1>10 DEF Sound, Owned, Memories
    <3> QED
      BY <3>1, <3>2, <1>7, Zenon
  <2>2. ASSUME NEW u \in Unique, n.unique[u].data \in Objects PROVE n.object[n.unique[u].data]
    <3>1. e.object[e.unique[u].data] /\ e.unique[u].data # o /\ e.unique[u].data \in Objects
      BY <2>2, <1>7, <1>11, Addresses, SMTT(30) DEF Sound, Owned
    <3> QED
      BY <3>1, <1>7, Zenon
  <2>3. ASSUME NEW x \in Objects, n.object[x]
        PROVE  (\E y \in Shared : n.shared[y].data = x) \/ \E u \in Unique : n.unique[u].data = x
    <3>1. e.object[x] /\ x # e.shared[s].data
      BY <2>3, <1>1, <1>7, Zenon
    <3> QED
      BY <3>1, <1>7 DEF Sound, Owned
  <2>4. \A x \in Shared : n.shared[x].data # nullptr => n.shared[x] = e.shared[x]
    BY <1>7, Zenon
  <2>5. /\ \A x, y \in Shared :
             n.shared[x].data # nullptr /\ n.shared[x].data = n.shared[y].data
               => n.shared[x].count = n.shared[y].count
        /\ \A x \in Shared, u \in Unique : n.shared[x].data # nullptr => n.shared[x].data # n.unique[u].data
        /\ \A u, v \in Unique :
             n.unique[u].data \in Objects /\ n.unique[u].data = n.unique[v].data => u = v
    BY <2>4, <1>7 DEF Sound, Owned
  <2> QED
    BY <2>1, <2>2, <2>3, <2>5, Zenon DEF Owned
<1>13. Emptied(m, n, s, state)
  BY <1>1, <1>7, Zenon DEF Changed, Emptied
<1> QED
  BY <1>7, <1>8, <1>9, <1>12, <1>13, Zenon DEF Sound

-----------------------------------------------------------------------------
\* Letting go with a lock held.
LEMMA Release ==
    ASSUME NEW m, Sound(m), NEW s \in Shared, m.shared[s].state = "live"
    PROVE  Sound(release_unlocked(m, s)) /\ Emptied(m, release_unlocked(m, s), s, "live")
<1> DEFINE f == fetch_sub(m, s)
           n == release_unlocked(m, s)
           e == SetShared(f, s, "last", m.shared[s].data, m.shared[s].count)
<1>m. m \in Memories /\ m.shared[s].data \in Objects \cup {nullptr}
      /\ m.shared[s].count \in Counts \cup {nullptr}
  BY Zenon DEF Sound, Memories
<1>1. f \in Memories /\ f.shared = m.shared /\ f.unique = m.unique
  <2>1. CASE m.shared[s].count = nullptr
    BY <1>m, <2>1, Zenon DEF fetch_sub
  <2>2. CASE m.shared[s].count # nullptr
    <3>1. Recounted(m, f, m.shared[s].count, -1)
      BY <1>m, <2>2, LiveCounted, Subtracted
    <3> QED
      BY <3>1, Zenon DEF Recounted
  <2> QED
    BY <2>1, <2>2, Zenon
<1> HIDE DEF f
<1>2. CASE ~IsLast(f, s)
  <2>1. n = SetShared(f, s, "live", nullptr, nullptr)
    BY <1>2, Zenon DEF release_unlocked, f
  <2>2. SetTo(f, n, s, "live", nullptr, nullptr)
    BY <1>1, <2>1, SharedSet, Zenon
  <2> HIDE DEF n
  <2> QED
    BY <1>2, <2>2, Leave, Zenon DEF f, n
<1>3. CASE IsLast(f, s)
  <2>1. n = SetShared(DeleteBoth(f, s), s, "live", nullptr, nullptr)
    BY <1>3, Zenon DEF release_unlocked, f
  <2>2. SetTo(f, e, s, "last", m.shared[s].data, m.shared[s].count)
    BY <1>1, <1>m, SharedSet, Zenon
  <2> HIDE DEF e
  <2>3. Sound(e)
    BY <1>3, <2>2, Expire, Zenon DEF f
  <2>4. DeleteBoth(f, s) \in Memories
    <3>1. /\ f.shared[s].data # nullptr => f.object[f.shared[s].data]
          /\ f.shared[s].count \in Counts /\ f.count[f.shared[s].count] >= 0
      BY <1>1, <1>3, <2>2, <2>3 DEF IsLast, SetTo, Changed, Sound, Owned, Memories
    <3>2. Freed(f, DeleteBoth(f, s), f.shared[s].count, f.shared[s].data)
      BY <1>1, <3>1, BothDeleted, Zenon
    <3> QED
      BY <3>2, Zenon DEF Freed
  <2>5. SetTo(DeleteBoth(f, s), n, s, "live", nullptr, nullptr)
    BY <2>1, <2>4, SharedSet, Zenon
  <2>6. SetTo(f, e, s, "last", f.shared[s].data, f.shared[s].count)
    BY <1>1, <2>2, Zenon
  <2> HIDE DEF n
  <2>7. Sound(n) /\ Emptied(f, n, s, "live")
    BY <1>1, <2>3, <2>5, <2>6, Delete, Zenon
  <2> QED
    BY <1>1, <2>7, Zenon DEF Changed, Emptied, n
<1> QED
  BY <1>2, <1>3, Zenon

\* Ownership is the same when what the SharedPointers have is.
SameHeld(m, n) ==
    /\ n.unique = m.unique /\ n.object = m.object
    /\ \A x \in Shared : n.shared[x].data # nullptr =>
         \E y \in Shared : n.shared[x].data = m.shared[y].data /\ n.shared[x].count = m.shared[y].count
    /\ \A y \in Shared : m.shared[y].data # nullptr => \E x \in Shared : n.shared[x].data = m.shared[y].data

LEMMA SameOwned ==
    ASSUME NEW m, NEW n, Owned(m), SameHeld(m, n)
    PROVE  Owned(n)
<1>a. nullptr \notin Objects
  BY Addresses, Zenon
<1>b. n.unique = m.unique /\ n.object = m.object
  BY Zenon DEF SameHeld
<1>1. ASSUME NEW x \in Shared, n.shared[x].data # nullptr PROVE n.object[n.shared[x].data]
  <2>1. PICK y \in Shared : n.shared[x].data = m.shared[y].data
    BY <1>1, Zenon DEF SameHeld
  <2> QED
    BY <1>1, <1>b, <2>1, Zenon DEF Owned
<1>2. ASSUME NEW x \in Shared, NEW z \in Shared, n.shared[x].data # nullptr,
             n.shared[x].data = n.shared[z].data
      PROVE  n.shared[x].count = n.shared[z].count
  <2>1. PICK y \in Shared : n.shared[x].data = m.shared[y].data /\ n.shared[x].count = m.shared[y].count
    BY <1>2, Zenon DEF SameHeld
  <2>2. PICK v \in Shared : n.shared[z].data = m.shared[v].data /\ n.shared[z].count = m.shared[v].count
    BY <1>2, Zenon DEF SameHeld
  <2> QED
    <3>1. m.shared[y].data # nullptr /\ m.shared[y].data = m.shared[v].data
      BY <1>2, <2>1, <2>2, Zenon
    <3>2. m.shared[y].count = m.shared[v].count
      BY <3>1, Zenon DEF Owned
    <3> QED
      BY <2>1, <2>2, <3>2, Zenon
<1>3. ASSUME NEW x \in Shared, NEW u \in Unique, n.shared[x].data # nullptr
      PROVE  n.shared[x].data # n.unique[u].data
  <2>1. PICK y \in Shared : n.shared[x].data = m.shared[y].data
    BY <1>3, Zenon DEF SameHeld
  <2> QED
    BY <1>3, <1>b, <2>1 DEF Owned
<1>4. ASSUME NEW o \in Objects, n.object[o]
      PROVE  (\E x \in Shared : n.shared[x].data = o) \/ \E u \in Unique : n.unique[u].data = o
  <2>1. (\E x \in Shared : m.shared[x].data = o) \/ \E u \in Unique : m.unique[u].data = o
    BY <1>4, <1>b, Zenon DEF Owned
  <2> QED
    BY <2>1, <1>a, <1>b DEF SameHeld
<1>5. /\ \A u \in Unique : n.unique[u].data \in Objects => n.object[n.unique[u].data]
      /\ \A u, v \in Unique :
           n.unique[u].data \in Objects /\ n.unique[u].data = n.unique[v].data => u = v
  BY <1>b DEF Owned
<1> QED
  BY <1>1, <1>2, <1>3, <1>4, <1>5, Zenon DEF Owned

\* An empty SharedPointer gets what another one has, and counts itself in.
LEMMA Copy ==
    ASSUME NEW m, Sound(m), NEW s \in Shared, NEW t \in Shared, s # t,
           m.shared[s].count = nullptr, m.shared[t].state = "live", NEW k,
           SetTo(m, k, s, "live", m.shared[t].data, m.shared[t].count)
    PROVE  Sound(acquire_unlocked(k, s))
<1> DEFINE c == m.shared[t].count
           o == m.shared[t].data
           n == acquire_unlocked(k, s)
<1>m. m \in Memories /\ Shapes(m) /\ Owned(m) /\ \A d \in Counts : Counted(m, d)
  BY Zenon DEF Sound
<1>1. c \in Counts \cup {nullptr} /\ o \in Objects \cup {nullptr} /\ m.shared[s].data = nullptr
  BY Zenon DEF Sound, Memories, Shapes, SharedShapes
<1>3. /\ k \in Memories /\ k.unique = m.unique /\ k.object = m.object /\ k.count = m.count
      /\ \A x \in Shared \ {s} : k.shared[x] = m.shared[x]
      /\ k.shared[s].state = "live" /\ k.shared[s].data = o /\ k.shared[s].count = c
  BY Zenon DEF SetTo, Changed
<1>t. m.shared[t].count = c /\ m.shared[t].data = o /\ (c = nullptr => o = nullptr)
  BY <1>m, Zenon DEF Shapes, SharedShapes
<1>5. /\ n \in Memories /\ n.shared = k.shared /\ n.unique = m.unique /\ n.object = m.object
      /\ (c \in Counts => n.count[c] = m.count[c] + 1) /\ \A d \in Counts \ {c} : n.count[d] = m.count[d]
  <2>1. CASE c = nullptr
    <3>1. n = k
      BY <2>1, <1>3, Zenon DEF acquire_unlocked
    <3> QED
      BY <1>3, <2>1, <3>1, Addresses, Zenon
  <2>2. CASE c # nullptr
    <3>1. Recounted(k, n, c, 1)
      BY <1>1, <1>3, <2>2, Added, Zenon
    <3> HIDE DEF n, c, o
    <3> QED
      BY <1>3, <3>1, Zenon DEF Recounted
  <2> QED
    BY <2>1, <2>2, Zenon
<1> HIDE DEF c, o, n
<1>6. /\ \A x \in Shared \ {s} : n.shared[x] = m.shared[x]
      /\ n.shared[s].state = "live" /\ n.shared[s].data = o /\ n.shared[s].count = c
  BY <1>3, <1>5, Zenon
<1>7. Shapes(n)
  <2>1. \A x \in Shared :
         /\ n.shared[x].state = "raw" => n.shared[x].count = nullptr
         /\ n.shared[x].state = "last" => n.shared[x].count # nullptr
         /\ n.shared[x].count = nullptr => n.shared[x].data = nullptr
    BY <1>m, <1>6, <1>t DEF Shapes, SharedShapes, UniqueShapes
  <2>2. SharedShapes(n)
    BY <2>1, Zenon DEF SharedShapes
  <2>3. UniqueShapes(n)
    BY <1>m, <1>5, Zenon DEF Shapes, UniqueShapes
  <2> QED
    BY <2>2, <2>3, Zenon DEF Shapes
<1>8. ASSUME NEW d \in Counts PROVE Counted(n, d)
  <2>1. CASE d = c
    <3>1. /\ t \in Owners(m, c) /\ m.count[c] \in Nat \ {0} /\ m.count[c] = Cardinality(Owners(m, c))
      BY <2>1, <1>t, LiveCounted, Addresses, Zenon
    <3>2. Owners(n, c) = Owners(m, c) \cup {s} /\ s \notin Owners(m, c)
      BY <2>1, <1>6, Addresses, Zenon DEF Owners
    <3>3. Cardinality(Owners(n, c)) = m.count[c] + 1
      BY <3>1, <3>2, OneMore, OwnersFinite, Zenon
    <3>4. Counted(m, c)
      BY <1>m, <2>1, Zenon
    <3>5. \A x \in Owners(n, c) : n.shared[x].data = o /\ n.shared[x].state = "live"
      <4>1. \A x \in Owners(m, c) : m.shared[x].data = o /\ m.shared[x].state = "live"
        BY <3>1, <3>4, <1>t DEF Counted
      <4> QED
        BY <3>2, <4>1, <1>6, Zenon DEF Owners
    <3>6. n.count[c] = m.count[c] + 1
      BY <2>1, <1>5, Zenon
    <3>7. m.count[c] + 1 > 0 /\ m.count[c] + 1 # 0 /\ m.count[c] + 1 # -1 /\ m.count[c] + 1 >= -1
      BY <3>1
    <3>8. Counted(n, c)
      BY <3>3, <3>5, <3>6, <3>7, Zenon DEF Counted
    <3> QED
      BY <2>1, <3>8, Zenon
  <2>2. CASE d # c
    <3>1. Changed(m, n, s)
      BY <1>5, <1>6, Zenon DEF Changed
    <3> QED
      BY <2>2, <3>1, <1>5, <1>6, SameOwners, Addresses, Zenon DEF Sound
  <2> QED
    BY <2>1, <2>2, Zenon
<1>9. Owned(n)
  <2>1. \A x \in Shared : \E y \in Shared :
           n.shared[x].data = m.shared[y].data /\ n.shared[x].count = m.shared[y].count
    BY <1>6, <1>t, Zenon
  <2>2. \A x \in Shared : m.shared[x].data # nullptr => n.shared[x].data = m.shared[x].data
    BY <1>1, <1>6, Zenon
  <2> QED
    <3>1. SameHeld(m, n)
      BY <1>5, <2>1, <2>2, Zenon DEF SameHeld
    <3> QED
      BY <1>m, <3>1, SameOwned, Zenon
<1>10. Sound(n)
  BY <1>5, <1>7, <1>8, <1>9, Zenon DEF Sound
<1> QED
  BY <1>10, Zenon DEF n

\* An empty SharedPointer gets what another one has and leaves it with nothing.
LEMMA Move ==
    ASSUME NEW m, Sound(m), NEW s \in Shared, NEW t \in Shared, s # t,
           m.shared[s].count = nullptr, m.shared[t].state = "live", NEW k, NEW n,
           SetTo(m, k, s, "live", m.shared[t].data, m.shared[t].count),
           SetTo(k, n, t, "live", nullptr, nullptr)
    PROVE  Sound(n)
<1> DEFINE c == m.shared[t].count
           o == m.shared[t].data
<1>m. m \in Memories /\ Shapes(m) /\ Owned(m) /\ \A d \in Counts : Counted(m, d)
  BY Zenon DEF Sound
<1>1. c \in Counts \cup {nullptr} /\ o \in Objects \cup {nullptr} /\ m.shared[s].data = nullptr
  BY <1>m, Zenon DEF Memories, Shapes, SharedShapes
<1>4. /\ n \in Memories /\ n.unique = m.unique /\ n.object = m.object /\ n.count = m.count
      /\ \A x \in Shared \ {s, t} : n.shared[x] = m.shared[x]
      /\ n.shared[s].state = "live" /\ n.shared[s].data = o /\ n.shared[s].count = c
      /\ n.shared[t].state = "live" /\ n.shared[t].data = nullptr /\ n.shared[t].count = nullptr
  BY Zenon DEF SetTo, Changed
<1>t. m.shared[t].count = c /\ m.shared[t].data = o /\ (c = nullptr => o = nullptr)
  BY <1>m, Zenon DEF Shapes, SharedShapes, UniqueShapes
<1> HIDE DEF c, o
<1>5. Shapes(n)
  <2>1. \A x \in Shared :
         /\ n.shared[x].state = "raw" => n.shared[x].count = nullptr
         /\ n.shared[x].state = "last" => n.shared[x].count # nullptr
         /\ n.shared[x].count = nullptr => n.shared[x].data = nullptr
    BY <1>m, <1>4, <1>t DEF Shapes, SharedShapes, UniqueShapes
  <2>2. SharedShapes(n)
    BY <2>1, Zenon DEF SharedShapes
  <2>3. UniqueShapes(n)
    BY <1>m, <1>4, Zenon DEF Shapes, UniqueShapes
  <2> QED
    BY <2>2, <2>3, Zenon DEF Shapes
<1>6. ASSUME NEW d \in Counts PROVE Counted(n, d)
  <2>1. CASE d = c
    <3>1. /\ t \in Owners(m, c) /\ m.count[c] \in Nat \ {0} /\ m.count[c] = Cardinality(Owners(m, c))
      BY <2>1, <1>t, LiveCounted, Addresses, Zenon
    <3> DEFINE R == Owners(m, c) \ {t}
    <3>2. Owners(n, c) = R \cup {s} /\ s \notin R
      BY <2>1, <1>4, Addresses, Zenon DEF Owners
    <3>3. IsFiniteSet(Owners(m, c))
      BY OwnersFinite, Zenon
    <3>4. IsFiniteSet(R) /\ Cardinality(R) = m.count[c] - 1
      <4>1. Cardinality(R) = Cardinality(Owners(m, c)) - 1
        BY <3>1, <3>3, OneLess, Zenon
      <4>2. IsFiniteSet(R)
        BY <3>3, FS_Subset, Zenon
      <4> QED
        BY <3>1, <4>1, <4>2, Zenon
    <3> HIDE DEF R
    <3>5. Cardinality(Owners(n, c)) = m.count[c]
      BY <3>1, <3>2, <3>4, OneMore
    <3>6. \A x \in Owners(n, c) : n.shared[x].data = o /\ n.shared[x].state = "live"
      <4>1. \A x \in Owners(m, c) : m.shared[x].data = o /\ m.shared[x].state = "live"
        BY <1>m, <2>1, <3>1, <1>t DEF Counted
      <4>2. ASSUME NEW x \in R PROVE n.shared[x] = m.shared[x] /\ x \in Owners(m, c)
        <5>1. x \in Shared \ {s, t}
          BY <3>2, Zenon DEF R, Owners
        <5> QED
          BY <5>1, <1>4, Zenon DEF R
      <4> QED
        BY <3>2, <4>1, <4>2, <1>4, Zenon
    <3>7. n.count[c] = m.count[c]
      BY <1>4, Zenon
    <3>8. Counted(n, c)
      <4>1. \A x, y \in Owners(n, c) : n.shared[x].data = n.shared[y].data
        BY <3>6, Zenon
      <4> QED
        BY <3>1, <3>5, <3>6, <3>7, <4>1 DEF Counted
    <3> QED
      BY <2>1, <3>8, Zenon
  <2>2. CASE d # c
    <3>1. KeptOutside(m, n, {s, t})
      BY <1>4, Zenon DEF KeptOutside
    <3>2. \A x \in {s, t} : m.shared[x].count # d /\ n.shared[x].count # d
      BY <2>2, <1>4, <1>t, Addresses, Zenon
    <3>3. Counted(m, d) /\ n.count[d] = m.count[d]
      BY <1>m, <1>4, Zenon
    <3> QED
      BY <3>1, <3>2, <3>3, KeptCounted
  <2> QED
    BY <2>1, <2>2, Zenon
<1>7. Owned(n)
  <2>1. \A x \in Shared : n.shared[x].data # nullptr =>
         \E y \in Shared : n.shared[x].data = m.shared[y].data /\ n.shared[x].count = m.shared[y].count
    BY <1>4, <1>t, Zenon
  <2>2. \A y \in Shared : m.shared[y].data # nullptr => \E x \in Shared : n.shared[x].data = m.shared[y].data
    BY <1>1, <1>4, <1>t, Zenon
  <2>3. SameHeld(m, n)
    BY <1>4, <2>1, <2>2, Zenon DEF SameHeld
  <2> QED
    BY <1>m, <2>3, SameOwned, Zenon
<1> QED
  BY <1>4, <1>5, <1>6, <1>7, Zenon DEF Sound

\* An empty SharedPointer gets a new count.
Counting(m, n, s, o, c) ==
    /\ n \in Memories /\ KeptOutside(m, n, {s})
    /\ n.shared[s].state = "live" /\ n.shared[s].data = o /\ n.shared[s].count = c
    /\ n.count[c] = 1 /\ \A d \in Counts \ {c} : n.count[d] = m.count[d]

LEMMA NewCount ==
    ASSUME NEW m, Sound(m), NEW s \in Shared, m.shared[s].count = nullptr,
           NEW o, NEW c \in Counts, m.count[c] = -1, NEW n, Counting(m, n, s, o, c)
    PROVE  (\A d \in Counts : Counted(n, d)) /\ SharedShapes(n)
<1>m. m \in Memories /\ Shapes(m) /\ \A d \in Counts : Counted(m, d)
  BY Zenon DEF Sound
<1>n. /\ \A x \in Shared \ {s} : n.shared[x] = m.shared[x]
      /\ n.shared[s].state = "live" /\ n.shared[s].count = c
      /\ n.count[c] = 1 /\ \A d \in Counts \ {c} : n.count[d] = m.count[d]
  BY Zenon DEF Counting, KeptOutside
<1>1. ASSUME NEW d \in Counts PROVE Counted(n, d)
  <2>1. CASE d = c
    <3>1. Owners(m, c) = {}
      BY <1>m, Zenon DEF Counted
    <3>2. Owners(n, c) = {s}
      BY <1>n, <3>1 DEF Owners
    <3>3. Cardinality(Owners(n, c)) = 1
      BY <3>2, FS_Singleton, Zenon
    <3>4. Counted(n, c)
      BY <1>n, <3>2, <3>3 DEF Counted
    <3> QED
      BY <2>1, <3>4, Zenon
  <2>2. CASE d # c
    <3>1. KeptOutside(m, n, {s}) /\ Counted(m, d) /\ n.count[d] = m.count[d]
      BY <1>m, <1>n, <2>2, Zenon DEF Counting
    <3>2. \A x \in {s} : m.shared[x].count # d /\ n.shared[x].count # d
      BY <1>n, <2>2, Addresses, Zenon
    <3> QED
      BY <3>1, <3>2, KeptCounted
  <2> QED
    BY <2>1, <2>2, Zenon
<1>2. c # nullptr
  BY Addresses, Zenon
<1> QED
  BY <1>m, <1>n, <1>1, <1>2 DEF Shapes, SharedShapes, UniqueShapes

\* SharedPointer(Type*) with a new object.
LEMMA NewObject ==
    ASSUME NEW m, Sound(m), NEW s \in Shared, m.shared[s].count = nullptr,
           NEW o \in Objects, ~m.object[o], NEW c \in Counts, m.count[c] = -1, NEW n,
           Counting(m, n, s, o, c), n.unique = m.unique,
           \A x \in Objects : n.object[x] = (m.object[x] \/ x = o)
    PROVE  Sound(n)
<1>m. m \in Memories /\ Shapes(m) /\ Owned(m)
  BY Zenon DEF Sound
<1>n. /\ n \in Memories /\ \A x \in Shared \ {s} : n.shared[x] = m.shared[x]
      /\ n.shared[s].data = o /\ n.shared[s].count = c /\ m.shared[s].data = nullptr
  BY <1>m, Zenon DEF Counting, KeptOutside, Shapes, SharedShapes
<1>1. (\A d \in Counts : Counted(n, d)) /\ SharedShapes(n)
  BY NewCount, Zenon
<1>2. UniqueShapes(n)
  BY <1>m, Zenon DEF Shapes, UniqueShapes
<1>3. /\ \A x \in Shared : m.shared[x].data # o
      /\ \A u \in Unique : m.unique[u].data # o
  BY <1>m, Addresses, SMTT(30) DEF Owned
<1>4. Owned(n)
  <2>1. ASSUME NEW x \in Shared, n.shared[x].data # nullptr PROVE n.object[n.shared[x].data]
    <3>1. n.shared[x].data \in Objects
      BY <1>n, <2>1 DEF Memories
    <3> QED
      BY <1>m, <1>n, <2>1, <3>1, Zenon DEF Owned
  <2>2. \A u \in Unique : n.unique[u].data \in Objects => n.object[n.unique[u].data]
    BY <1>m, Zenon DEF Owned
  <2>3. ASSUME NEW x \in Shared, NEW y \in Shared, n.shared[x].data # nullptr,
               n.shared[x].data = n.shared[y].data
        PROVE  n.shared[x].count = n.shared[y].count
    BY <1>m, <1>n, <1>3, <2>3 DEF Owned
  <2>4. \A x \in Shared, u \in Unique : n.shared[x].data # nullptr => n.shared[x].data # n.unique[u].data
    BY <1>m, <1>n, <1>3, SMTT(30) DEF Owned
  <2>5. \A u, v \in Unique :
          n.unique[u].data \in Objects /\ n.unique[u].data = n.unique[v].data => u = v
    BY <1>m DEF Owned
  <2>6. ASSUME NEW x \in Objects, n.object[x]
        PROVE  (\E y \in Shared : n.shared[y].data = x) \/ \E u \in Unique : n.unique[u].data = x
    <3>1. CASE x = o
      BY <1>n, <3>1, Zenon
    <3>2. CASE x # o
      <4>1. (\E y \in Shared : m.shared[y].data = x) \/ \E u \in Unique : m.unique[u].data = x
        BY <1>m, <2>6, <3>2, Zenon DEF Owned
      <4>2. x # nullptr
        BY Addresses, Zenon
      <4> QED
        BY <1>n, <4>1, <4>2, Zenon
    <3> QED
      BY <3>1, <3>2, Zenon
  <2> QED
    BY <2>1, <2>2, <2>3, <2>4, <2>5, <2>6, SMTT(30) DEF Owned
<1> QED
  BY <1>n, <1>1, <1>2, <1>4, Zenon DEF Sound, Shapes

\* A SharedPointer gets what a UniquePointer has and leaves it with nothing.
LEMMA Convert ==
    ASSUME NEW m, Sound(m), NEW s \in Shared, m.shared[s].count = nullptr,
           NEW u \in Unique, m.unique[u].data \notin Statics, NEW c \in Counts, m.count[c] = -1, NEW n,
           Counting(m, n, s, m.unique[u].data, c), n.object = m.object,
           n.unique[u] = [state |-> "live", data |-> nullptr, should_leak |-> FALSE],
           \A v \in Unique \ {u} : n.unique[v] = m.unique[v]
    PROVE  Sound(n)
<1> DEFINE o == m.unique[u].data
<1>m. m \in Memories /\ Shapes(m) /\ Owned(m)
  BY Zenon DEF Sound
<1>n. /\ n \in Memories /\ \A x \in Shared \ {s} : n.shared[x] = m.shared[x]
      /\ n.shared[s].data = o /\ n.shared[s].count = c /\ m.shared[s].data = nullptr
  BY <1>m, Zenon DEF Counting, KeptOutside, Shapes, SharedShapes
<1>u. n.unique[u].state = "live" /\ n.unique[u].data = nullptr /\ n.unique[u].should_leak = FALSE
  OBVIOUS
<1>o. m.unique[u].data = o /\ (o # nullptr => o \in Objects)
  BY <1>m, Zenon DEF Memories
<1>1. (\A d \in Counts : Counted(n, d)) /\ SharedShapes(n)
  BY NewCount, Zenon
<1> HIDE DEF o
<1>2. UniqueShapes(n)
  BY <1>m, <1>u, Addresses, Zenon DEF Shapes, UniqueShapes
<1>3. /\ o # nullptr => \A x \in Shared : m.shared[x].data # o
      /\ o # nullptr => \A v \in Unique \ {u} : m.unique[v].data # o
  BY <1>m, <1>o, SMTT(30) DEF Owned
<1>4. Owned(n)
  <2>1. ASSUME NEW x \in Shared, n.shared[x].data # nullptr PROVE n.object[n.shared[x].data]
    BY <1>m, <1>n, <1>o, <2>1, SMTT(30) DEF Owned
  <2>2. \A v \in Unique : n.unique[v].data \in Objects => n.object[n.unique[v].data]
    BY <1>m, <1>u, Addresses, SMTT(30) DEF Owned
  <2>3. ASSUME NEW x \in Shared, NEW y \in Shared, n.shared[x].data # nullptr,
               n.shared[x].data = n.shared[y].data
        PROVE  n.shared[x].count = n.shared[y].count
    BY <1>m, <1>n, <1>3, <2>3 DEF Owned
  <2>4. ASSUME NEW x \in Shared, NEW v \in Unique, n.shared[x].data # nullptr
        PROVE  n.shared[x].data # n.unique[v].data
    <3>1. CASE v = u
      BY <1>u, <2>4, <3>1, ZenonT(30)
    <3>2. CASE v # u
      BY <1>m, <1>n, <1>3, <2>4, <3>2, SMTT(30) DEF Owned
    <3> QED
      BY <3>1, <3>2, Zenon
  <2>5. \A v, w \in Unique :
          n.unique[v].data \in Objects /\ n.unique[v].data = n.unique[w].data => v = w
    BY <1>m, <1>u, Addresses DEF Owned
  <2>6. ASSUME NEW x \in Objects, n.object[x]
        PROVE  (\E y \in Shared : n.shared[y].data = x) \/ \E v \in Unique : n.unique[v].data = x
    <3>1. (\E y \in Shared : m.shared[y].data = x) \/ \E v \in Unique : m.unique[v].data = x
      BY <1>m, <2>6, Zenon DEF Owned
    <3>2. x # nullptr
      BY Addresses, Zenon
    <3>3. CASE \E y \in Shared : m.shared[y].data = x
      BY <1>n, <3>2, <3>3, Zenon
    <3>4. CASE \E v \in Unique : m.unique[v].data = x
      BY <1>n, <1>o, <3>4, Zenon
    <3> QED
      BY <3>1, <3>3, <3>4, Zenon
  <2> QED
    BY <2>1, <2>2, <2>3, <2>4, <2>5, <2>6, SMTT(30) DEF Owned
<1> QED
  BY <1>n, <1>1, <1>2, <1>4, Zenon DEF Sound, Shapes

-----------------------------------------------------------------------------
\* What setting a UniquePointer does.
UniqueIs(m, n, u, r) ==
    /\ n \in Memories /\ n.shared = m.shared /\ n.count = m.count /\ n.object = m.object
    /\ n.unique[u] = r /\ \A v \in Unique \ {u} : n.unique[v] = m.unique[v]

Uniques ==
    [state : {"raw", "live"}, data : Objects \cup Statics \cup {nullptr}, should_leak : BOOLEAN]

LEMMA UniqueSet ==
    ASSUME NEW m \in Memories, NEW u \in Unique, NEW r \in Uniques
    PROVE  UniqueIs(m, [m EXCEPT !.unique[u] = r], u, r)
<1> DEFINE n == [m EXCEPT !.unique[u] = r]
<1>m. m.unique \in [Unique -> Uniques] /\ DOMAIN m = {"shared", "unique", "count", "object", "misused"}
  BY Zenon DEF Memories, Uniques
<1>1. /\ n.unique = [m.unique EXCEPT ![u] = r]
      /\ n.shared = m.shared /\ n.object = m.object /\ n.count = m.count /\ n.misused = m.misused
  BY <1>m, Zenon
<1>r. n = [shared |-> n.shared, unique |-> n.unique, count |-> n.count, object |-> n.object,
           misused |-> n.misused]
  BY <1>m
<1>2. /\ n.unique \in [Unique -> Uniques] /\ n.unique[u] = r
      /\ \A v \in Unique \ {u} : n.unique[v] = m.unique[v]
  BY <1>1, <1>m, Zenon
<1>3. n \in Memories
  BY <1>1, <1>2, <1>r, Zenon DEF Memories, Uniques
<1> QED
  BY <1>1, <1>2, <1>3, Zenon DEF UniqueIs

\* The steps of UniquePointers leave the counts alone.
LEMMA SameCounts ==
    ASSUME NEW m, Sound(m), NEW n, n.shared = m.shared, n.count = m.count
    PROVE  (\A c \in Counts : Counted(n, c)) /\ SharedShapes(n)
<1>1. ASSUME NEW c \in Counts PROVE Counted(n, c)
  <2>1. Counted(m, c) /\ Owners(n, c) = Owners(m, c)
    BY Zenon DEF Sound, Owners
  <2> QED
    BY <2>1, Zenon DEF Counted
<1>2. SharedShapes(n)
  BY DEF Sound, Shapes, SharedShapes
<1> QED
  BY <1>1, <1>2, Zenon

\* A UniquePointer that has no object of the heap, before and after the step.
LEMMA NoObject ==
    ASSUME NEW m, Sound(m), NEW u \in Unique, m.unique[u].data \notin Objects,
           NEW n, NEW r, UniqueIs(m, n, u, r), r.data \notin Objects,
           r.state = "raw" => r.data = nullptr, r.data \in Statics => r.should_leak
    PROVE  Sound(n)
<1>m. m \in Memories /\ Shapes(m) /\ Owned(m)
  BY Zenon DEF Sound
<1>n. /\ n \in Memories /\ n.shared = m.shared /\ n.count = m.count /\ n.object = m.object
      /\ n.unique[u] = r /\ \A v \in Unique \ {u} : n.unique[v] = m.unique[v]
  BY Zenon DEF UniqueIs
<1>1. (\A c \in Counts : Counted(n, c)) /\ SharedShapes(n)
  BY <1>n, SameCounts, Zenon
<1>2. UniqueShapes(n)
  BY <1>m, <1>n DEF Shapes, UniqueShapes
<1>3. Owned(n)
  <2>1. \A v \in Unique : n.unique[v].data \in Objects => v # u /\ n.unique[v] = m.unique[v]
    BY <1>n, Zenon
  <2>2. /\ \A x \in Shared : n.shared[x].data # nullptr => n.object[n.shared[x].data]
        /\ \A x, y \in Shared :
             n.shared[x].data # nullptr /\ n.shared[x].data = n.shared[y].data
               => n.shared[x].count = n.shared[y].count
    BY <1>m, <1>n, SMTT(30) DEF Owned
  <2>3. /\ \A v \in Unique : n.unique[v].data \in Objects => n.object[n.unique[v].data]
        /\ \A v, w \in Unique :
             n.unique[v].data \in Objects /\ n.unique[v].data = n.unique[w].data => v = w
    BY <1>m, <1>n, <2>1, SMTT(30) DEF Owned
  <2>4. ASSUME NEW x \in Shared, NEW v \in Unique, n.shared[x].data # nullptr
        PROVE  n.shared[x].data # n.unique[v].data
    <3>1. n.shared[x].data \in Objects
      BY <1>n, <2>4 DEF Memories
    <3> QED
      BY <1>m, <1>n, <2>1, <2>4, <3>1 DEF Owned
  <2>5. ASSUME NEW o \in Objects, n.object[o]
        PROVE  (\E x \in Shared : n.shared[x].data = o) \/ \E v \in Unique : n.unique[v].data = o
    <3>1. (\E x \in Shared : m.shared[x].data = o) \/ \E v \in Unique : m.unique[v].data = o
      BY <1>m, <1>n, <2>5, Zenon DEF Owned
    <3> QED
      BY <1>n, <3>1, Zenon
  <2> QED
    BY <2>2, <2>3, <2>4, <2>5, Zenon DEF Owned
<1> QED
  BY <1>n, <1>1, <1>2, <1>3, Zenon DEF Sound, Shapes

\* A UniquePointer that has nothing is given a new object.
LEMMA UniqueNew ==
    ASSUME NEW m, Sound(m), NEW u \in Unique, m.unique[u].data \notin Objects,
           NEW o \in Objects, ~m.object[o], NEW n, n \in Memories, n.shared = m.shared, n.count = m.count,
           n.unique[u] = [state |-> "live", data |-> o, should_leak |-> FALSE],
           \A v \in Unique \ {u} : n.unique[v] = m.unique[v],
           \A x \in Objects : n.object[x] = (m.object[x] \/ x = o)
    PROVE  Sound(n)
<1>m. m \in Memories /\ Shapes(m) /\ Owned(m)
  BY Zenon DEF Sound
<1>u. n.unique[u].state = "live" /\ n.unique[u].data = o /\ ~n.unique[u].should_leak
  OBVIOUS
<1>1. (\A c \in Counts : Counted(n, c)) /\ SharedShapes(n)
  BY SameCounts, Zenon
<1>2. UniqueShapes(n)
  BY <1>m, <1>u, Addresses, SMTT(30) DEF Shapes, UniqueShapes
<1>3. /\ \A x \in Shared : m.shared[x].data # o
      /\ \A v \in Unique : m.unique[v].data # o
  BY <1>m, Addresses DEF Owned
<1>4. Owned(n)
  <2>1. ASSUME NEW x \in Shared, n.shared[x].data # nullptr PROVE n.object[n.shared[x].data]
    <3>1. m.shared[x].data \in Objects
      BY <1>m, <2>1 DEF Memories
    <3> QED
      BY <1>m, <2>1, <3>1, Zenon DEF Owned
  <2>2. ASSUME NEW v \in Unique, n.unique[v].data \in Objects PROVE n.object[n.unique[v].data]
    <3>1. CASE v = u
      BY <1>u, <3>1, Zenon
    <3>2. CASE v # u
      <4>1. n.unique[v] = m.unique[v] /\ m.unique[v].data \in Objects
        BY <2>2, <3>2, Zenon
      <4>2. m.object[m.unique[v].data]
        BY <1>m, <4>1, Zenon DEF Owned
      <4> QED
        BY <4>1, <4>2, Zenon
    <3> QED
      BY <3>1, <3>2, Zenon
  <2>3. \A x, y \in Shared :
          n.shared[x].data # nullptr /\ n.shared[x].data = n.shared[y].data
            => n.shared[x].count = n.shared[y].count
    BY <1>m, SMTT(30) DEF Owned
  <2>4. \A x \in Shared, v \in Unique : n.shared[x].data # nullptr => n.shared[x].data # n.unique[v].data
    BY <1>m, <1>u, <1>3, SMTT(30) DEF Owned
  <2>5. ASSUME NEW v \in Unique, NEW w \in Unique, n.unique[v].data \in Objects,
               n.unique[v].data = n.unique[w].data
        PROVE  v = w
    BY <1>m, <1>u, <1>3, <2>5 DEF Owned
  <2>6. ASSUME NEW x \in Objects, n.object[x]
        PROVE  (\E y \in Shared : n.shared[y].data = x) \/ \E v \in Unique : n.unique[v].data = x
    <3>1. CASE x = o
      BY <1>u, <3>1, Zenon
    <3>2. CASE x # o
      <4>1. (\E y \in Shared : m.shared[y].data = x) \/ \E v \in Unique : m.unique[v].data = x
        BY <1>m, <2>6, <3>2, Zenon DEF Owned
      <4> QED
        BY <4>1, Zenon
    <3> QED
      BY <3>1, <3>2, Zenon
  <2> QED
    BY <2>1, <2>2, <2>3, <2>4, <2>5, <2>6, Zenon DEF Owned
<1> QED
  BY <1>1, <1>2, <1>4, Zenon DEF Sound, Shapes

\* One UniquePointer gives what it has to another, which has nothing.
LEMMA UniqueMoved ==
    ASSUME NEW m, Sound(m), NEW u \in Unique, NEW v \in Unique, u # v, m.unique[u].data = nullptr, NEW k, NEW n,
           UniqueIs(m, k, u, [state |-> "live", data |-> m.unique[v].data,
                              should_leak |-> m.unique[v].should_leak]),
           UniqueIs(k, n, v, [state |-> "live", data |-> nullptr, should_leak |-> FALSE])
    PROVE  Sound(n)
<1>m. m \in Memories /\ Shapes(m) /\ Owned(m)
  BY Zenon DEF Sound
<1>n. /\ n \in Memories /\ n.shared = m.shared /\ n.count = m.count /\ n.object = m.object
      /\ \A w \in Unique \ {u, v} : n.unique[w] = m.unique[w]
  BY Zenon DEF UniqueIs
<1>u. /\ n.unique[u].state = "live" /\ n.unique[u].data = m.unique[v].data
      /\ n.unique[u].should_leak = m.unique[v].should_leak
      /\ n.unique[v].state = "live" /\ n.unique[v].data = nullptr /\ ~n.unique[v].should_leak
  BY DEF UniqueIs
<1>1. (\A c \in Counts : Counted(n, c)) /\ SharedShapes(n)
  BY <1>n, SameCounts, Zenon
<1>2. UniqueShapes(n)
  <2>1. ASSUME NEW w \in Unique
        PROVE  /\ n.unique[w].state = "raw" => n.unique[w].data = nullptr
               /\ n.unique[w].data \in Statics => n.unique[w].should_leak
               /\ n.unique[w].should_leak => n.unique[w].data \notin Objects
    <3>1. CASE w \in {u, v}
      BY <1>m, <1>u, <3>1, Addresses, Zenon DEF Shapes, UniqueShapes
    <3>2. CASE w \notin {u, v}
      BY <1>m, <1>n, <3>2, Zenon DEF Shapes, UniqueShapes
    <3> QED
      BY <3>1, <3>2, Zenon
  <2> QED
    BY <2>1, Zenon DEF UniqueShapes
<1>3. Owned(n)
  <2>1. \A w \in Unique : n.unique[w].data \in Objects =>
          \/ w = u /\ n.unique[w].data = m.unique[v].data
          \/ w # u /\ w # v /\ n.unique[w].data = m.unique[w].data
    BY <1>n, <1>u, Addresses, ZenonT(30)
  <2>2. /\ \A x \in Shared : n.shared[x].data # nullptr => n.object[n.shared[x].data]
        /\ \A x, y \in Shared :
             n.shared[x].data # nullptr /\ n.shared[x].data = n.shared[y].data
               => n.shared[x].count = n.shared[y].count
    BY <1>m, <1>n DEF Owned
  <2>3. ASSUME NEW w \in Unique, n.unique[w].data \in Objects PROVE n.object[n.unique[w].data]
    BY <1>m, <1>n, <2>1, <2>3, ZenonT(30) DEF Owned
  <2>4. ASSUME NEW w \in Unique, NEW z \in Unique, n.unique[w].data \in Objects,
               n.unique[w].data = n.unique[z].data
        PROVE  w = z
    BY <1>m, <2>1, <2>4, SMTT(30) DEF Owned
  <2>5. ASSUME NEW x \in Shared, NEW w \in Unique, n.shared[x].data # nullptr
        PROVE  n.shared[x].data # n.unique[w].data
    <3>1. n.shared[x].data \in Objects
      BY <1>n, <2>5, Zenon DEF Memories
    <3> QED
      BY <1>m, <1>n, <2>1, <2>5, <3>1 DEF Owned
  <2>6. ASSUME NEW o \in Objects, n.object[o]
        PROVE  (\E x \in Shared : n.shared[x].data = o) \/ \E w \in Unique : n.unique[w].data = o
    <3>1. (\E x \in Shared : m.shared[x].data = o) \/ \E w \in Unique : m.unique[w].data = o
      BY <1>m, <1>n, <2>6, Zenon DEF Owned
    <3>2. CASE \E x \in Shared : m.shared[x].data = o
      BY <1>n, <3>2, Zenon
    <3>3. CASE \E w \in Unique : m.unique[w].data = o
      <4>1. PICK w \in Unique : m.unique[w].data = o
        BY <3>3, Zenon
      <4>2. w # u
        BY <4>1, Addresses, Zenon
      <4>3. CASE w = v
        BY <1>u, <4>1, <4>3, Zenon
      <4>4. CASE w # v
        BY <1>n, <4>1, <4>2, <4>4, Zenon
      <4> QED
        BY <4>3, <4>4, Zenon
    <3> QED
      BY <3>1, <3>2, <3>3, Zenon
  <2> QED
    BY <2>2, <2>3, <2>4, <2>5, <2>6, Zenon DEF Owned
<1> QED
  BY <1>n, <1>1, <1>2, <1>3, Zenon DEF Sound, Shapes

\* A UniquePointer is left with nothing, and what it had is deleted.
UniqueEmptied(m, n, u) ==
    /\ n.unique[u] = [m.unique[u] EXCEPT !.data = nullptr]
    /\ \A v \in Unique \ {u} : n.unique[v] = m.unique[v]

LEMMA UniqueDeleted ==
    ASSUME NEW m, Sound(m), NEW u \in Unique, NEW o, o = m.unique[u].data, o \in Objects, NEW n,
           n \in Memories, n.shared = m.shared, n.count = m.count,
           \A x \in Objects : n.object[x] = (m.object[x] /\ x # o), UniqueEmptied(m, n, u)
    PROVE  Sound(n)
<1>m. m \in Memories /\ Shapes(m) /\ Owned(m)
  BY Zenon DEF Sound
<1>u. /\ n.unique[u].data = nullptr /\ n.unique[u].should_leak = m.unique[u].should_leak
      /\ \A v \in Unique \ {u} : n.unique[v] = m.unique[v]
  BY <1>m DEF UniqueEmptied, Memories
<1>1. (\A c \in Counts : Counted(n, c)) /\ SharedShapes(n)
  BY SameCounts, Zenon
<1>2. UniqueShapes(n)
  BY <1>m, <1>u, Addresses, SMTT(30) DEF Shapes, UniqueShapes
<1>3. /\ \A x \in Shared : m.shared[x].data # o
      /\ \A v \in Unique \ {u} : m.unique[v].data # o
  BY <1>m, Addresses DEF Owned
<1>4. Owned(n)
  <2>1. ASSUME NEW x \in Shared, n.shared[x].data # nullptr PROVE n.object[n.shared[x].data]
    <3>1. m.shared[x].data \in Objects /\ m.shared[x].data # o
      BY <1>m, <1>3, <2>1, Zenon DEF Memories
    <3>2. m.object[m.shared[x].data]
      BY <1>m, <2>1, Zenon DEF Owned
    <3> QED
      BY <3>1, <3>2, Zenon
  <2>2. ASSUME NEW v \in Unique, n.unique[v].data \in Objects PROVE n.object[n.unique[v].data]
    <3>1. v # u /\ n.unique[v].data = m.unique[v].data /\ m.unique[v].data # o
      BY <1>u, <1>3, <2>2, Addresses, Zenon
    <3>2. m.object[m.unique[v].data]
      BY <1>m, <2>2, <3>1, Zenon DEF Owned
    <3> QED
      BY <2>2, <3>1, <3>2, Zenon
  <2>3. \A x, y \in Shared :
          n.shared[x].data # nullptr /\ n.shared[x].data = n.shared[y].data
            => n.shared[x].count = n.shared[y].count
    BY <1>m, SMTT(30) DEF Owned
  <2>4. \A x \in Shared, v \in Unique : n.shared[x].data # nullptr => n.shared[x].data # n.unique[v].data
    BY <1>m, <1>u, SMTT(30) DEF Owned
  <2>5. \A v, w \in Unique :
          n.unique[v].data \in Objects /\ n.unique[v].data = n.unique[w].data => v = w
    BY <1>m, <1>u, Addresses DEF Owned
  <2>6. ASSUME NEW x \in Objects, n.object[x]
        PROVE  (\E y \in Shared : n.shared[y].data = x) \/ \E v \in Unique : n.unique[v].data = x
    <3>1. m.object[x] /\ x # o
      BY <2>6, Zenon
    <3>2. (\E y \in Shared : m.shared[y].data = x) \/ \E v \in Unique : m.unique[v].data = x
      BY <1>m, <3>1, Zenon DEF Owned
    <3> QED
      BY <1>u, <3>1, <3>2, Zenon
  <2> QED
    BY <2>1, <2>2, <2>3, <2>4, <2>5, <2>6, Zenon DEF Owned
<1> QED
  BY <1>1, <1>2, <1>4, Zenon DEF Sound, Shapes

LEMMA ReleaseUnique ==
    ASSUME NEW m, Sound(m), NEW u \in Unique
    PROVE  Sound(release_unique(m, u)) /\ UniqueEmptied(m, release_unique(m, u), u)
<1> DEFINE o == m.unique[u].data
           k == IF m.unique[u].should_leak THEN m ELSE delete_data(m, o)
           r == [m.unique[u] EXCEPT !.data = nullptr]
           n == [k EXCEPT !.unique[u] = r]
<1>m. m \in Memories /\ Shapes(m) /\ Owned(m)
  BY Zenon DEF Sound
<1>r. /\ r \in Uniques /\ r.data = nullptr /\ r.state = m.unique[u].state
      /\ m.unique[u] \in Uniques
  BY <1>m, Zenon DEF Memories, Uniques
<1>n. release_unique(m, u) = [k EXCEPT !.unique[u].data = nullptr]
  BY Zenon DEF release_unique
<1>1. CASE o \notin Objects
  <2>1. m.unique[u].should_leak \/ o = nullptr
    BY <1>m, <1>1, <1>r, Zenon DEF Shapes, UniqueShapes, Uniques
  <2>2. k = m
    BY <2>1, Zenon DEF delete_data
  <2>3. n = release_unique(m, u)
    BY <1>n, <1>m, <2>2, Zenon DEF Memories
  <2>4. UniqueIs(m, n, u, r)
    BY <1>m, <1>r, <2>2, UniqueSet, Zenon
  <2> HIDE DEF n, r
  <2>5. r.data \notin Objects /\ r.data \notin Statics
    BY <1>r, Addresses, Zenon
  <2>6. Sound(n)
    BY <1>1, <1>r, <2>4, <2>5, NoObject, Zenon
  <2>7. UniqueEmptied(m, n, u)
    BY <2>4, Zenon DEF UniqueIs, UniqueEmptied, r
  <2> QED
    BY <2>3, <2>6, <2>7, Zenon
<1>2. CASE o \in Objects
  <2>1. ~m.unique[u].should_leak /\ m.object[o]
    BY <1>m, <1>2, Zenon DEF Shapes, UniqueShapes, Owned
  <2>2. k = delete_data(m, o)
    BY <2>1, Zenon
  <2>3. /\ k \in Memories /\ k.shared = m.shared /\ k.unique = m.unique /\ k.count = m.count
        /\ \A x \in Objects : k.object[x] = (m.object[x] /\ x # o)
    BY <1>m, <1>2, <2>1, <2>2, DataDeleted
  <2> HIDE DEF k
  <2>4. n = release_unique(m, u)
    BY <1>n, <2>3, Zenon DEF Memories
  <2>5. UniqueIs(k, n, u, r)
    BY <1>r, <2>3, UniqueSet, Zenon
  <2> HIDE DEF n
  <2>6. UniqueEmptied(m, n, u)
    BY <2>3, <2>5, Zenon DEF UniqueIs, UniqueEmptied
  <2>7. /\ n \in Memories /\ n.shared = m.shared /\ n.count = m.count
        /\ \A x \in Objects : n.object[x] = (m.object[x] /\ x # o)
    BY <2>3, <2>5 DEF UniqueIs
  <2>8. Sound(n)
    BY <1>2, <2>6, <2>7, UniqueDeleted
  <2> QED
    BY <2>4, <2>6, <2>8, Zenon
<1> QED
  BY <1>1, <1>2, Zenon

-----------------------------------------------------------------------------
\* The actions of SharedPointers.
LEMMA SharedConstructed ==
    ASSUME Sound(memory), NEW s \in Shared, ConstructShared(s)
    PROVE  Sound(memory')
<1>m. /\ memory \in Memories /\ memory.shared[s].state = "raw" /\ memory.shared[s].count = nullptr
      /\ memory.shared[s].data = nullptr
  BY Zenon DEF Sound, Shapes, SharedShapes, ConstructShared
<1>1. CASE memory' = SetShared(memory, s, "live", nullptr, nullptr)
  <2>1. SetTo(memory, memory', s, "live", nullptr, nullptr)
    BY <1>m, <1>1, SharedSet, Zenon
  <2>2. /\ Changed(memory, memory', s) /\ memory'.object = memory.object /\ memory'.count = memory.count
        /\ memory'.shared[s].state = "live" /\ memory'.shared[s].data = nullptr
        /\ memory'.shared[s].count = nullptr
    BY <2>1, Zenon DEF SetTo
  <2>3. SharedShapes(memory') /\ UniqueShapes(memory')
    BY <2>2 DEF Sound, Shapes, SharedShapes, UniqueShapes, Changed
  <2>4. ASSUME NEW c \in Counts PROVE Counted(memory', c)
    BY <1>m, <2>2, SameOwners, Addresses, Zenon DEF Sound
  <2>5. SameHeld(memory, memory')
    BY <1>m, <2>2, Zenon DEF SameHeld, Changed
  <2>6. Owned(memory')
    BY <2>5, SameOwned, Zenon DEF Sound
  <2> QED
    BY <2>2, <2>3, <2>4, <2>6, Zenon DEF Sound, Shapes, Changed
<1>2. ASSUME NEW o \in FreshObjects, NEW c \in FreshCounts,
             memory' = SetShared([memory EXCEPT !.object[o] = TRUE, !.count[c] = 1], s, "live", o, c)
      PROVE  Sound(memory')
  <2> DEFINE k == [memory EXCEPT !.object[o] = TRUE, !.count[c] = 1]
  <2>1. o \in Objects /\ ~memory.object[o] /\ c \in Counts /\ memory.count[c] = -1
    BY Zenon DEF FreshObjects, FreshCounts
  <2>2. /\ memory.count \in [Counts -> Int] /\ memory.object \in [Objects -> BOOLEAN]
        /\ DOMAIN memory = {"shared", "unique", "count", "object", "misused"}
    BY <1>m, Zenon DEF Memories
  <2>k. k = [memory EXCEPT !.object[o] = TRUE, !.count[c] = 1]
    BY Zenon
  <2>7. memory' = SetShared(k, s, "live", o, c)
    BY <1>2, Zenon
  <2> HIDE DEF k
  <2>3. /\ k.shared = memory.shared /\ k.unique = memory.unique /\ k.misused = memory.misused
        /\ k.object = [memory.object EXCEPT ![o] = TRUE] /\ k.count = [memory.count EXCEPT ![c] = 1]
    BY <2>k, <2>2, Zenon
  <2>4. k = [shared |-> k.shared, unique |-> k.unique, count |-> k.count, object |-> k.object,
             misused |-> k.misused]
    BY <2>k, <2>2, Zenon
  <2>5. /\ k.object \in [Objects -> BOOLEAN] /\ k.count \in [Counts -> Int]
        /\ k.count[c] = 1 /\ \A d \in Counts \ {c} : k.count[d] = memory.count[d]
        /\ \A x \in Objects : k.object[x] = (memory.object[x] \/ x = o)
    <3>1. /\ k.count \in [Counts -> Int] /\ k.count[c] = 1
          /\ \A d \in Counts \ {c} : k.count[d] = memory.count[d]
      BY <2>1, <2>2, <2>3
    <3>2. k.object \in [Objects -> BOOLEAN] /\ \A x \in Objects : k.object[x] = (memory.object[x] \/ x = o)
      BY <2>1, <2>2, <2>3, Zenon
    <3> QED
      BY <3>1, <3>2, Zenon
  <2>6. k \in Memories
    BY <1>m, <2>3, <2>4, <2>5, Zenon DEF Memories
  <2>8. SetTo(k, memory', s, "live", o, c)
    BY <2>1, <2>6, <2>7, SharedSet, Zenon
  <2>9. Counting(memory, memory', s, o, c) /\ memory'.unique = memory.unique
        /\ \A x \in Objects : memory'.object[x] = (memory.object[x] \/ x = o)
    BY <2>3, <2>5, <2>8, ZenonT(30) DEF SetTo, Changed, Counting, KeptOutside
  <2> QED
    BY <1>m, <2>1, <2>9, NewObject, Zenon
<1> QED
  BY <1>1, <1>2, Zenon DEF ConstructShared

\* What SetShared() gives, for the state a SharedPointer may be set to.
LEMMA SharedCopied ==
    ASSUME NEW m, Sound(m), NEW s \in Shared, NEW t \in Shared
    PROVE  SetTo(m, SetShared(m, s, "live", m.shared[t].data, m.shared[t].count), s, "live",
                 m.shared[t].data, m.shared[t].count)
<1>1. m \in Memories /\ m.shared[t].data \in Objects \cup {nullptr} /\ m.shared[t].count \in Counts \cup {nullptr}
  BY Zenon DEF Sound, Memories
<1> QED
  BY <1>1, SharedSet, Zenon

LEMMA SharedCopyMade ==
    ASSUME NEW m, Sound(m), NEW s \in Shared, NEW t \in Shared, s # t,
           m.shared[s].count = nullptr, m.shared[t].state = "live"
    PROVE  /\ Sound(acquire_unlocked(SetShared(m, s, "live", m.shared[t].data, m.shared[t].count), s))
           /\ Sound(SetShared(SetShared(m, s, "live", m.shared[t].data, m.shared[t].count),
                              t, "live", nullptr, nullptr))
<1> DEFINE k == SetShared(m, s, "live", m.shared[t].data, m.shared[t].count)
<1>1. SetTo(m, k, s, "live", m.shared[t].data, m.shared[t].count)
  BY SharedCopied, Zenon
<1> HIDE DEF k
<1>2. Sound(acquire_unlocked(k, s))
  BY <1>1, Copy, Zenon
<1>3. k \in Memories
  BY <1>1, Zenon DEF SetTo, Changed
<1>4. SetTo(k, SetShared(k, t, "live", nullptr, nullptr), t, "live", nullptr, nullptr)
  BY <1>3, SharedSet, Zenon
<1>5. Sound(SetShared(k, t, "live", nullptr, nullptr))
  BY <1>1, <1>4, Move, Zenon
<1> QED
  BY <1>2, <1>5, Zenon DEF k

LEMMA SharedTaken ==
    ASSUME Sound(memory), NEW s \in Shared, NEW other \in Shared,
           \/ CopyConstruct(s, other) \/ MoveConstruct(s, other)
           \/ CopyAssign(s, other) \/ MoveAssign(s, other)
    PROVE  Sound(memory')
<1>1. CASE CopyConstruct(s, other) \/ MoveConstruct(s, other)
  <2>1. /\ memory.shared[s].state = "raw" /\ memory.shared[other].state = "live" /\ s # other
        /\ memory.shared[s].count = nullptr
    BY <1>1, Zenon DEF CopyConstruct, MoveConstruct, LiveShared, Sound, Shapes, SharedShapes
  <2> QED
    BY <1>1, <2>1, SharedCopyMade, Zenon DEF CopyConstruct, MoveConstruct
<1>2. CASE CopyAssign(s, other) \/ MoveAssign(s, other)
  <2> DEFINE m == release_unlocked(memory, s)
  <2>1. /\ memory.shared[s].state = "live" /\ memory.shared[other].state = "live" /\ s # other
    BY <1>2, Zenon DEF CopyAssign, MoveAssign, LiveShared
  <2>2. Sound(m) /\ Emptied(memory, m, s, "live")
    BY <2>1, Release, Zenon
  <2>3. \/ memory' = acquire_unlocked(SetShared(m, s, "live", m.shared[other].data, m.shared[other].count), s)
        \/ memory' = SetShared(SetShared(m, s, "live", m.shared[other].data, m.shared[other].count),
                               other, "live", nullptr, nullptr)
    BY <1>2, Zenon DEF CopyAssign, MoveAssign
  <2> HIDE DEF m
  <2>4. m.shared[s].count = nullptr /\ m.shared[other].state = "live"
    BY <2>1, <2>2, Zenon DEF Emptied, Changed
  <2> QED
    BY <2>1, <2>2, <2>3, <2>4, SharedCopyMade, Zenon
<1> QED
  BY <1>1, <1>2, Zenon

LEMMA UniqueTaken ==
    ASSUME NEW m, Sound(m), NEW s \in Shared, m.shared[s].count = nullptr, NEW u \in Unique,
           m.unique[u].data \notin Statics, NEW c \in Counts, m.count[c] = -1
    PROVE  Sound(FromUnique(m, s, u, c))
<1> DEFINE o == m.unique[u].data
           k == SetShared(m, s, "live", o, c)
           n == FromUnique(m, s, u, c)
           r == [state |-> "live", data |-> nullptr, should_leak |-> FALSE]
<1>1. m \in Memories /\ o \in Objects \cup {nullptr}
  BY Zenon DEF Sound, Memories
<1>2. SetTo(m, k, s, "live", o, c)
  BY <1>1, SharedSet, Zenon
<1>3. n = [k EXCEPT !.count[c] = 1, !.unique[u] = r]
  BY Zenon DEF FromUnique
<1> HIDE DEF k, n
<1>4. /\ k \in Memories /\ k.count \in [Counts -> Int] /\ k.unique \in [Unique -> Uniques] /\ r \in Uniques
      /\ DOMAIN k = {"shared", "unique", "count", "object", "misused"}
      /\ k.unique = m.unique /\ k.count = m.count /\ k.object = m.object
  BY <1>2, Zenon DEF SetTo, Changed, Memories, Uniques
<1> HIDE DEF r
<1>5. /\ n.shared = k.shared /\ n.object = k.object /\ n.misused = k.misused
      /\ n.count = [k.count EXCEPT ![c] = 1] /\ n.unique = [k.unique EXCEPT ![u] = r]
  BY <1>3, <1>4, Zenon
<1>6. n = [shared |-> n.shared, unique |-> n.unique, count |-> n.count, object |-> n.object,
           misused |-> n.misused]
  BY <1>3, <1>4, Zenon
<1>7. /\ n.count \in [Counts -> Int] /\ n.count[c] = 1 /\ \A d \in Counts \ {c} : n.count[d] = m.count[d]
  BY <1>4, <1>5
<1>8. /\ n.unique \in [Unique -> Uniques] /\ n.unique[u] = r
      /\ \A v \in Unique \ {u} : n.unique[v] = m.unique[v]
  BY <1>4, <1>5, Zenon
<1>9. n \in Memories
  BY <1>4, <1>5, <1>6, <1>7, <1>8, Zenon DEF Memories, Uniques
<1>10. Counting(m, n, s, o, c)
  BY <1>2, <1>5, <1>7, <1>9, Zenon DEF SetTo, Changed, Counting, KeptOutside
<1>11. n.object = m.object
  BY <1>4, <1>5, Zenon
<1>12. Sound(n)
  BY <1>8, <1>10, <1>11, Convert, Zenon DEF r
<1> QED
  BY <1>12, Zenon DEF n

LEMMA UniqueConverted ==
    ASSUME Sound(memory), NEW s \in Shared, NEW u \in Unique,
           ConstructFromUnique(s, u) \/ AssignFromUnique(s, u)
    PROVE  Sound(memory')
<1>1. CASE ConstructFromUnique(s, u)
  <2>1. memory.shared[s].count = nullptr /\ memory.unique[u].data \notin Statics
    BY <1>1, Zenon DEF ConstructFromUnique, Convertible, Sound, Shapes, SharedShapes
  <2>2. PICK c \in Counts : memory.count[c] = -1 /\ memory' = FromUnique(memory, s, u, c)
    BY <1>1, Zenon DEF ConstructFromUnique, FreshCounts
  <2> QED
    BY <2>1, <2>2, UniqueTaken, Zenon
<1>2. CASE AssignFromUnique(s, u)
  <2> DEFINE m == release_unlocked(memory, s)
  <2>1. memory.shared[s].state = "live" /\ memory.unique[u].data \notin Statics
    BY <1>2, Zenon DEF AssignFromUnique, Convertible, LiveShared
  <2>2. Sound(m) /\ Emptied(memory, m, s, "live")
    BY <2>1, Release, Zenon
  <2>3. PICK c \in Counts : m.count[c] = -1 /\ memory' = FromUnique(m, s, u, c)
    BY <1>2, Zenon DEF AssignFromUnique
  <2> HIDE DEF m
  <2>4. m.shared[s].count = nullptr /\ m.unique[u].data \notin Statics
    BY <2>1, <2>2, Zenon DEF Emptied, Changed
  <2> QED
    BY <2>2, <2>3, <2>4, UniqueTaken, Zenon
<1> QED
  BY <1>1, <1>2, Zenon

\* The destructor, in its two steps.
LEMMA SharedDestroyed ==
    ASSUME Sound(memory), NEW s \in Shared, DestroyShared(s)
    PROVE  Sound(memory')
<1> DEFINE f == fetch_sub(memory, s)
           p == memory.shared[s]
<1>m. /\ memory \in Memories /\ p.state = "live" /\ p.data \in Objects \cup {nullptr}
      /\ p.count \in Counts \cup {nullptr}
  BY Zenon DEF Sound, Memories, DestroyShared, LiveShared
<1>1. f \in Memories /\ f.shared = memory.shared
  <2>1. CASE p.count = nullptr
    BY <1>m, <2>1, Zenon DEF fetch_sub
  <2>2. CASE p.count # nullptr
    <3>1. Recounted(memory, f, p.count, -1)
      BY <1>m, <2>2, LiveCounted, Subtracted
    <3> QED
      BY <3>1, Zenon DEF Recounted
  <2> QED
    BY <2>1, <2>2, Zenon
<1>2. memory' = IF IsLast(f, s) THEN [f EXCEPT !.shared[s].state = "last"]
                ELSE [f EXCEPT !.shared[s] = NotAlive]
  BY Zenon DEF DestroyShared
<1> HIDE DEF f
<1>3. CASE IsLast(f, s)
  <2>1. p = [state |-> p.state, data |-> p.data, count |-> p.count]
    BY <1>m, Zenon DEF Memories
  <2>2. [p EXCEPT !.state = "last"] = [state |-> "last", data |-> p.data, count |-> p.count]
    BY <2>1
  <2>3. memory' = [f EXCEPT !.shared[s] = [p EXCEPT !.state = "last"]]
    BY <1>1, <1>2, <1>3, Zenon DEF Memories
  <2>4. memory' = SetShared(f, s, "last", p.data, p.count)
    BY <2>2, <2>3, Zenon DEF SetShared
  <2>5. SetTo(f, memory', s, "last", p.data, p.count)
    BY <1>m, <1>1, <2>4, SharedSet, Zenon
  <2> QED
    BY <1>m, <1>3, <2>5, Expire, Zenon DEF f
<1>4. CASE ~IsLast(f, s)
  <2>1. memory' = SetShared(f, s, "raw", nullptr, nullptr)
    BY <1>2, <1>4, Zenon DEF SetShared, NotAlive
  <2>2. SetTo(f, memory', s, "raw", nullptr, nullptr)
    BY <1>1, <2>1, SharedSet, Zenon
  <2> QED
    BY <1>m, <1>4, <2>2, Leave, Zenon DEF f
<1> QED
  BY <1>3, <1>4, Zenon

LEMMA LastDeleted ==
    ASSUME Sound(memory), NEW s \in Shared, DeleteLast(s)
    PROVE  Sound(memory')
<1> DEFINE p == memory.shared[s]
           d == DeleteBoth(memory, s)
<1>m. /\ memory \in Memories /\ p.state = "last" /\ p.count \in Counts
      /\ p.data # nullptr => memory.object[p.data]
  BY Zenon DEF Sound, Memories, DeleteLast, Shapes, SharedShapes, Owned
<1>1. SetTo(memory, memory, s, "last", p.data, p.count)
  BY <1>m, Zenon DEF SetTo, Changed
<1>2. memory.count[p.count] >= 0
  <2>1. Counted(memory, p.count) /\ s \in Owners(memory, p.count) /\ memory.count[p.count] \in Int
    BY <1>m, Zenon DEF Sound, Owners, Memories
  <2> QED
    BY <2>1 DEF Counted
<1>3. Freed(memory, d, p.count, p.data)
  BY <1>m, <1>2, BothDeleted, Zenon
<1>4. d \in Memories
  BY <1>3, Zenon DEF Freed
<1>5. memory' = SetShared(d, s, "raw", nullptr, nullptr)
  BY Zenon DEF DeleteLast, SetShared, NotAlive
<1>6. SetTo(d, memory', s, "raw", nullptr, nullptr)
  BY <1>4, <1>5, SharedSet, Zenon
<1> QED
  BY <1>m, <1>1, <1>6, Delete, Zenon

-----------------------------------------------------------------------------
\* The actions of UniquePointers.
LEMMA UniqueConstructed ==
    ASSUME Sound(memory), NEW u \in Unique, ConstructUnique(u)
    PROVE  Sound(memory')
<1>m. /\ memory \in Memories /\ memory.unique[u].data = nullptr /\ memory.unique[u].data \notin Objects
  BY Addresses, Zenon DEF Sound, Shapes, UniqueShapes, ConstructUnique
<1>1. ASSUME NEW o \in Statics \cup {nullptr}, NEW leak \in BOOLEAN, o \in Statics => leak,
             memory' = SetUnique(memory, u, o, leak)
      PROVE  Sound(memory')
  <2> DEFINE r == [state |-> "live", data |-> o, should_leak |-> leak]
  <2>1. r \in Uniques /\ r.state = "live" /\ r.data = o /\ r.should_leak = leak
    BY Zenon DEF Uniques
  <2>2. memory' = [memory EXCEPT !.unique[u] = r]
    BY <1>1, Zenon DEF SetUnique
  <2> HIDE DEF r
  <2>3. UniqueIs(memory, memory', u, r)
    BY <1>m, <2>1, <2>2, UniqueSet, Zenon
  <2>4. r.data \notin Objects
    BY <2>1, Addresses, Zenon
  <2> QED
    BY <1>m, <1>1, <2>1, <2>3, <2>4, NoObject, Zenon
<1>2. ASSUME NEW o \in FreshObjects, memory' = SetUnique([memory EXCEPT !.object[o] = TRUE], u, o, FALSE)
      PROVE  Sound(memory')
  <2> DEFINE r == [state |-> "live", data |-> o, should_leak |-> FALSE]
             k == [memory EXCEPT !.object[o] = TRUE]
  <2>1. o \in Objects /\ ~memory.object[o]
    BY Zenon DEF FreshObjects
  <2>2. /\ memory.object \in [Objects -> BOOLEAN]
        /\ DOMAIN memory = {"shared", "unique", "count", "object", "misused"}
    BY <1>m, Zenon DEF Memories
  <2>3. k = [memory EXCEPT !.object[o] = TRUE] /\ r = [state |-> "live", data |-> o, should_leak |-> FALSE]
    BY Zenon
  <2>4. r \in Uniques
    BY <2>1, Zenon DEF Uniques
  <2>5. memory' = [k EXCEPT !.unique[u] = r]
    BY <1>2, Zenon DEF SetUnique
  <2> HIDE DEF k, r
  <2>6. /\ k.shared = memory.shared /\ k.unique = memory.unique /\ k.count = memory.count
        /\ k.misused = memory.misused /\ k.object = [memory.object EXCEPT ![o] = TRUE]
    BY <2>2, <2>3, Zenon
  <2>7. k = [shared |-> k.shared, unique |-> k.unique, count |-> k.count, object |-> k.object,
             misused |-> k.misused]
    BY <2>2, <2>3, Zenon
  <2>8. k.object \in [Objects -> BOOLEAN] /\ \A x \in Objects : k.object[x] = (memory.object[x] \/ x = o)
    BY <2>1, <2>2, <2>6, Zenon
  <2>9. k \in Memories
    BY <1>m, <2>6, <2>7, <2>8, Zenon DEF Memories
  <2>10. UniqueIs(k, memory', u, r)
    BY <2>4, <2>5, <2>9, UniqueSet, Zenon
  <2>11. /\ memory' \in Memories /\ memory'.shared = memory.shared /\ memory'.count = memory.count
         /\ memory'.unique[u] = r /\ \A v \in Unique \ {u} : memory'.unique[v] = memory.unique[v]
         /\ \A x \in Objects : memory'.object[x] = (memory.object[x] \/ x = o)
    BY <2>6, <2>8, <2>10, Zenon DEF UniqueIs
  <2> QED
    BY <1>m, <2>1, <2>3, <2>11, UniqueNew
<1>3. CASE memory' = SetUnique(memory, u, nullptr, FALSE)
  BY <1>1, <1>3, Addresses, Zenon
<1>4. ASSUME NEW o \in Statics, memory' = SetUnique(memory, u, o, TRUE)
      PROVE  Sound(memory')
  BY <1>1, <1>4, Zenon
<1> QED
  BY <1>2, <1>3, <1>4, Zenon DEF ConstructUnique

LEMMA UniqueGiven ==
    ASSUME NEW m, Sound(m), NEW u \in Unique, NEW other \in Unique, u # other, m.unique[u].data = nullptr
    PROVE  Sound(Moved(m, u, other))
<1> DEFINE r == [state |-> "live", data |-> m.unique[other].data, should_leak |-> m.unique[other].should_leak]
           z == [state |-> "live", data |-> nullptr, should_leak |-> FALSE]
           k == [m EXCEPT !.unique[u] = r]
           n == [k EXCEPT !.unique[other] = z]
<1>1. m \in Memories /\ r \in Uniques /\ z \in Uniques
  BY Zenon DEF Sound, Memories, Uniques
<1>2. Moved(m, u, other) = n
  BY Zenon DEF Moved, SetUnique
<1>3. UniqueIs(m, k, u, r)
  BY <1>1, UniqueSet, Zenon
<1>4. k \in Memories
  BY <1>3, Zenon DEF UniqueIs
<1> HIDE DEF k
<1>5. UniqueIs(k, n, other, z)
  BY <1>1, <1>4, UniqueSet, Zenon
<1> HIDE DEF n
<1>6. Sound(n)
  BY <1>3, <1>5, UniqueMoved, Zenon
<1> QED
  BY <1>2, <1>6, Zenon

LEMMA UniqueMoves ==
    ASSUME Sound(memory), NEW u \in Unique, NEW other \in Unique,
           MoveConstructUnique(u, other) \/ MoveAssignUnique(u, other)
    PROVE  Sound(memory')
<1>1. CASE MoveConstructUnique(u, other)
  <2>1. memory.unique[u].data = nullptr /\ u # other
    BY <1>1, Zenon DEF MoveConstructUnique, LiveUnique, Sound, Shapes, UniqueShapes
  <2> QED
    BY <1>1, <2>1, UniqueGiven, Zenon DEF MoveConstructUnique
<1>2. CASE MoveAssignUnique(u, other)
  <2> DEFINE m == release_unique(memory, u)
  <2>1. Sound(m) /\ UniqueEmptied(memory, m, u)
    BY ReleaseUnique, Zenon
  <2>2. memory' = Moved(m, u, other) /\ u # other
    BY <1>2, Zenon DEF MoveAssignUnique
  <2> HIDE DEF m
  <2>3. m.unique[u].data = nullptr
    BY <2>1 DEF UniqueEmptied, Sound, Memories
  <2> QED
    BY <2>1, <2>2, <2>3, UniqueGiven, Zenon
<1> QED
  BY <1>1, <1>2, Zenon

LEMMA UniqueDestroyed ==
    ASSUME Sound(memory), NEW u \in Unique, DestroyUnique(u)
    PROVE  Sound(memory')
<1> DEFINE m == release_unique(memory, u)
           r == [m.unique[u] EXCEPT !.state = "raw"]
<1>1. Sound(m) /\ UniqueEmptied(memory, m, u)
  BY ReleaseUnique, Zenon
<1>2. memory' = [m EXCEPT !.unique[u].state = "raw"]
  BY Zenon DEF DestroyUnique
<1> HIDE DEF m
<1>3. m \in Memories /\ m.unique[u].data = nullptr
  <2>1. m \in Memories /\ memory.unique[u] \in Uniques
    BY <1>1, Zenon DEF Sound, Memories, Uniques
  <2> QED
    BY <1>1, <2>1, Zenon DEF UniqueEmptied, Uniques
<1>4. r \in Uniques /\ r.data = nullptr
  BY <1>3 DEF Memories, Uniques
<1>5. memory' = [m EXCEPT !.unique[u] = r]
  BY <1>2, <1>3, Zenon DEF Memories
<1> HIDE DEF r
<1>6. UniqueIs(m, memory', u, r)
  BY <1>3, <1>4, <1>5, UniqueSet, Zenon
<1>7. m.unique[u].data \notin Objects /\ r.data \notin Objects /\ r.data \notin Statics
  BY <1>3, <1>4, Addresses, Zenon
<1> QED
  BY <1>1, <1>4, <1>6, <1>7, NoObject, Zenon

-----------------------------------------------------------------------------
\* What the invariant says of the program.
LEMMA SoundOwns ==
    ASSUME Sound(memory)
    PROVE  PointersOwn
<1>m. memory \in Memories /\ Owned(memory) /\ \A c \in Counts : Counted(memory, c)
  BY Zenon DEF Sound
<1>1. CountIsOwners
  <2>1. ASSUME NEW c \in Counts
        PROVE  /\ \A s, t \in Owners(memory, c) : memory.shared[s].data = memory.shared[t].data
               /\ IF memory.count[c] = -1 THEN Owners(memory, c) = {}
                  ELSE IF memory.count[c] = 0
                  THEN \E s \in Owners(memory, c) : Owners(memory, c) = {s} /\ s \notin LiveShared
                  ELSE /\ Owners(memory, c) \subseteq LiveShared
                       /\ memory.count[c] = Cardinality(Owners(memory, c))
    <3>1. Counted(memory, c) /\ memory.count[c] \in Int
      BY <1>m, Zenon DEF Memories
    <3>2. memory.count[c] = -1 => Owners(memory, c) = {}
      BY <3>1, Zenon DEF Counted
    <3>3. ASSUME memory.count[c] = 0
          PROVE  \E s \in Owners(memory, c) : Owners(memory, c) = {s} /\ s \notin LiveShared
      BY <3>1, <3>3, Zenon DEF Counted, LiveShared
    <3>4. ASSUME memory.count[c] # -1, memory.count[c] # 0
          PROVE  /\ Owners(memory, c) \subseteq LiveShared
                 /\ memory.count[c] = Cardinality(Owners(memory, c))
      <4>1. memory.count[c] > 0
        BY <3>1, <3>4 DEF Counted
      <4> QED
        BY <3>1, <4>1, Zenon DEF Counted, LiveShared, Owners
    <3>5. \A s, t \in Owners(memory, c) : memory.shared[s].data = memory.shared[t].data
      BY <3>1, Zenon DEF Counted
    <3> QED
      BY <3>2, <3>3, <3>4, <3>5, Zenon
  <2> QED
    BY <2>1, Zenon DEF CountIsOwners, Owners
<1>2. OwnedIsAlive
  <2>1. ~memory.misused
    BY <1>m, Zenon DEF Memories
  <2>2. ASSUME NEW o \in Objects
        PROVE  Cardinality({memory.shared[s].count : s \in {t \in Shared : memory.shared[t].data = o}})
                 + Cardinality({u \in Unique : memory.unique[u].data = o})
               = (IF memory.object[o] THEN 1 ELSE 0)
    <3> DEFINE holders == {t \in Shared : memory.shared[t].data = o}
               counts == {memory.shared[s].count : s \in holders}
               uniques == {u \in Unique : memory.unique[u].data = o}
    <3>0. o # nullptr /\ memory.object[o] \in BOOLEAN
      BY <1>m, Addresses, Zenon DEF Memories
    <3>1. CASE ~memory.object[o]
      <4>1. holders = {} /\ uniques = {}
        BY <1>m, <3>0, <3>1 DEF Owned
      <4>2. counts = {}
        BY <4>1, Zenon
      <4> HIDE DEF counts, uniques, holders
      <4>3. Cardinality(counts) = 0 /\ Cardinality(uniques) = 0
        BY <4>1, <4>2, FS_EmptySet, Zenon
      <4> QED
        BY <3>1, <4>3, SMTT(30) DEF counts, uniques, holders
    <3>2. CASE memory.object[o] /\ holders # {}
      <4>1. PICK s \in Shared : memory.shared[s].data = o
        BY <3>2, Zenon
      <4>2. uniques = {}
        BY <1>m, <3>0, <4>1 DEF Owned
      <4>3. \A t \in holders : memory.shared[t].count = memory.shared[s].count
        BY <1>m, <3>0, <4>1, Zenon DEF Owned
      <4>4. s \in holders
        BY <4>1, Zenon
      <4> HIDE DEF holders
      <4>5. counts = {memory.shared[s].count}
        BY <4>3, <4>4, Zenon
      <4> HIDE DEF counts, uniques
      <4>6. Cardinality(counts) = 1 /\ Cardinality(uniques) = 0
        BY <4>2, <4>5, FS_EmptySet, FS_Singleton, Zenon
      <4> QED
        BY <3>2, <4>6 DEF counts, uniques, holders
    <3>3. CASE memory.object[o] /\ holders = {}
      <4>1. PICK u \in Unique : memory.unique[u].data = o
        BY <1>m, <3>3, Zenon DEF Owned
      <4>2. uniques = {u}
        BY <1>m, <4>1 DEF Owned
      <4>3. counts = {}
        BY <3>3, Zenon
      <4> HIDE DEF counts, uniques, holders
      <4>4. Cardinality(counts) = 0 /\ Cardinality(uniques) = 1
        BY <4>2, <4>3, FS_EmptySet, FS_Singleton, Zenon
      <4> QED
        BY <3>3, <4>4 DEF counts, uniques, holders
    <3> QED
      BY <3>0, <3>1, <3>2, <3>3, Zenon
  <2> QED
    BY <2>1, <2>2, Zenon DEF OwnedIsAlive
<1> QED
  BY <1>1, <1>2, Zenon DEF PointersOwn

\* For any number of SharedPointers and UniquePointers, objects and counts: an
\* object is there exactly as long as a pointer has it, is deleted once, and a
\* count is the number of its owners, whatever happens between a destructor's
\* fetch_sub() and its deletions.
THEOREM PointersOwnAlways == OwnershipSpec => []PointersOwn
<1>1. ASSUME OwnershipInit
      PROVE  Sound(memory)
  <2>1. /\ memory.shared = [s \in Shared |-> NotAlive]
        /\ memory.unique = [u \in Unique |-> [state |-> "raw", data |-> nullptr, should_leak |-> FALSE]]
        /\ memory.count = [c \in Counts |-> -1] /\ memory.object = [o \in Objects |-> FALSE]
        /\ memory \in Memories
    BY <1>1 DEF OwnershipInit, Memories, NotAlive
  <2>2. /\ \A s \in Shared : /\ memory.shared[s].state = "raw" /\ memory.shared[s].data = nullptr
                             /\ memory.shared[s].count = nullptr
        /\ \A u \in Unique : /\ memory.unique[u].state = "raw" /\ memory.unique[u].data = nullptr
                             /\ ~memory.unique[u].should_leak
    BY <2>1 DEF NotAlive
  <2>3. (\A c \in Counts : memory.count[c] = -1) /\ \A o \in Objects : ~memory.object[o]
    BY <2>1, Zenon
  <2>4. Shapes(memory)
    BY <2>2, Addresses, Zenon DEF Shapes, SharedShapes, UniqueShapes
  <2>5. ASSUME NEW c \in Counts PROVE Counted(memory, c)
    <3>1. Owners(memory, c) = {}
      BY <2>2, Addresses, Zenon DEF Owners
    <3> QED
      BY <2>3, <3>1 DEF Counted
  <2>6. Owned(memory)
    BY <2>2, <2>3, Addresses, Zenon DEF Owned
  <2> QED
    BY <2>1, <2>4, <2>5, <2>6, Zenon DEF Sound
<1>2. ASSUME Sound(memory), [OwnershipNext]_ownershipVars
      PROVE  Sound(memory')
  <2>1. ASSUME NEW s \in Shared, ConstructShared(s) \/ DestroyShared(s) \/ DeleteLast(s)
        PROVE  Sound(memory')
    BY <1>2, <2>1, SharedConstructed, SharedDestroyed, LastDeleted, Zenon
  <2>2. ASSUME NEW s \in Shared, NEW other \in Shared,
               \/ CopyConstruct(s, other) \/ MoveConstruct(s, other)
               \/ CopyAssign(s, other) \/ MoveAssign(s, other)
        PROVE  Sound(memory')
    BY <1>2, <2>2, SharedTaken, Zenon
  <2>3. ASSUME NEW s \in Shared, NEW u \in Unique, ConstructFromUnique(s, u) \/ AssignFromUnique(s, u)
        PROVE  Sound(memory')
    BY <1>2, <2>3, UniqueConverted, Zenon
  <2>4. ASSUME NEW u \in Unique, ConstructUnique(u) \/ DestroyUnique(u)
        PROVE  Sound(memory')
    BY <1>2, <2>4, UniqueConstructed, UniqueDestroyed, Zenon
  <2>5. ASSUME NEW u \in Unique, NEW other \in Unique,
               MoveConstructUnique(u, other) \/ MoveAssignUnique(u, other)
        PROVE  Sound(memory')
    BY <1>2, <2>5, UniqueMoves, Zenon
  <2>6. CASE UNCHANGED ownershipVars
    BY <1>2, <2>6, Zenon DEF ownershipVars
  <2> QED
    BY <1>2, <2>1, <2>2, <2>3, <2>4, <2>5, <2>6, Zenon DEF OwnershipNext
<1>3. OwnershipInit => OwnershipInv
  BY <1>1, Zenon DEF OwnershipInv
<1>4. OwnershipInv /\ [OwnershipNext]_ownershipVars => OwnershipInv'
  BY <1>2, Zenon DEF OwnershipInv
<1>5. OwnershipInv => PointersOwn
  BY SoundOwns, Zenon DEF OwnershipInv
<1> QED
  BY <1>3, <1>4, <1>5, PTL DEF OwnershipSpec
=============================================================================
