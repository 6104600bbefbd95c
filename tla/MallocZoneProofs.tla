-------------------------- MODULE MallocZoneProofs --------------------------
(***************************************************************************)
(* The zone's blocks tile it, free neighbours are merged, every pointer a  *)
(* caller holds is a block in use that is large enough, and the zone       *)
(* implements Heap: for every zone and header size, and every size and     *)
(* alignment asked for, as long as memalign()'s sum does not wrap.         *)
(***************************************************************************)
EXTENDS MallocZone, TLAPS, WellFoundedInduction

-----------------------------------------------------------------------------
(***************************************************************************)
(* find_best_fit() finds a suitable block if there is one.                 *)
(***************************************************************************)
LEMMA LeastNat ==
    ASSUME NEW S, S \subseteq Nat, S # {}
    PROVE  \E x \in S : \A y \in S : x <= y
<1> DEFINE Less == OpToRel(<, Nat)
<1>1. IsWellFoundedOn(Less, Nat)
  BY NatLessThanWellFounded, Zenon
<1>2. \A x, y \in Nat : <<y, x>> \in Less <=> y < x
  BY Zenon DEF OpToRel
<1> HIDE DEF Less
<1>3. \E x \in S : \A y \in S : ~(<<y, x>> \in Less)
  BY <1>1, WFMin, Zenon
<1>4. \E x \in S : \A y \in S : ~(y < x)
  BY <1>2, <1>3, Zenon
<1> QED
  BY <1>4

\* Block b is better than every suitable block.
LEMMA BestFitSuits ==
    ASSUME NEW bs, NEW size \in Nat, NEW align \in Nat \ {0},
           DOMAIN bs \subseteq Nat \ {0},
           \A b \in DOMAIN bs : bs[b].size \in Nat,
           find_best_fit(bs, size, align) # NULL
    PROVE  find_best_fit(bs, size, align) \in Suitable(bs, size, align)
<1> DEFINE S == Suitable(bs, size, align)
           Sizes == {bs[b].size : b \in S}
<1>1. S \subseteq DOMAIN bs /\ S # {}
  BY Zenon DEF Suitable, find_best_fit
<1>2. PICK s \in Sizes : \A r \in Sizes : s <= r
  <2>1. Sizes \subseteq Nat /\ Sizes # {}
    BY <1>1, Zenon
  <2> HIDE DEF Sizes
  <2> QED BY <2>1, LeastNat, Zenon
<1> DEFINE T == {b \in S : bs[b].size = s}
<1>3. PICK t \in T : \A c \in T : t <= c
  <2>1. T \subseteq Nat /\ T # {}
    BY <1>1, <1>2, Zenon
  <2> HIDE DEF T
  <2> QED BY <2>1, LeastNat, Zenon
<1>4. t \in S /\ \A c \in S : Better(bs, t, c)
  <2> SUFFICES ASSUME NEW c \in S PROVE Better(bs, t, c)
    BY <1>3, Zenon
  <2>1. bs[c].size \in Sizes /\ s <= bs[c].size /\ bs[t].size = s
    BY <1>2, <1>3, Zenon
  <2>2. bs[c].size = s => t <= c
    BY <1>3, Zenon
  <2>3. s \in Nat /\ bs[c].size \in Nat
    BY <1>1, <1>2, Zenon
  <2> QED BY <2>1, <2>2, <2>3 DEF Better
<1> QED
  BY <1>1, <1>4, Zenon DEF find_best_fit

-----------------------------------------------------------------------------
(***************************************************************************)
(* The zone, and heaps of blocks that tile it.                             *)
(***************************************************************************)
BlockRec == [prev : Nat, next : Nat, size : Nat, inuse : BOOLEAN, data : {"caller", "junk"}]

IsHeap(bs) ==
    /\ bs \in [DOMAIN bs -> BlockRec]
    /\ DOMAIN bs \subseteq Nat \ {0}
    /\ Tiles(bs)

LEMMA ZoneFacts ==
    /\ BlockHeader \in Nat \ {0} /\ SIZE_MAX \in Nat
    /\ AlignedStart \in Nat \ {0} /\ Start <= AlignedStart
    /\ head_ \in Nat \ {0} /\ AlignedStart <= head_
    /\ ZoneEnd \in Nat /\ ZoneEnd <= SIZE_MAX
    /\ head_ + BlockHeader <= ZoneEnd
  BY SizesAssumption DEF AlignedStart, head_, ZoneEnd

\* What a block looks like in such a heap, in numbers.
LEMMA BlockFacts ==
    ASSUME NEW bs, IsHeap(bs), NEW b \in DOMAIN bs
    PROVE  /\ b \in Nat /\ head_ <= b
           /\ bs[b] \in BlockRec
           /\ b + BlockHeader + bs[b].size <= ZoneEnd
           /\ bs[b].next # NULL => /\ bs[b].next = b + BlockHeader + bs[b].size
                                   /\ bs[b].next \in DOMAIN bs
                                   /\ bs[bs[b].next].prev = b
           /\ bs[b].next = NULL => b + BlockHeader + bs[b].size = ZoneEnd
           /\ b = head_ => bs[b].prev = NULL
           /\ b # head_ => bs[b].prev \in DOMAIN bs /\ bs[bs[b].prev].next = b
<1>1. /\ Linked(bs, b) /\ b \in Nat /\ bs[b] \in BlockRec
  BY Zenon DEF IsHeap, Tiles
<1>2. bs[b].size \in Nat /\ BlockHeader \in Nat \ {0} /\ ZoneEnd \in Nat
  BY <1>1, ZoneFacts, Zenon DEF BlockRec
<1>3. BlockEnd(bs, b) = b + BlockHeader + bs[b].size /\ BlockEnd(bs, b) # NULL
  BY <1>1, <1>2 DEF BlockEnd, Payload, NULL
<1> QED
  BY <1>1, <1>3, Zenon DEF Linked

\* Blocks do not overlap.
LEMMA BlocksApart ==
    ASSUME NEW bs, IsHeap(bs), NEW b \in DOMAIN bs, NEW c \in DOMAIN bs, b < c
    PROVE  b + BlockHeader + bs[b].size <= c
  BY Zenon DEF IsHeap, Tiles, BlockEnd, Payload

-----------------------------------------------------------------------------
(***************************************************************************)
(* Cut(), field by field.                                                  *)
(***************************************************************************)
CutEffect(bs, b, n, size, cut) ==
    /\ n = b + BlockHeader + size /\ n \in Nat \ DOMAIN bs
    /\ DOMAIN cut = DOMAIN bs \cup {n}
    /\ cut \in [DOMAIN cut -> BlockRec]
    /\ cut[n].prev = b /\ cut[n].next = bs[b].next
    /\ cut[n].size = bs[b].size - size - BlockHeader
    /\ ~cut[n].inuse
    /\ \A c \in DOMAIN bs :
         /\ cut[c].prev = IF c = bs[b].next THEN n ELSE bs[c].prev
         /\ cut[c].next = IF c = b THEN n ELSE bs[c].next
         /\ cut[c].size = IF c = b THEN size ELSE bs[c].size
         /\ cut[c].inuse = bs[c].inuse

LEMMA CutAt ==
    ASSUME NEW bs, IsHeap(bs), NEW b \in DOMAIN bs, NEW size \in Nat,
           size + BlockHeader <= bs[b].size,
           NEW n, n = b + BlockHeader + size
    PROVE  /\ Wrap(b + BlockHeader + size) = n
           /\ CutEffect(bs, b, n, size, Cut(bs, b, size))
<1> DEFINE f == bs[b].next
           rest == bs[b].size - size - BlockHeader
           cut == Cut(bs, b, size)
<1>1. /\ b \in Nat /\ b > 0 /\ bs[b].size \in Nat /\ BlockHeader \in Nat \ {0}
      /\ b + BlockHeader + bs[b].size <= ZoneEnd /\ ZoneEnd \in Nat /\ ZoneEnd <= SIZE_MAX
      /\ SIZE_MAX \in Nat
  BY BlockFacts, ZoneFacts DEF BlockRec
<1>2. /\ Wrap(b + BlockHeader + size) = n
      /\ Wrap(bs[b].size - size) - BlockHeader = rest /\ rest \in Nat
  BY <1>1 DEF Wrap
<1>3. n \in Nat /\ n > b
  BY <1>1
<1>4. n \notin DOMAIN bs
  BY <1>1, <1>3, BlocksApart
<1>5. f # NULL => f \in DOMAIN bs /\ f # b
  BY <1>1, BlockFacts DEF NULL
<1>6. NULL \notin DOMAIN bs
  BY Zenon DEF NULL, IsHeap
<1>7. bs \in [DOMAIN bs -> BlockRec] /\ f \in Nat
  BY Zenon DEF IsHeap, BlockRec
<1> DEFINE once == [bs EXCEPT ![b].size = size, ![b].next = n]
           linked == SetPrev(once, f, n)
           new == Block(b, f, rest, FALSE, "junk")
<1> HIDE DEF f, rest
<1>8. once \in [DOMAIN bs -> BlockRec]
  BY <1>3, <1>7, ZenonT(30) DEF BlockRec
<1>9. linked \in [DOMAIN bs -> BlockRec]
  <2> HIDE DEF once
  <2> QED BY <1>3, <1>5, <1>8 DEF SetPrev, BlockRec
<1>10. new \in BlockRec
  BY <1>1, <1>2, <1>7, Zenon DEF Block, BlockRec
<1>11. \A c \in DOMAIN bs :
         /\ linked[c].prev = IF c = f THEN n ELSE bs[c].prev
         /\ linked[c].next = IF c = b THEN n ELSE bs[c].next
         /\ linked[c].size = IF c = b THEN size ELSE bs[c].size
         /\ linked[c].inuse = bs[c].inuse
  BY <1>5, <1>6, <1>7, Zenon DEF SetPrev, BlockRec
<1>12. cut = With(linked, n, new)
  BY <1>2, Zenon DEF Cut, f, rest
<1> HIDE DEF linked, new, cut
<1>13. /\ DOMAIN cut = DOMAIN bs \cup {n}
       /\ cut \in [DOMAIN cut -> BlockRec]
       /\ cut[n] = new
       /\ \A c \in DOMAIN bs : cut[c] = linked[c]
  BY <1>4, <1>9, <1>10, <1>12, Zenon DEF With
<1>14. /\ new.prev = b /\ new.next = f /\ new.size = rest /\ ~new.inuse
  BY Zenon DEF new, Block
<1> QED
  BY <1>2, <1>3, <1>4, <1>11, <1>13, <1>14 DEF CutEffect, cut, f, rest

\* Cutting a block leaves a heap.
LEMMA CutHeap ==
    ASSUME NEW bs, IsHeap(bs), NEW b \in DOMAIN bs, NEW size \in Nat,
           size + BlockHeader <= bs[b].size,
           NEW n, NEW cut, CutEffect(bs, b, n, size, cut)
    PROVE  IsHeap(cut)
<1>1. /\ b \in Nat \ {0} /\ bs[b].size \in Nat /\ head_ <= b
      /\ BlockHeader \in Nat \ {0} /\ ZoneEnd \in Nat /\ head_ \in Nat \ {0}
      /\ n \in Nat /\ n > b /\ n = b + BlockHeader + size
      /\ b + BlockHeader + bs[b].size <= ZoneEnd
  BY BlockFacts, ZoneFacts DEF BlockRec, IsHeap, CutEffect
<1>2. \A e \in DOMAIN bs : e \in Nat \ {0} /\ bs[e].size \in Nat
  BY Zenon DEF BlockRec, IsHeap
<1>3. DOMAIN cut = DOMAIN bs \cup {n} /\ n \notin DOMAIN bs
  BY Zenon DEF CutEffect
<1>4. cut \in [DOMAIN cut -> BlockRec] /\ DOMAIN cut \subseteq Nat \ {0} /\ head_ \in DOMAIN cut
  BY <1>1, <1>2, <1>3 DEF CutEffect, IsHeap, Tiles
<1>5. ASSUME NEW c \in DOMAIN cut PROVE Linked(cut, c)
  <2>1. CASE c = n
    <3>1. cut[n].next # NULL => cut[n].next \in DOMAIN cut /\ cut[cut[n].next].prev = n
      BY BlockFacts, <1>3, Zenon DEF CutEffect
    <3>2. n # head_ /\ head_ <= n
      BY <1>1
    <3>3. BlockEnd(cut, n) = BlockEnd(bs, b) /\ BlockEnd(bs, b) <= ZoneEnd
      BY <1>1 DEF BlockEnd, Payload, CutEffect
    <3>4. cut[n].next = IF BlockEnd(cut, n) = ZoneEnd THEN NULL ELSE BlockEnd(cut, n)
      BY <3>3 DEF IsHeap, Tiles, Linked, CutEffect
    <3>5. cut[n].prev \in DOMAIN cut /\ cut[cut[n].prev].next = n
      BY <1>3, Zenon DEF CutEffect
    <3> QED BY <2>1, <3>1, <3>2, <3>3, <3>4, <3>5, Zenon DEF Linked
  <2>2. CASE c = b
    <3>1. BlockEnd(cut, b) = n /\ n < ZoneEnd
      BY <1>1 DEF BlockEnd, Payload, CutEffect
    <3>2. cut[b].next = n /\ n # NULL /\ n \in DOMAIN cut /\ cut[n].prev = b
      BY <1>1, <1>3 DEF NULL, CutEffect
    <3>3. cut[b].prev = bs[b].prev
      BY BlockFacts, <1>1 DEF CutEffect, NULL
    <3>4. b # head_ => bs[b].prev \in DOMAIN bs /\ bs[bs[b].prev].next = b
      BY BlockFacts, Zenon
    <3>5. bs[b].next # b
      BY BlockFacts, <1>1 DEF NULL
    <3>6. b # head_ => cut[bs[b].prev].next = b
      BY <3>4, <3>5, Zenon DEF CutEffect
    <3>7. b = head_ => bs[b].prev = NULL
      BY BlockFacts, Zenon
    <3> QED BY <2>2, <3>1, <3>2, <3>3, <3>4, <3>6, <3>7, <1>1, <1>3 DEF Linked
  <2>3. CASE c \notin {n, b}
    <3>1. c \in DOMAIN bs /\ cut[c].next = bs[c].next /\ cut[c].size = bs[c].size
      BY <1>3, <2>3, Zenon DEF CutEffect
    <3>2. BlockEnd(cut, c) = BlockEnd(bs, c) /\ Linked(bs, c)
      BY <3>1, Zenon DEF BlockEnd, IsHeap, Tiles
    <3>3. cut[c].next # NULL => cut[c].next \in DOMAIN cut /\ cut[cut[c].next].prev = c
      <4>1. bs[c].next # NULL => bs[c].next \in DOMAIN bs /\ bs[bs[c].next].prev = c
        BY <3>1, BlockFacts, Zenon
      <4>2. bs[c].next # NULL => bs[c].next # bs[b].next
        BY <2>3, <4>1, BlockFacts
      <4> QED BY <1>3, <3>1, <4>1, <4>2 DEF CutEffect
    <3>4. c = head_ => cut[c].prev = NULL
      <4>1. c = head_ => bs[b].next # c
        BY <1>1, BlockFacts DEF NULL
      <4>2. c = head_ => bs[c].prev = NULL
        BY <3>1, BlockFacts, Zenon
      <4> QED BY <3>1, <4>1, <4>2, Zenon DEF CutEffect
    <3>5. c # head_ => cut[c].prev \in DOMAIN cut /\ cut[cut[c].prev].next = c
      <4>1. c # head_ => bs[c].prev \in DOMAIN bs /\ bs[bs[c].prev].next = c
        BY <3>1, BlockFacts, Zenon
      <4>2. CASE c = bs[b].next
        BY <4>2, <3>1, <1>3, Zenon DEF CutEffect
      <4>3. CASE c # bs[b].next
        BY <4>1, <4>3, <3>1, <1>3 DEF CutEffect
      <4> QED BY <4>2, <4>3, Zenon
    <3> QED BY <3>1, <3>2, <3>3, <3>4, <3>5, Zenon DEF Linked
  <2> QED BY <2>1, <2>2, <2>3, Zenon
<1>6. ASSUME NEW c \in DOMAIN cut, NEW d \in DOMAIN cut, c < d
      PROVE  BlockEnd(cut, c) <= d
  <2>1. \A e, g \in DOMAIN bs : e < g => e + BlockHeader + bs[e].size <= g
    BY BlocksApart, Zenon
  <2>2. \A e \in DOMAIN bs : cut[e].size = IF e = b THEN size ELSE bs[e].size
    BY Zenon DEF CutEffect
  <2>3. cut[n].size = bs[b].size - size - BlockHeader
    BY Zenon DEF CutEffect
  <2>4. CASE c = n
    BY <1>1, <1>2, <1>3, <1>6, <2>1, <2>3, <2>4 DEF BlockEnd, Payload
  <2>5. CASE c # n /\ d = n
    <3>1. c \in DOMAIN bs /\ (c < b \/ c = b)
      BY <1>1, <1>2, <1>3, <1>6, <2>1, <2>5
    <3> QED BY <1>1, <1>2, <1>6, <2>1, <2>2, <2>5, <3>1 DEF BlockEnd, Payload
  <2>6. CASE c # n /\ d # n
    BY <1>1, <1>2, <1>3, <1>6, <2>1, <2>2, <2>6 DEF BlockEnd, Payload
  <2> QED BY <2>4, <2>5, <2>6, Zenon
<1> QED
  BY <1>4, <1>5, <1>6, Zenon DEF IsHeap, Tiles

-----------------------------------------------------------------------------
(***************************************************************************)
(* Absorb(), field by field.                                               *)
(***************************************************************************)
AbsorbEffect(bs, b, new) ==
    LET f == bs[b].next
    IN  /\ DOMAIN new = DOMAIN bs \ {f}
        /\ new \in [DOMAIN new -> BlockRec]
        /\ \A c \in DOMAIN new :
             /\ new[c].prev = IF c = bs[f].next THEN b ELSE bs[c].prev
             /\ new[c].next = IF c = b THEN bs[f].next ELSE bs[c].next
             /\ new[c].size = IF c = b THEN bs[b].size + bs[f].size + BlockHeader
                                       ELSE bs[c].size
             /\ new[c].inuse = bs[c].inuse

LEMMA AbsorbAt ==
    ASSUME NEW bs, IsHeap(bs), NEW b \in DOMAIN bs, bs[b].next # NULL
    PROVE  AbsorbEffect(bs, b, Absorb(bs, b))
<1> DEFINE f == bs[b].next
           g == bs[f].next
           once == [bs EXCEPT ![b].size = @ + bs[f].size + BlockHeader, ![b].next = g]
           linked == SetPrev(once, g, b)
<1>1. /\ f \in DOMAIN bs /\ f # b /\ b \in Nat /\ bs[b].size \in Nat /\ bs[f].size \in Nat
      /\ BlockHeader \in Nat /\ g \in Nat
  BY BlockFacts, ZoneFacts DEF BlockRec
<1>2. g # NULL => g \in DOMAIN bs /\ g # b /\ g # f
  <2>1. g # NULL => g = f + BlockHeader + bs[f].size /\ g \in DOMAIN bs
    BY <1>1, BlockFacts, Zenon
  <2>2. f = b + BlockHeader + bs[b].size
    BY BlockFacts, Zenon
  <2>3. BlockHeader > 0
    BY ZoneFacts
  <2> HIDE DEF f, g
  <2> QED BY <1>1, <2>1, <2>2, <2>3
<1>3. NULL \notin DOMAIN bs
  BY Zenon DEF NULL, IsHeap
<1>4. bs \in [DOMAIN bs -> BlockRec]
  BY Zenon DEF IsHeap
<1> HIDE DEF f, g
<1>5. once \in [DOMAIN bs -> BlockRec]
  <2> DEFINE total == bs[b].size + bs[f].size + BlockHeader
  <2>1. total \in Nat
    BY <1>1
  <2>2. once = [bs EXCEPT ![b].size = total, ![b].next = g]
    BY <1>4, Zenon DEF BlockRec
  <2> HIDE DEF total
  <2> QED BY <1>1, <1>4, <2>1, <2>2 DEF BlockRec
<1>6. linked \in [DOMAIN bs -> BlockRec]
  <2> HIDE DEF once
  <2> QED BY <1>1, <1>2, <1>5, Zenon DEF SetPrev, BlockRec
<1>7. \A c \in DOMAIN bs :
        /\ linked[c].prev = IF c = g THEN b ELSE bs[c].prev
        /\ linked[c].next = IF c = b THEN g ELSE bs[c].next
        /\ linked[c].size = IF c = b THEN bs[b].size + bs[f].size + BlockHeader
                                     ELSE bs[c].size
        /\ linked[c].inuse = bs[c].inuse
  BY <1>1, <1>2, <1>3, <1>4, ZenonT(30) DEF SetPrev, BlockRec
<1>8. Absorb(bs, b) = Without(linked, f)
  BY Zenon DEF Absorb, f, g
<1> HIDE DEF linked
<1>9. /\ DOMAIN Without(linked, f) = DOMAIN bs \ {f}
      /\ \A c \in DOMAIN bs \ {f} : Without(linked, f)[c] = linked[c]
      /\ Without(linked, f) \in [DOMAIN bs \ {f} -> BlockRec]
  BY <1>6, Zenon DEF Without, Restrict
<1> QED
  BY <1>7, <1>8, <1>9 DEF AbsorbEffect, f, g

\* Absorbing the next block leaves a heap.
LEMMA AbsorbHeap ==
    ASSUME NEW bs, IsHeap(bs), NEW b \in DOMAIN bs, bs[b].next # NULL,
           NEW new, AbsorbEffect(bs, b, new)
    PROVE  IsHeap(new) /\ b \in DOMAIN new
<1> DEFINE f == bs[b].next
           g == bs[f].next
<1>1. /\ f \in DOMAIN bs /\ f = b + BlockHeader + bs[b].size /\ bs[f].prev = b
      /\ b \in Nat \ {0} /\ bs[b].size \in Nat /\ bs[f].size \in Nat /\ f # b
      /\ BlockHeader \in Nat \ {0} /\ ZoneEnd \in Nat /\ head_ \in Nat \ {0} /\ f # head_
      /\ head_ <= b
  BY BlockFacts, ZoneFacts DEF BlockRec, IsHeap
<1>2. /\ f + BlockHeader + bs[f].size <= ZoneEnd
      /\ g # NULL => g = f + BlockHeader + bs[f].size /\ g \in DOMAIN bs /\ bs[g].prev = f
      /\ g = NULL => f + BlockHeader + bs[f].size = ZoneEnd
  BY <1>1, BlockFacts
<1>3. \A e \in DOMAIN bs : e \in Nat \ {0} /\ bs[e].size \in Nat
  BY Zenon DEF BlockRec, IsHeap
<1> HIDE DEF f, g
<1>4. /\ DOMAIN new = DOMAIN bs \ {f}
      /\ new \in [DOMAIN new -> BlockRec]
      /\ \A c \in DOMAIN new :
           /\ new[c].prev = IF c = g THEN b ELSE bs[c].prev
           /\ new[c].next = IF c = b THEN g ELSE bs[c].next
           /\ new[c].size = IF c = b THEN bs[b].size + bs[f].size + BlockHeader
                                     ELSE bs[c].size
  BY Zenon DEF AbsorbEffect, f, g
<1>5. DOMAIN new \subseteq Nat \ {0} /\ head_ \in DOMAIN new /\ b \in DOMAIN new
  BY <1>1, <1>3, <1>4, Zenon DEF IsHeap, Tiles
<1>6. g # NULL => g # f /\ g # b /\ g # head_
  BY <1>1, <1>2
<1>7. ASSUME NEW c \in DOMAIN new PROVE Linked(new, c)
  <2>1. CASE c = b
    <3>1. /\ BlockEnd(new, b) = f + BlockHeader + bs[f].size
          /\ BlockEnd(new, b) <= ZoneEnd
      BY <1>1, <1>2, <1>4, <1>5 DEF BlockEnd, Payload
    <3>2. new[b].next = IF BlockEnd(new, b) = ZoneEnd THEN NULL ELSE BlockEnd(new, b)
      <4>1. g = IF f + BlockHeader + bs[f].size = ZoneEnd THEN NULL ELSE f + BlockHeader + bs[f].size
        BY <1>1, Zenon DEF IsHeap, Tiles, Linked, BlockEnd, Payload, g
      <4> QED BY <3>1, <4>1, <1>4, <1>5, Zenon
    <3>3. new[b].next # NULL => new[b].next \in DOMAIN new /\ new[new[b].next].prev = b
      BY <1>2, <1>4, <1>5, <1>6, Zenon
    <3>4. new[b].prev = bs[b].prev
      BY <1>4, <1>5, <1>6, Zenon DEF NULL
    <3>5. b # head_ => bs[b].prev \in DOMAIN bs /\ bs[bs[b].prev].next = b
      BY BlockFacts, Zenon
    <3>6. b # head_ => bs[b].prev # f /\ bs[b].prev # b
      BY <3>5, <1>1, <1>6, Zenon DEF f, g, NULL
    <3>7. b = head_ => bs[b].prev = NULL
      BY BlockFacts, Zenon
    <3> QED BY <2>1, <3>1, <3>2, <3>3, <3>4, <3>5, <3>6, <3>7, <1>1, <1>4 DEF Linked
  <2>2. CASE c # b
    <3>1. c \in DOMAIN bs /\ c # f /\ new[c].next = bs[c].next /\ new[c].size = bs[c].size
      BY <1>4, <2>2, Zenon
    <3>2. BlockEnd(new, c) = BlockEnd(bs, c) /\ Linked(bs, c)
      BY <3>1, Zenon DEF BlockEnd, IsHeap, Tiles
    <3>3. new[c].next # NULL => new[c].next \in DOMAIN new /\ new[new[c].next].prev = c
      <4>1. bs[c].next # NULL => bs[c].next \in DOMAIN bs /\ bs[bs[c].next].prev = c
        BY <3>1, BlockFacts, Zenon
      <4>2. bs[c].next # NULL => bs[c].next # f /\ bs[c].next # g
        BY <4>1, <1>1, <1>2, <2>2, <3>1, Zenon
      <4> QED BY <1>4, <3>1, <4>1, <4>2
    <3>4. c = head_ => new[c].prev = NULL
      BY <3>1, <1>4, <1>5, <1>6, BlockFacts DEF NULL
    <3>5. c # head_ => new[c].prev \in DOMAIN new /\ new[new[c].prev].next = c
      <4>1. c # head_ => bs[c].prev \in DOMAIN bs /\ bs[bs[c].prev].next = c
        BY <3>1, BlockFacts, Zenon
      <4>2. CASE c = g
        BY <4>2, <1>4, <1>5, Zenon
      <4>3. CASE c # g
        <5>1. c # head_ => bs[c].prev # f /\ bs[c].prev # b
          BY <4>1, <4>3, <3>1, Zenon DEF f, g
        <5> QED BY <4>1, <4>3, <5>1, <1>4, Zenon
      <4> QED BY <4>2, <4>3, Zenon
    <3> QED BY <3>1, <3>2, <3>3, <3>4, <3>5, Zenon DEF Linked
  <2> QED BY <2>1, <2>2, Zenon
<1>8. ASSUME NEW c \in DOMAIN new, NEW d \in DOMAIN new, c < d
      PROVE  BlockEnd(new, c) <= d
  <2>1. \A e, h \in DOMAIN bs : e < h => e + BlockHeader + bs[e].size <= h
    BY BlocksApart, Zenon
  <2>2. c \in DOMAIN bs /\ d \in DOMAIN bs /\ c # f /\ d # f
    BY <1>4, Zenon
  <2>3. CASE c = b
    <3>1. d > f
      BY <1>1, <1>3, <1>8, <2>1, <2>2, <2>3
    <3>2. f + BlockHeader + bs[f].size <= d
      BY <1>1, <2>1, <2>2, <3>1, Zenon
    <3> QED BY <1>1, <1>3, <1>4, <2>2, <2>3, <3>2 DEF BlockEnd, Payload
  <2>4. CASE c # b
    BY <1>4, <1>8, <2>1, <2>2, <2>4, Zenon DEF BlockEnd, Payload
  <2> QED BY <2>3, <2>4, Zenon
<1> QED
  BY <1>4, <1>5, <1>7, <1>8, Zenon DEF IsHeap, Tiles

-----------------------------------------------------------------------------
(***************************************************************************)
(* Splitting.  InUse(bs) are the blocks in callers' hands; an operation on *)
(* block b Keeps the others if they stay in use, and as large as they are. *)
(* In between, a free block may touch block b and only that.               *)
(***************************************************************************)
InUse(bs) == {c \in DOMAIN bs : bs[c].inuse}

Keeps(bs, new, b) ==
    /\ InUse(new) \ {b} = InUse(bs) \ {b}
    /\ \A c \in InUse(bs) \ {b} : new[c].size = bs[c].size

MergedBut(bs, b) ==
    \A c \in DOMAIN bs \ {b} : ~bs[c].inuse /\ bs[c].next # b => ~NextIsFree(bs, c)

LEMMA KeepsTwice ==
    ASSUME NEW bs, NEW mid, NEW new, NEW b, Keeps(bs, mid, b), Keeps(mid, new, b)
    PROVE  Keeps(bs, new, b)
  BY Zenon DEF Keeps

LEMMA MergedMergedBut ==
    ASSUME NEW bs, NEW b \in DOMAIN bs
    PROVE  /\ Merged(bs) => MergedBut(bs, b)
           /\ MergedBut(bs, b) /\ bs[b].inuse => Merged(bs)
  BY Zenon DEF Merged, MergedBut, NextIsFree

\* A heap in which only inuse and data change remains one.
LEMMA SameShapeHeap ==
    ASSUME NEW bs, IsHeap(bs), NEW new \in [DOMAIN bs -> BlockRec],
           \A c \in DOMAIN bs : /\ new[c].prev = bs[c].prev
                                /\ new[c].next = bs[c].next
                                /\ new[c].size = bs[c].size
    PROVE  IsHeap(new)
<1>1. DOMAIN new = DOMAIN bs
  BY Zenon
<1>2. ASSUME NEW c \in DOMAIN bs PROVE Linked(new, c)
  <2>1. Linked(bs, c)
    BY Zenon DEF IsHeap, Tiles
  <2>2. BlockEnd(new, c) = BlockEnd(bs, c)
    BY Zenon DEF BlockEnd
  <2> QED BY <1>1, <2>1, <2>2, Zenon DEF Linked
<1> QED
  BY <1>1, <1>2, Zenon DEF IsHeap, Tiles, BlockEnd

LEMMA CutKeeps ==
    ASSUME NEW bs, NEW b \in DOMAIN bs, NEW size, NEW n, NEW cut,
           CutEffect(bs, b, n, size, cut)
    PROVE  Keeps(bs, cut, b)
  BY Zenon DEF CutEffect, Keeps, InUse

LEMMA AbsorbKeeps ==
    ASSUME NEW bs, NEW b \in DOMAIN bs, NEW x, NEW new, AbsorbEffect(bs, b, new),
           bs[b].next \in DOMAIN bs, bs[b].next # b,
           ~bs[bs[b].next].inuse, b = x \/ ~bs[b].inuse
    PROVE  Keeps(bs, new, x)
<1> DEFINE f == bs[b].next
<1>1. /\ DOMAIN new = DOMAIN bs \ {f}
      /\ \A c \in DOMAIN new : new[c].inuse = bs[c].inuse
      /\ \A c \in DOMAIN new \ {b} : new[c].size = bs[c].size
  BY Zenon DEF AbsorbEffect
<1>2. InUse(new) = InUse(bs)
  BY <1>1, Zenon DEF InUse
<1> QED
  BY <1>1, <1>2, Zenon DEF Keeps, InUse

Fresh(bs, b, size, new) ==
    /\ IsHeap(new)
    /\ b \in DOMAIN new
    /\ new[b].size \in Nat /\ new[b].size >= size
    /\ new[b].inuse = bs[b].inuse
    /\ Keeps(bs, new, b)
    /\ MergedBut(new, b)

LEMMA SplitFresh ==
    ASSUME NEW bs, IsHeap(bs), NEW b \in DOMAIN bs, NEW size \in Nat,
           size <= bs[b].size, MergedBut(bs, b)
    PROVE  Fresh(bs, b, size, consider_splitting_block(bs, b, size))
<1> DEFINE n == b + BlockHeader + size
           f == bs[b].next
           cut == Cut(bs, b, size)
           new == consider_splitting_block(bs, b, size)
<1>1. /\ b \in Nat \ {0} /\ bs[b].size \in Nat /\ BlockHeader \in Nat \ {0}
      /\ SIZE_MAX \in Nat /\ b + BlockHeader + bs[b].size <= SIZE_MAX
      /\ f # NULL => f = b + BlockHeader + bs[b].size /\ f \in DOMAIN bs /\ bs[f].prev = b
  BY BlockFacts, ZoneFacts DEF BlockRec, IsHeap
<1>2. Wrap(bs[b].size - size) = bs[b].size - size /\ Wrap(n) = n
  BY <1>1 DEF Wrap
<1>3. CASE bs[b].size - size <= MIN_SPLIT_SIZE
  <2>1. new = bs
    BY <1>2, <1>3, Zenon DEF consider_splitting_block
  <2>2. Keeps(bs, bs, b)
    BY Zenon DEF Keeps
  <2> QED BY <1>1, <2>1, <2>2, Zenon DEF Fresh
<1>4. CASE ~(bs[b].size - size <= MIN_SPLIT_SIZE)
  <2>1. size + BlockHeader <= bs[b].size
    BY <1>1, <1>4 DEF MIN_SPLIT_SIZE
  <2>2. CutEffect(bs, b, n, size, cut)
    BY <2>1, CutAt, Zenon
  <2>3. IsHeap(cut)
    BY <2>1, <2>2, CutHeap, Zenon
  <2>4. Keeps(bs, cut, b)
    BY <2>2, CutKeeps, Zenon
  <2>5. new = IF NextIsFree(cut, n) THEN Absorb(cut, n) ELSE cut
    BY <1>2, <1>4, Zenon DEF consider_splitting_block
  <2> HIDE DEF n, f, cut, new
  <2>6. n \notin DOMAIN bs /\ DOMAIN cut = DOMAIN bs \cup {n} /\ n # b
    BY <2>2, Zenon DEF CutEffect
  <2>7. /\ cut[n].next = f /\ ~cut[n].inuse
        /\ \A c \in DOMAIN bs : cut[c].inuse = bs[c].inuse
        /\ \A c \in DOMAIN bs \ {b} : cut[c].next = bs[c].next
        /\ cut[b].size = size
    BY <2>2, Zenon DEF CutEffect, f
  <2>8. \A c \in DOMAIN bs : bs[c].next # NULL => bs[c].next \in DOMAIN bs /\ bs[bs[c].next].prev = c
    BY BlockFacts, Zenon
  <2>9. CASE ~NextIsFree(cut, n)
    <3>1. MergedBut(cut, b)
      <4> SUFFICES ASSUME NEW c \in DOMAIN cut \ {b}, ~cut[c].inuse, cut[c].next # b
                   PROVE  ~NextIsFree(cut, c)
        BY Zenon DEF MergedBut
      <4>1. CASE c = n
        BY <2>9, <4>1, Zenon
      <4>2. CASE c # n
        <5>1. c \in DOMAIN bs \ {b} /\ ~bs[c].inuse /\ bs[c].next # b /\ cut[c].next = bs[c].next
          BY <2>6, <2>7, <4>2, Zenon
        <5>2. ~NextIsFree(bs, c)
          BY <5>1, Zenon DEF MergedBut
        <5> QED BY <2>7, <2>8, <5>1, <5>2, Zenon DEF NextIsFree
      <4> QED BY <4>1, <4>2, Zenon
    <3>2. new = cut /\ b \in DOMAIN new /\ new[b].inuse = bs[b].inuse
      BY <2>5, <2>6, <2>7, <2>9, Zenon
    <3>3. new[b].size \in Nat /\ new[b].size >= size
      BY <2>7, <3>2
    <3> QED BY <2>3, <2>4, <3>1, <3>2, <3>3, Zenon DEF Fresh, new
  <2>10. CASE NextIsFree(cut, n)
    <3>1. f # NULL /\ f \in DOMAIN bs /\ ~bs[f].inuse /\ f # n /\ f # b /\ bs[f].next # b
      <4>1. f # NULL /\ f \in DOMAIN bs /\ ~bs[f].inuse /\ f # n
        BY <2>6, <2>7, <2>8, <2>10, Zenon DEF NextIsFree, f
      <4>2. f > b
        BY <1>1, <4>1 DEF f
      <4>3. bs[f].next # NULL => bs[f].next > f
        BY <1>1, <4>1, BlockFacts DEF BlockRec
      <4> QED BY <1>1, <4>1, <4>2, <4>3 DEF NULL, f
    <3>2. AbsorbEffect(cut, n, new)
      BY <2>3, <2>5, <2>6, <2>7, <2>10, <3>1, AbsorbAt, Zenon
    <3>3. IsHeap(new) /\ n \in DOMAIN new
      BY <2>3, <2>6, <2>7, <3>1, <3>2, AbsorbHeap, Zenon
    <3>4. Keeps(cut, new, b)
      BY <2>6, <2>7, <3>1, <3>2, AbsorbKeeps, Zenon
    <3>5. /\ DOMAIN new = DOMAIN cut \ {f}
          /\ \A c \in DOMAIN new : new[c].inuse = cut[c].inuse
          /\ new[n].next = cut[f].next
          /\ \A c \in DOMAIN new \ {n} : new[c].next = cut[c].next /\ new[c].size = cut[c].size
      BY <2>7, <3>2, <3>3, Zenon DEF AbsorbEffect
    <3>6. MergedBut(new, b)
      <4> SUFFICES ASSUME NEW c \in DOMAIN new \ {b}, ~new[c].inuse, new[c].next # b
                   PROVE  ~NextIsFree(new, c)
        BY Zenon DEF MergedBut
      <4>1. CASE c = n
        <5>1. ~NextIsFree(bs, f) /\ new[n].next = bs[f].next
          BY <2>7, <3>1, <3>5, Zenon DEF MergedBut
        <5>2. bs[f].next # NULL => bs[f].next # f /\ bs[f].next \in DOMAIN bs
          BY <1>1, <3>1, BlockFacts DEF BlockRec
        <5> QED BY <4>1, <5>1, <5>2, <2>6, <2>7, <3>5 DEF NextIsFree
      <4>2. CASE c # n
        <5>1. c \in DOMAIN bs \ {b} /\ ~bs[c].inuse /\ bs[c].next # b /\ new[c].next = bs[c].next
          BY <2>6, <2>7, <3>5, <4>2
        <5>2. ~NextIsFree(bs, c)
          BY <5>1, Zenon DEF MergedBut
        <5>3. bs[c].next # NULL => bs[c].next \in DOMAIN bs /\ bs[c].next # f
          BY <1>1, <2>8, <5>1, Zenon
        <5> QED BY <2>6, <2>7, <3>5, <5>1, <5>2, <5>3, Zenon DEF NextIsFree
      <4> QED BY <4>1, <4>2, Zenon
    <3>7. Keeps(bs, new, b)
      BY <2>4, <3>4, KeepsTwice, Zenon
    <3>8. b \in DOMAIN new /\ new[b].size = size /\ new[b].inuse = bs[b].inuse
      BY <2>6, <2>7, <3>1, <3>5, Zenon
    <3>9. new[b].size \in Nat /\ new[b].size >= size
      BY <3>8
    <3> QED BY <3>3, <3>6, <3>7, <3>8, <3>9, Zenon DEF Fresh, new
  <2> QED BY <2>9, <2>10, Zenon DEF new
<1> QED
  BY <1>1, <1>3, <1>4, Zenon DEF MIN_SPLIT_SIZE

-----------------------------------------------------------------------------
(***************************************************************************)
(* Handing a block out, and taking one back.                               *)
(***************************************************************************)

\* The heap new has block b in use, of at least size bytes, and the blocks
\* in use that bs had.
HandedOut(bs, b, size, new) ==
    /\ IsHeap(new) /\ Merged(new)
    /\ b \in InUse(new) /\ new[b].size >= size
    /\ Keeps(bs, new, b)

LEMMA MarkedIsHandedOut ==
    ASSUME NEW bs, NEW mid, NEW b, NEW size \in Nat, Fresh(bs, b, size, mid),
           NEW new \in [DOMAIN mid -> BlockRec], new[b].inuse,
           \A c \in DOMAIN mid : /\ new[c].prev = mid[c].prev
                                 /\ new[c].next = mid[c].next
                                 /\ new[c].size = mid[c].size
                                 /\ c # b => new[c].inuse = mid[c].inuse
    PROVE  HandedOut(bs, b, size, new)
<1>1. DOMAIN new = DOMAIN mid /\ b \in DOMAIN mid
  BY Zenon DEF Fresh
<1>2. IsHeap(new)
  BY SameShapeHeap, Zenon DEF Fresh
<1>3. Keeps(mid, new, b)
  BY <1>1, Zenon DEF Keeps, InUse
<1>4. Keeps(bs, new, b)
  BY <1>3, KeepsTwice, Zenon DEF Fresh
<1>5. Merged(new)
  <2>1. \A c \in DOMAIN mid : mid[c].next # NULL => mid[c].next \in DOMAIN mid
    BY BlockFacts, Zenon DEF Fresh
  <2>2. MergedBut(new, b)
    BY <1>1, <2>1, Zenon DEF Fresh, MergedBut, NextIsFree
  <2> QED BY <1>1, <2>2, MergedMergedBut, Zenon
<1>6. b \in InUse(new) /\ new[b].size >= size
  BY <1>1, Zenon DEF Fresh, InUse
<1> QED
  BY <1>2, <1>4, <1>5, <1>6, Zenon DEF HandedOut

LEMMA MarkHandedOut ==
    ASSUME NEW bs, NEW mid, NEW b, NEW size \in Nat, Fresh(bs, b, size, mid),
           NEW data \in {"caller", "junk"}
    PROVE  HandedOut(bs, b, size, [mid EXCEPT ![b].inuse = TRUE, ![b].data = data])
<1> DEFINE new == [mid EXCEPT ![b].inuse = TRUE, ![b].data = data]
<1>1. mid \in [DOMAIN mid -> BlockRec] /\ b \in DOMAIN mid
  BY Zenon DEF Fresh, IsHeap
<1>2. /\ new \in [DOMAIN mid -> BlockRec]
      /\ new[b].inuse
      /\ \A c \in DOMAIN mid : /\ new[c].prev = mid[c].prev
                               /\ new[c].next = mid[c].next
                               /\ new[c].size = mid[c].size
                               /\ c # b => new[c].inuse = mid[c].inuse
  BY <1>1, Zenon DEF BlockRec
<1> HIDE DEF new
<1>3. HandedOut(bs, b, size, new)
  BY <1>2, MarkedIsHandedOut, Zenon
<1> QED
  BY <1>3, Zenon DEF new

LEMMA HandOutHandsOut ==
    ASSUME NEW bs, IsHeap(bs), NEW b \in DOMAIN bs, NEW size \in Nat,
           size <= bs[b].size, MergedBut(bs, b)
    PROVE  HandedOut(bs, b, size, HandOut(bs, b, size))
<1>1. Fresh(bs, b, size, consider_splitting_block(bs, b, size))
  BY SplitFresh, Zenon
<1> QED
  BY <1>1, MarkHandedOut, Zenon DEF HandOut

TakenBack(bs, b, new) ==
    /\ IsHeap(new) /\ Merged(new)
    /\ Keeps(bs, new, b) /\ b \notin InUse(new)

\* free() merges the block with its free neighbours and leaves the rest alone.
LEMMA ReleasedTakesBack ==
    ASSUME NEW bs, IsHeap(bs), Merged(bs), NEW b \in InUse(bs)
    PROVE  TakenBack(bs, b, Released(bs, b))
<1> DEFINE freed == [bs EXCEPT ![b].inuse = FALSE, ![b].data = "junk"]
           block == IF PrevIsFree(freed, b) THEN freed[b].prev ELSE b
           merged == IF PrevIsFree(freed, b) THEN Absorb(freed, freed[b].prev) ELSE freed
           new == IF NextIsFree(merged, block) THEN Absorb(merged, block) ELSE merged
<1>1. bs \in [DOMAIN bs -> BlockRec] /\ b \in DOMAIN bs
  BY Zenon DEF IsHeap, InUse
<1>2. /\ freed \in [DOMAIN bs -> BlockRec]
      /\ ~freed[b].inuse
      /\ \A c \in DOMAIN bs : /\ freed[c].prev = bs[c].prev
                              /\ freed[c].next = bs[c].next
                              /\ freed[c].size = bs[c].size
                              /\ c # b => freed[c].inuse = bs[c].inuse
  BY <1>1, Zenon DEF BlockRec
<1>3. Released(bs, b) = new
  BY Zenon DEF Released
<1> HIDE DEF freed
<1>4. DOMAIN freed = DOMAIN bs
  BY <1>2, Zenon
<1>5. IsHeap(freed)
  BY <1>2, SameShapeHeap, Zenon
<1>6. Keeps(bs, freed, b)
  BY <1>2, <1>4, Zenon DEF Keeps, InUse
<1>7. \A c \in DOMAIN freed : freed[c].next # NULL => freed[c].next \in DOMAIN freed /\ freed[c].next # c
  BY <1>5, BlockFacts, ZoneFacts DEF BlockRec
<1>8. MergedBut(freed, b)
  <2>1. MergedBut(bs, b)
    BY <1>1, MergedMergedBut, Zenon
  <2> QED BY <1>2, <1>4, <1>7, <2>1 DEF MergedBut, NextIsFree
<1>9. /\ IsHeap(merged) /\ Keeps(bs, merged, b) /\ b \notin InUse(merged)
      /\ block \in DOMAIN merged /\ ~merged[block].inuse
      /\ MergedBut(merged, block)
      /\ \A c \in DOMAIN merged \ {block} : ~merged[c].inuse => merged[c].next # block
  <2>1. CASE ~PrevIsFree(freed, b)
    <3>1. merged = freed /\ block = b
      BY <2>1, Zenon
    <3>2. ASSUME NEW c \in DOMAIN freed \ {b}, ~freed[c].inuse PROVE freed[c].next # b
      <4>1. freed[c].next = b => freed[b].prev = c
        BY <1>1, <1>4, <1>5, BlockFacts DEF NULL, IsHeap
      <4>2. c # NULL
        BY <1>5, Zenon DEF NULL, IsHeap
      <4> QED BY <2>1, <3>2, <4>1, <4>2, Zenon DEF PrevIsFree
    <3>3. b \notin InUse(freed)
      BY <1>2, Zenon DEF InUse
    <3> QED BY <1>1, <1>2, <1>4, <1>5, <1>6, <1>8, <3>1, <3>2, <3>3, Zenon
  <2>2. CASE PrevIsFree(freed, b)
    <3> DEFINE e == freed[b].prev
               ab == Absorb(freed, e)
    <3>1. merged = ab /\ block = e
      BY <2>2, Zenon
    <3>2. e \in DOMAIN freed /\ ~freed[e].inuse /\ freed[e].next = b /\ b # NULL /\ e # b
      <4>1. b # head_
        BY <1>1, <1>4, <1>5, <2>2, BlockFacts, Zenon DEF PrevIsFree
      <4>2. e \in DOMAIN freed /\ freed[e].next = b
        BY <1>1, <1>4, <1>5, <4>1, BlockFacts, Zenon
      <4> QED BY <1>1, <1>4, <1>5, <1>7, <2>2, <4>2, Zenon DEF PrevIsFree, IsHeap, NULL
    <3>3. AbsorbEffect(freed, e, ab)
      BY <1>5, <3>2, AbsorbAt, Zenon
    <3> HIDE DEF e, ab
    <3>4. IsHeap(ab) /\ e \in DOMAIN ab
      BY <1>5, <3>2, <3>3, AbsorbHeap, Zenon
    <3>5. Keeps(freed, ab, b)
      BY <1>1, <1>2, <1>4, <3>2, <3>3, AbsorbKeeps, Zenon
    <3>6. /\ DOMAIN ab = DOMAIN freed \ {b}
          /\ \A c \in DOMAIN ab : ab[c].inuse = freed[c].inuse
          /\ ab[e].next = freed[b].next
          /\ \A c \in DOMAIN ab \ {e} : ab[c].next = freed[c].next
      BY <3>2, <3>3, <3>4, Zenon DEF AbsorbEffect
    <3>7. \A c \in DOMAIN ab \ {e} : ~ab[c].inuse => ab[c].next # e
      <4> SUFFICES ASSUME NEW c \in DOMAIN ab \ {e}, ~ab[c].inuse, ab[c].next = e
                   PROVE  FALSE
        BY Zenon
      <4>1. c \in DOMAIN bs \ {b} /\ ~bs[c].inuse /\ bs[c].next = e
        BY <1>2, <1>4, <3>6, Zenon
      <4>2. e \in DOMAIN bs /\ ~bs[e].inuse /\ e # NULL
        BY <1>2, <1>4, <1>5, <3>2, Zenon DEF IsHeap, NULL
      <4> QED BY <4>1, <4>2, Zenon DEF Merged, NextIsFree
    <3>8. MergedBut(ab, e)
      <4> SUFFICES ASSUME NEW c \in DOMAIN ab \ {e}, ~ab[c].inuse, ab[c].next # e
                   PROVE  ~NextIsFree(ab, c)
        BY Zenon DEF MergedBut
      <4>1. c \in DOMAIN freed \ {b} /\ ~freed[c].inuse /\ ab[c].next = freed[c].next
        BY <3>6, Zenon
      <4>2. freed[c].next # b
        BY <1>1, <1>4, <1>5, <3>2, <4>1, BlockFacts
      <4>3. ~NextIsFree(freed, c)
        BY <1>8, <4>1, <4>2, Zenon DEF MergedBut
      <4> QED BY <1>7, <3>6, <4>1, <4>2, <4>3, Zenon DEF NextIsFree
    <3>9. Keeps(bs, ab, b) /\ b \notin InUse(ab)
      <4>1. Keeps(bs, ab, b)
        BY <1>6, <3>5, KeepsTwice, Zenon
      <4> QED BY <4>1, <3>6, Zenon DEF InUse
    <3>10. ~ab[e].inuse
      BY <3>2, <3>4, <3>6, Zenon
    <3> QED BY <3>1, <3>4, <3>7, <3>8, <3>9, <3>10, Zenon DEF ab, e
  <2> QED BY <2>1, <2>2, Zenon
<1> HIDE DEF merged, block
<1>10. CASE ~NextIsFree(merged, block)
  <2>1. new = merged
    BY <1>10, Zenon
  <2>2. Merged(merged)
    BY <1>9, <1>10, Zenon DEF Merged, MergedBut
  <2> QED BY <1>3, <1>9, <2>1, <2>2, Zenon DEF TakenBack
<1>11. CASE NextIsFree(merged, block)
  <2> DEFINE f == merged[block].next
             ab == Absorb(merged, block)
  <2>1. new = ab
    BY <1>11, Zenon
  <2>2. f # NULL /\ f \in DOMAIN merged /\ ~merged[f].inuse /\ f # block
    <3>1. f # NULL /\ ~merged[f].inuse
      BY <1>11, Zenon DEF NextIsFree
    <3>2. f \in DOMAIN merged /\ f = block + BlockHeader + merged[block].size
      BY <1>9, <3>1, BlockFacts, Zenon
    <3> QED BY <1>9, <3>1, <3>2, BlockFacts, ZoneFacts DEF BlockRec
  <2>3. AbsorbEffect(merged, block, ab)
    BY <1>9, <2>2, AbsorbAt, Zenon
  <2>4. IsHeap(ab) /\ block \in DOMAIN ab
    BY <1>9, <2>2, <2>3, AbsorbHeap, Zenon
  <2>5. Keeps(merged, ab, b)
    BY <1>9, <2>2, <2>3, AbsorbKeeps, Zenon
  <2> HIDE DEF f, ab
  <2>6. /\ DOMAIN ab = DOMAIN merged \ {f}
        /\ \A c \in DOMAIN ab : ab[c].inuse = merged[c].inuse
        /\ ab[block].next = merged[f].next
        /\ \A c \in DOMAIN ab \ {block} : ab[c].next = merged[c].next
    BY <2>3, <2>4, Zenon DEF AbsorbEffect, f
  <2>7. \A c \in DOMAIN merged : merged[c].next # NULL =>
           merged[c].next \in DOMAIN merged /\ merged[merged[c].next].prev = c
    BY <1>9, BlockFacts
  <2>8. merged[f].next # f /\ merged[f].next # block
    <3>1. \A c \in DOMAIN merged : /\ c \in Nat \ {0}
                                   /\ merged[c].next # NULL => merged[c].next > c
      <4> SUFFICES ASSUME NEW c \in DOMAIN merged
                   PROVE  c \in Nat \ {0} /\ (merged[c].next # NULL => merged[c].next > c)
        BY Zenon
      <4>1. /\ c \in Nat \ {0} /\ merged[c].size \in Nat
            /\ merged[c].next # NULL => merged[c].next = c + BlockHeader + merged[c].size
        BY <1>9, BlockFacts DEF IsHeap, BlockRec
      <4> QED BY <4>1, ZoneFacts
    <3>2. f > block
      BY <1>9, <2>2, <3>1, Zenon DEF f
    <3> QED BY <1>9, <2>2, <3>1, <3>2 DEF NULL
  <2>9. ASSUME NEW c \in DOMAIN ab, ~ab[c].inuse PROVE ~NextIsFree(ab, c)
    <3>1. CASE c = block
      <4>1. ~NextIsFree(merged, f)
        BY <1>9, <2>2, <2>8, Zenon DEF MergedBut
      <4> QED BY <2>2, <2>6, <2>7, <2>8, <3>1, <4>1, Zenon DEF NextIsFree
    <3>2. CASE c # block
      <4>1. c \in DOMAIN merged \ {block} /\ ~merged[c].inuse /\ ab[c].next = merged[c].next
        BY <2>6, <2>9, <3>2, Zenon
      <4>2. merged[c].next # block /\ ~NextIsFree(merged, c)
        BY <1>9, <4>1, Zenon DEF MergedBut
      <4>3. merged[c].next # f
        <5>1. merged[f].prev = block
          BY <1>9, <2>2, <2>7, Zenon DEF f
        <5> QED BY <2>2, <2>7, <4>1, <3>2, <5>1, Zenon
      <4> QED BY <2>6, <2>7, <4>1, <4>2, <4>3, Zenon DEF NextIsFree
    <3> QED BY <3>1, <3>2, Zenon
  <2>10. Keeps(bs, ab, b)
    BY <1>9, <2>5, KeepsTwice, Zenon
  <2>11. b \notin InUse(ab)
    BY <1>9, <2>6, Zenon DEF InUse
  <2> QED BY <1>3, <2>1, <2>4, <2>9, <2>10, <2>11, Zenon DEF TakenBack, Merged, ab
<1> QED
  BY <1>10, <1>11, Zenon

-----------------------------------------------------------------------------
(***************************************************************************)
(* What callers hold.  In a step that Moves block b to block c, the blocks *)
(* in use are the ones before, with c in the place of b.                   *)
(***************************************************************************)
Matches(bs, lv) ==
    /\ DOMAIN lv = {Payload(c) : c \in InUse(bs)}
    /\ \A c \in InUse(bs) : lv[Payload(c)] \in Nat /\ lv[Payload(c)] <= bs[c].size

Moves(bs, b, c, size, new) ==
    /\ IsHeap(new) /\ Merged(new)
    /\ InUse(new) = (InUse(bs) \ {b}) \cup {c}
    /\ c \notin InUse(bs) \ {b}
    /\ new[c].size >= size
    /\ \A d \in InUse(bs) \ {b} : new[d].size = bs[d].size

LEMMA PayloadOneToOne ==
    ASSUME NEW b \in Nat, NEW c \in Nat, Payload(b) = Payload(c)
    PROVE  b = c
  BY ZoneFacts DEF Payload

\* Pointer lv[q] of the block d, and the n bytes of another block c, in a
\* heap: they do not overlap.
LEMMA PayloadsApart ==
    ASSUME NEW bs, IsHeap(bs), NEW c \in DOMAIN bs, NEW d \in DOMAIN bs, c # d,
           NEW n \in Nat, n <= bs[c].size, NEW m \in Nat, m <= bs[d].size
    PROVE  /\ Payload(c) # Payload(d)
           /\ Payload(c) + n <= Payload(d) \/ Payload(d) + m <= Payload(c)
<1>1. c \in Nat /\ d \in Nat /\ bs[c].size \in Nat /\ bs[d].size \in Nat /\ BlockHeader \in Nat
  BY BlockFacts, ZoneFacts, Zenon DEF BlockRec
<1>2. c < d => c + BlockHeader + bs[c].size <= d
  BY BlocksApart, Zenon
<1>3. d < c => d + BlockHeader + bs[d].size <= c
  BY BlocksApart, Zenon
<1> QED
  BY <1>1, <1>2, <1>3 DEF Payload

LEMMA GiveLive ==
    ASSUME NEW bs, IsHeap(bs), NEW lv, Matches(bs, lv), NEW b, NEW size \in Nat, NEW new,
           HandedOut(bs, b, size, new), b \notin InUse(bs), NEW n \in Nat, n <= size
    PROVE  /\ Matches(new, With(lv, Payload(b), n))
           /\ H!Fits(lv, Payload(b), n)
<1>1. /\ IsHeap(new) /\ b \in InUse(new) /\ b \in DOMAIN new /\ new[b].size >= size
      /\ InUse(new) = InUse(bs) \cup {b}
      /\ \A c \in InUse(bs) : new[c].size = bs[c].size
  BY Zenon DEF HandedOut, Keeps, InUse
<1>2. InUse(new) \subseteq DOMAIN new /\ DOMAIN new \subseteq Nat /\ InUse(bs) \subseteq Nat
  BY <1>1, Zenon DEF InUse, IsHeap
<1>3. n <= new[b].size
  BY <1>1, BlockFacts DEF BlockRec
<1>4. \A c \in InUse(bs) : Payload(c) # Payload(b)
  BY <1>1, <1>2, PayloadOneToOne, Zenon
<1>5. Matches(new, With(lv, Payload(b), n))
  BY <1>1, <1>3, <1>4, Zenon DEF Matches, With
<1>6. AlignedStart <= Payload(b) /\ Payload(b) + n <= ZoneEnd
  BY <1>1, <1>3, BlockFacts, ZoneFacts DEF Payload, BlockRec
<1>7. ASSUME NEW q \in DOMAIN lv
      PROVE  q # Payload(b) /\ (Payload(b) + n <= q \/ q + lv[q] <= Payload(b))
  <2>1. PICK c \in InUse(bs) : q = Payload(c)
    BY Zenon DEF Matches
  <2>2. c \in DOMAIN new /\ c # b /\ lv[q] \in Nat /\ lv[q] <= new[c].size
    BY <1>1, <1>2, <2>1, Zenon DEF Matches
  <2> QED BY <1>1, <1>3, <2>1, <2>2, PayloadsApart, Zenon
<1> QED
  BY <1>5, <1>6, <1>7, Zenon DEF H!Fits

LEMMA TakeLive ==
    ASSUME NEW bs, IsHeap(bs), NEW lv, Matches(bs, lv), NEW b \in InUse(bs), NEW new,
           TakenBack(bs, b, new)
    PROVE  Matches(new, Without(lv, Payload(b)))
<1>1. InUse(new) = InUse(bs) \ {b} /\ \A c \in InUse(new) : new[c].size = bs[c].size
  BY Zenon DEF TakenBack, Keeps
<1>2. InUse(bs) \subseteq Nat
  BY Zenon DEF InUse, IsHeap
<1>3. \A c \in InUse(new) : Payload(c) # Payload(b)
  BY <1>1, <1>2, PayloadOneToOne, Zenon
<1> QED
  BY <1>1, <1>3, Zenon DEF Matches, Without, Restrict

LEMMA MoveLive ==
    ASSUME NEW bs, IsHeap(bs), NEW lv, Matches(bs, lv), NEW b \in InUse(bs), NEW c,
           NEW size \in Nat, NEW new, Moves(bs, b, c, size, new), NEW n \in Nat, n <= size
    PROVE  /\ Matches(new, With(Without(lv, Payload(b)), Payload(c), n))
           /\ H!Fits(Without(lv, Payload(b)), Payload(c), n)
<1> DEFINE rest == Without(lv, Payload(b))
<1>1. /\ IsHeap(new) /\ c \in InUse(new) /\ c \in DOMAIN new /\ new[c].size >= size
      /\ InUse(new) = (InUse(bs) \ {b}) \cup {c} /\ c \notin InUse(bs) \ {b}
      /\ \A d \in InUse(bs) \ {b} : new[d].size = bs[d].size
  BY Zenon DEF Moves, InUse
<1>2. InUse(new) \subseteq DOMAIN new /\ DOMAIN new \subseteq Nat /\ InUse(bs) \subseteq Nat
  BY <1>1, Zenon DEF InUse, IsHeap
<1>3. n <= new[c].size
  BY <1>1, BlockFacts DEF BlockRec
<1>4. \A d \in InUse(bs) \ {b} : Payload(d) # Payload(c) /\ Payload(d) # Payload(b)
  BY <1>1, <1>2, PayloadOneToOne, Zenon
<1>5. /\ DOMAIN rest = {Payload(d) : d \in InUse(bs) \ {b}}
      /\ \A d \in InUse(bs) \ {b} : /\ rest[Payload(d)] \in Nat
                                    /\ rest[Payload(d)] <= new[d].size
  BY <1>1, <1>4, Zenon DEF Matches, Without, Restrict
<1> HIDE DEF rest
<1>6. Matches(new, With(rest, Payload(c), n))
  BY <1>1, <1>3, <1>4, <1>5, Zenon DEF Matches, With
<1>7. AlignedStart <= Payload(c) /\ Payload(c) + n <= ZoneEnd
  BY <1>1, <1>3, BlockFacts, ZoneFacts DEF Payload, BlockRec
<1>8. ASSUME NEW q \in DOMAIN rest
      PROVE  q # Payload(c) /\ (Payload(c) + n <= q \/ q + rest[q] <= Payload(c))
  <2>1. PICK d \in InUse(bs) \ {b} : q = Payload(d)
    BY <1>5, Zenon
  <2>2. d \in DOMAIN new /\ d # c /\ rest[q] \in Nat /\ rest[q] <= new[d].size
    BY <1>1, <1>2, <1>5, <2>1, Zenon
  <2> QED BY <1>1, <1>3, <2>1, <2>2, PayloadsApart, Zenon
<1> QED
  BY <1>6, <1>7, <1>8, Zenon DEF H!Fits, rest

-----------------------------------------------------------------------------
(***************************************************************************)
(* The operations.                                                         *)
(***************************************************************************)

\* round_up_block_size() returns at least what it is given, or more than any
\* block has.
LEMMA RoundUp ==
    ASSUME NEW n \in 0 .. SIZE_MAX
    PROVE  /\ round_up_block_size(n) \in Nat
           /\ \A bs : IsHeap(bs) => \A b \in DOMAIN bs :
                bs[b].size >= round_up_block_size(n) => n <= round_up_block_size(n)
<1>1. SIZE_MAX \in Nat /\ SIZE_MAX >= 5
  BY SizesAssumption
<1>2. /\ round_up_block_size(n) \in Nat
      /\ n <= round_up_block_size(n) \/ round_up_block_size(n) = SIZE_MAX - 3
  BY <1>1 DEF round_up_block_size, Wrap, ALIGN
<1>3. ASSUME NEW bs, IsHeap(bs), NEW b \in DOMAIN bs
      PROVE  bs[b].size \in Nat /\ bs[b].size < SIZE_MAX - 3
  <2>1. /\ b \in Nat /\ bs[b].size \in Nat /\ head_ <= b
        /\ b + BlockHeader + bs[b].size <= ZoneEnd
    BY <1>3, BlockFacts, Zenon DEF BlockRec
  <2>2. ZoneEnd - head_ <= ZoneSize /\ ZoneSize + 5 <= SIZE_MAX /\ ZoneSize \in Nat
    BY SizesAssumption DEF ZoneEnd, head_, AlignedStart
  <2> QED BY <1>1, <2>1, <2>2, ZoneFacts
<1> QED
  BY <1>1, <1>2, <1>3

\* The block find_best_fit() returns can be handed out.
LEMMA BestFitFits ==
    ASSUME NEW bs, IsHeap(bs), Merged(bs), NEW size \in Nat, NEW align \in Nat \ {0},
           find_best_fit(bs, size, align) # NULL
    PROVE  LET best == find_best_fit(bs, size, align)
           IN  /\ best \in DOMAIN bs /\ ~bs[best].inuse /\ best \notin InUse(bs)
               /\ bs[best].size \in Nat /\ size <= bs[best].size
               /\ MergedBut(bs, best)
<1> DEFINE best == find_best_fit(bs, size, align)
<1>1. /\ DOMAIN bs \subseteq Nat \ {0}
      /\ \A b \in DOMAIN bs : bs[b].size \in Nat
  BY Zenon DEF IsHeap, BlockRec
<1>2. best \in Suitable(bs, size, align)
  BY <1>1, BestFitSuits, Zenon
<1> HIDE DEF best
<1>3. best \in DOMAIN bs /\ ~bs[best].inuse /\ size <= bs[best].size
  BY <1>1, <1>2, Zenon DEF Suitable
<1>4. MergedBut(bs, best)
  BY <1>3, MergedMergedBut, Zenon
<1> QED
  BY <1>1, <1>3, <1>4, Zenon DEF best, InUse

Sizes == Requests \cup AlignedRequests \cup {0}

\* The inductive invariant.
Inv ==
    /\ IsHeap(blocks)
    /\ Merged(blocks)
    /\ Matches(blocks, live)
    /\ live \in [DOMAIN live -> Sizes]
    /\ fault \in BOOLEAN

\* memalign()'s sum of the size, a header and the alignment does not wrap.
MemalignFits ==
    \A n \in AlignedRequests, align \in Alignments :
        round_up_block_size(n) + BlockHeader + align <= SIZE_MAX

LEMMA SizesNat == Sizes \subseteq 0 .. SIZE_MAX
  BY SizesAssumption DEF Sizes

\* A step that hands block b out for n bytes.
LEMMA GiveInv ==
    ASSUME Inv, NEW b, NEW n \in Sizes, NEW size \in Nat, n <= size,
           HandedOut(blocks, b, size, blocks'), b \notin InUse(blocks),
           live' = With(live, Payload(b), n), UNCHANGED fault
    PROVE  Inv' /\ H!HeapNext
<1>1. n \in Nat
  BY SizesNat, SizesAssumption
<1>2. Matches(blocks', live') /\ H!Fits(live, Payload(b), n)
  BY <1>1, GiveLive, Zenon DEF Inv
<1>3. live' \in [DOMAIN live' -> Sizes]
  BY Zenon DEF Inv, With
<1>4. Inv'
  BY <1>2, <1>3, Zenon DEF Inv, HandedOut
<1>5. Payload(b) \in DOMAIN live' /\ live'[Payload(b)] = n
  BY Zenon DEF With
<1>6. H!Give(Payload(b), n)
  BY <1>2, Zenon DEF H!Give, H!With, With
<1> QED
  BY <1>4, <1>5, <1>6, Zenon DEF H!HeapNext

\* A step that moves block b to block c, for n bytes.
LEMMA MoveInv ==
    ASSUME Inv, NEW b \in InUse(blocks), NEW c, NEW n \in Sizes, NEW size \in Nat, n <= size,
           Moves(blocks, b, c, size, blocks'),
           live' = With(Without(live, Payload(b)), Payload(c), n), UNCHANGED fault
    PROVE  Inv' /\ H!HeapNext
<1>1. n \in Nat
  BY SizesNat, SizesAssumption
<1>2. Matches(blocks', live') /\ H!Fits(Without(live, Payload(b)), Payload(c), n)
  BY <1>1, MoveLive, Zenon DEF Inv
<1>3. live' \in [DOMAIN live' -> Sizes]
  BY Zenon DEF Inv, With, Without, Restrict
<1>4. Inv'
  BY <1>2, <1>3, Zenon DEF Inv, Moves
<1>5. Payload(b) \in DOMAIN live /\ Payload(c) \in DOMAIN live' /\ live'[Payload(c)] = n
  BY Zenon DEF With, Inv, Matches
<1>6. H!Resize(Payload(b), Payload(c), n)
  BY <1>2, Zenon DEF H!Resize, H!With, With, H!Without, Without, Restrict, H!Restrict
<1> QED
  BY <1>4, <1>5, <1>6, Zenon DEF H!HeapNext

LEMMA MallocInv ==
    ASSUME Inv, NEW n \in Sizes, Malloc(n)
    PROVE  Inv' /\ H!HeapNext
<1> DEFINE size == round_up_block_size(n)
           best == find_best_fit(blocks, size, 1)
<1>1. /\ best # NULL /\ blocks' = HandOut(blocks, best, size)
      /\ live' = With(live, Payload(best), n) /\ UNCHANGED fault
  BY Zenon DEF Malloc
<1>2. size \in Nat
  BY RoundUp, SizesNat, Zenon
<1>3. IsHeap(blocks) /\ Merged(blocks)
  BY Zenon DEF Inv
<1> HIDE DEF size
<1>4. /\ best \in DOMAIN blocks /\ best \notin InUse(blocks)
      /\ blocks[best].size \in Nat /\ size <= blocks[best].size /\ MergedBut(blocks, best)
  BY <1>1, <1>2, <1>3, BestFitFits
<1> HIDE DEF best
<1>5. n <= size
  BY <1>2, <1>3, <1>4, RoundUp, SizesNat, Zenon DEF size
<1>6. HandedOut(blocks, best, size, blocks')
  BY <1>1, <1>2, <1>3, <1>4, HandOutHandsOut, Zenon
<1> QED
  BY <1>1, <1>2, <1>4, <1>5, <1>6, GiveInv, Zenon

LEMMA MemalignExactInv ==
    ASSUME Inv, NEW n \in Sizes, NEW align \in Nat \ {0}, MemalignExact(n, align)
    PROVE  Inv' /\ H!HeapNext
<1> DEFINE size == round_up_block_size(n)
           best == find_best_fit(blocks, size, align)
<1>1. /\ best # NULL /\ blocks' = HandOut(blocks, best, size)
      /\ live' = With(live, Payload(best), n) /\ UNCHANGED fault
  BY Zenon DEF MemalignExact
<1>2. size \in Nat
  BY RoundUp, SizesNat, Zenon
<1>3. IsHeap(blocks) /\ Merged(blocks)
  BY Zenon DEF Inv
<1> HIDE DEF size
<1>4. /\ best \in DOMAIN blocks /\ best \notin InUse(blocks)
      /\ blocks[best].size \in Nat /\ size <= blocks[best].size /\ MergedBut(blocks, best)
  BY <1>1, <1>2, <1>3, BestFitFits, Zenon
<1> HIDE DEF best
<1>5. n <= size
  BY <1>2, <1>3, <1>4, RoundUp, SizesNat, Zenon DEF size
<1>6. HandedOut(blocks, best, size, blocks')
  BY <1>1, <1>2, <1>3, <1>4, HandOutHandsOut, Zenon
<1> QED
  BY <1>1, <1>2, <1>4, <1>5, <1>6, GiveInv, Zenon

\* The alignment's remainder splits off between 1 and align bytes.
LEMMA RequestBlockAt ==
    ASSUME NEW best \in Nat, NEW align \in Nat \ {0}
    PROVE  /\ RequestBlock(best, align) - Payload(best) \in 1 .. align
           /\ RequestBlock(best, align)
                = best + BlockHeader + (RequestBlock(best, align) - Payload(best))
<1> DEFINE delta == (Payload(best) + BlockHeader) % align
<1>1. Payload(best) \in Nat /\ BlockHeader \in Nat /\ Payload(best) = best + BlockHeader
  BY ZoneFacts DEF Payload
<1>2. delta \in 0 .. align - 1
  BY <1>1
<1>3. RequestBlock(best, align) = Payload(best) + align - delta
  BY Zenon DEF RequestBlock
<1> HIDE DEF delta
<1> QED
  BY <1>1, <1>2, <1>3

LEMMA MemalignCutInv ==
    ASSUME MemalignFits, Inv, NEW n \in AlignedRequests, NEW align \in Alignments, align # 0,
           MemalignCut(n, align)
    PROVE  Inv' /\ H!HeapNext
<1> DEFINE size == round_up_block_size(n)
           total == Wrap(Wrap(size + MIN_SPLIT_SIZE) + align)
           best == find_best_fit(blocks, total, 1)
           request == RequestBlock(best, align)
           k == request - Payload(best)
           cut == Cut(blocks, best, k)
<1>1. /\ best # NULL /\ blocks' = HandOut(cut, request, size)
      /\ live' = With(live, Payload(request), n) /\ UNCHANGED fault
  BY Zenon DEF MemalignCut
<1>2. IsHeap(blocks) /\ Merged(blocks)
  BY Zenon DEF Inv
<1>3. n \in Sizes /\ n \in 0 .. SIZE_MAX /\ align \in Nat \ {0} /\ size \in Nat
  BY RoundUp, SizesNat, SizesAssumption DEF Sizes
<1>4. size + BlockHeader + align <= SIZE_MAX
  BY Zenon DEF MemalignFits
<1>5. \A bs : IsHeap(bs) => \A b \in DOMAIN bs : bs[b].size >= size => n <= size
  BY <1>3, RoundUp, Zenon
<1> HIDE DEF size
<1>6. total = size + BlockHeader + align /\ total \in Nat
  BY <1>3, <1>4, ZoneFacts DEF Wrap, MIN_SPLIT_SIZE
<1> HIDE DEF total
<1>7. /\ best \in DOMAIN blocks /\ ~blocks[best].inuse
      /\ blocks[best].size \in Nat /\ total <= blocks[best].size
  <2>1. 1 \in Nat \ {0} /\ best # NULL
    BY <1>1
  <2> QED
    BY <1>2, <1>6, <2>1, BestFitFits, Zenon
<1> HIDE DEF best
<1>8. best \in Nat
  BY <1>2, <1>7, BlockFacts, Zenon
<1>9. k \in 1 .. align /\ request = best + BlockHeader + k
  BY <1>3, <1>8, RequestBlockAt, Zenon
<1> HIDE DEF request
<1>10. k \in Nat /\ k + BlockHeader <= blocks[best].size
  BY <1>3, <1>6, <1>7, <1>9, ZoneFacts
<1>11. CutEffect(blocks, best, request, k, cut)
  BY <1>2, <1>7, <1>9, <1>10, CutAt, Zenon
<1>12. IsHeap(cut)
  BY <1>2, <1>7, <1>10, <1>11, CutHeap, Zenon
<1> HIDE DEF cut
<1>13. /\ request \in DOMAIN cut \ DOMAIN blocks /\ ~cut[request].inuse
       /\ cut[request].size = blocks[best].size - k - BlockHeader
  BY <1>11, Zenon DEF CutEffect
<1>14. size <= cut[request].size
  BY <1>3, <1>6, <1>7, <1>9, <1>13, ZoneFacts
<1>15. MergedBut(cut, request)
  <2> SUFFICES ASSUME NEW c \in DOMAIN cut \ {request}, ~cut[c].inuse, cut[c].next # request
               PROVE  ~NextIsFree(cut, c)
    BY Zenon DEF MergedBut
  <2>1. c \in DOMAIN blocks /\ ~blocks[c].inuse /\ cut[c].next = blocks[c].next
    BY <1>11, Zenon DEF CutEffect
  <2>2. blocks[c].next # NULL => blocks[c].next \in DOMAIN blocks
    BY <1>2, <2>1, BlockFacts, Zenon
  <2> QED BY <1>2, <1>11, <2>1, <2>2, Zenon DEF CutEffect, NextIsFree, Merged
<1>16. HandedOut(cut, request, size, blocks')
  BY <1>1, <1>3, <1>12, <1>13, <1>14, <1>15, HandOutHandsOut, Zenon
<1>17. Keeps(blocks, cut, best)
  BY <1>7, <1>11, CutKeeps, Zenon
<1>18. Keeps(blocks, cut, request)
  BY <1>7, <1>11, <1>13, <1>17, Zenon DEF Keeps, InUse, CutEffect
<1>19. HandedOut(blocks, request, size, blocks')
  BY <1>16, <1>18, KeepsTwice, Zenon DEF HandedOut
<1>20. request \notin InUse(blocks)
  BY <1>13, Zenon DEF InUse
<1>21. n <= size
  BY <1>5, <1>12, <1>13, <1>14, BlockFacts, Zenon
<1> QED
  BY <1>1, <1>3, <1>19, <1>20, <1>21, GiveInv, Zenon

LEMMA FreeInv ==
    ASSUME Inv, NEW p \in DOMAIN live, Free(p)
    PROVE  Inv' /\ H!HeapNext
<1>1. PICK b \in InUse(blocks) : p = Payload(b)
  BY Zenon DEF Inv, Matches
<1>2. p - BlockHeader = b
  BY <1>1, ZoneFacts, BlockFacts DEF Payload, Inv, InUse
<1>3. TakenBack(blocks, b, blocks')
  BY <1>2, ReleasedTakesBack, Zenon DEF Free, Inv
<1>4. Matches(blocks', live')
  BY <1>1, <1>3, TakeLive, Zenon DEF Free, Inv
<1>5. live' \in [DOMAIN live' -> Sizes]
  BY Zenon DEF Inv, Free, Without, Restrict
<1>6. Inv'
  BY <1>3, <1>4, <1>5, Zenon DEF Inv, TakenBack, Free
<1>7. H!Take(p)
  BY Zenon DEF H!Take, Free, H!Without, Without, Restrict, H!Restrict
<1> QED
  BY <1>6, <1>7, Zenon DEF H!HeapNext

\* A block in use that is cut to size where it is.
LEMMA FreshMoves ==
    ASSUME NEW bs, NEW b \in InUse(bs), NEW size \in Nat, NEW new, Fresh(bs, b, size, new)
    PROVE  Moves(bs, b, b, size, new)
<1>1. /\ IsHeap(new) /\ b \in DOMAIN new /\ new[b].inuse /\ new[b].size >= size
      /\ Keeps(bs, new, b) /\ MergedBut(new, b)
  BY Zenon DEF Fresh, InUse
<1>2. Merged(new)
  BY <1>1, MergedMergedBut, Zenon
<1>3. b \in InUse(new)
  BY <1>1, Zenon DEF InUse
<1> QED
  BY <1>1, <1>2, <1>3, Zenon DEF Moves, Keeps

\* The list remains merged, but for the block that swallows its neighbour.
LEMMA AbsorbMerged ==
    ASSUME NEW bs, IsHeap(bs), Merged(bs), NEW b \in DOMAIN bs, bs[b].next # NULL,
           NEW new, AbsorbEffect(bs, b, new)
    PROVE  MergedBut(new, b)
<1> SUFFICES ASSUME NEW c \in DOMAIN new \ {b}, ~new[c].inuse, new[c].next # b
             PROVE  ~NextIsFree(new, c)
  BY Zenon DEF MergedBut
<1>1. c \in DOMAIN bs /\ ~bs[c].inuse /\ new[c].next = bs[c].next
  BY Zenon DEF AbsorbEffect
<1>2. /\ bs[bs[b].next].prev = b
      /\ bs[c].next # NULL => bs[c].next \in DOMAIN bs /\ bs[bs[c].next].prev = c
  BY <1>1, BlockFacts
<1>3. bs[c].next # NULL => bs[c].next \in DOMAIN new
  BY <1>2, Zenon DEF AbsorbEffect
<1> QED
  BY <1>1, <1>2, <1>3, Zenon DEF AbsorbEffect, NextIsFree, Merged

LEMMA LiveExcept ==
    ASSUME live \in [DOMAIN live -> Sizes], NEW p \in DOMAIN live, NEW n
    PROVE  [live EXCEPT ![p] = n] = With(Without(live, p), p, n)
  BY Zenon DEF With, Without, Restrict

LEMMA ReallocZeroInv ==
    ASSUME Inv, NEW b \in InUse(blocks), ReallocZero(b), UNCHANGED fault
    PROVE  Inv' /\ H!HeapNext
<1> DEFINE freed == Released(blocks, b)
           best == find_best_fit(freed, 0, 1)
<1>1. /\ best # NULL /\ blocks' = HandOut(freed, best, 0)
      /\ live' = With(Without(live, Payload(b)), Payload(best), 0)
  BY Zenon DEF ReallocZero
<1>2. TakenBack(blocks, b, freed)
  BY ReleasedTakesBack, Zenon DEF Inv
<1> HIDE DEF freed
<1>3. /\ best \in DOMAIN freed /\ best \notin InUse(freed)
      /\ freed[best].size \in Nat /\ 0 <= freed[best].size /\ MergedBut(freed, best)
  <2>1. 1 \in Nat \ {0} /\ 0 \in Nat /\ best # NULL /\ IsHeap(freed) /\ Merged(freed)
    BY <1>1, <1>2 DEF TakenBack
  <2> QED
    BY <2>1, BestFitFits, Zenon
<1> HIDE DEF best
<1>4. HandedOut(freed, best, 0, blocks')
  BY <1>1, <1>2, <1>3, HandOutHandsOut, Zenon DEF TakenBack
<1>5. Moves(blocks, b, best, 0, blocks')
  BY <1>2, <1>3, <1>4, Zenon DEF TakenBack, HandedOut, Moves, Keeps
<1>6. 0 \in Sizes
  BY Zenon DEF Sizes
<1> QED
  BY <1>1, <1>5, <1>6, MoveInv

LEMMA ReallocShrinkInv ==
    ASSUME Inv, NEW b \in InUse(blocks), NEW n \in Sizes,
           ReallocShrink(b, n, round_up_block_size(n)), UNCHANGED fault
    PROVE  Inv' /\ H!HeapNext
<1> DEFINE size == round_up_block_size(n)
<1>1. /\ blocks[b].size >= size
      /\ blocks' = consider_splitting_block(blocks, b, size)
      /\ live' = [live EXCEPT ![Payload(b)] = n]
  BY Zenon DEF ReallocShrink
<1>2. IsHeap(blocks) /\ Merged(blocks) /\ b \in DOMAIN blocks /\ blocks[b].size \in Nat
  BY BlockFacts, Zenon DEF Inv, InUse, BlockRec
<1>3. size \in Nat /\ n <= size
  BY <1>1, <1>2, RoundUp, SizesNat, Zenon
<1> HIDE DEF size
<1>4. Fresh(blocks, b, size, blocks')
  BY <1>1, <1>2, <1>3, SplitFresh, MergedMergedBut, Zenon
<1>5. Payload(b) \in DOMAIN live
  BY Zenon DEF Inv, Matches
<1>6. live' = With(Without(live, Payload(b)), Payload(b), n)
  BY <1>1, <1>5, LiveExcept, Zenon DEF Inv
<1> QED
  BY <1>3, <1>4, <1>6, FreshMoves, MoveInv, Zenon

LEMMA ReallocExtendInv ==
    ASSUME Inv, NEW b \in InUse(blocks), NEW n \in Sizes,
           ReallocExtend(b, n, round_up_block_size(n)), UNCHANGED fault
    PROVE  Inv' /\ H!HeapNext
<1> DEFINE size == round_up_block_size(n)
           absorbed == Absorb(blocks, b)
<1>1. /\ NextIsFree(blocks, b) /\ absorbed[b].size >= size
      /\ blocks' = consider_splitting_block(absorbed, b, size)
      /\ live' = [live EXCEPT ![Payload(b)] = n]
  BY Zenon DEF ReallocExtend, CanExtend
<1>2. /\ IsHeap(blocks) /\ Merged(blocks) /\ b \in DOMAIN blocks /\ blocks[b].inuse
      /\ blocks[b].next # NULL /\ ~blocks[blocks[b].next].inuse
  BY <1>1, Zenon DEF Inv, InUse, NextIsFree
<1>3. AbsorbEffect(blocks, b, absorbed)
  BY <1>2, AbsorbAt, Zenon
<1> HIDE DEF absorbed
<1>4. IsHeap(absorbed) /\ b \in DOMAIN absorbed
  BY <1>2, <1>3, AbsorbHeap, Zenon
<1>5. absorbed[b].inuse /\ absorbed[b].size \in Nat
  BY <1>2, <1>3, <1>4, BlockFacts, Zenon DEF AbsorbEffect, BlockRec
<1>6. blocks[b].next \in DOMAIN blocks /\ blocks[b].next # b
  BY <1>2, BlockFacts, Zenon
<1>7. Keeps(blocks, absorbed, b)
  BY <1>2, <1>3, <1>6, AbsorbKeeps, Zenon
<1>8. MergedBut(absorbed, b)
  BY <1>2, <1>3, AbsorbMerged, Zenon
<1>9. size \in Nat /\ n <= size
  BY <1>1, <1>4, <1>5, RoundUp, SizesNat, Zenon
<1> HIDE DEF size
<1>10. Fresh(absorbed, b, size, blocks')
  BY <1>1, <1>4, <1>5, <1>8, <1>9, SplitFresh, Zenon
<1>11. Fresh(blocks, b, size, blocks')
  BY <1>2, <1>5, <1>7, <1>10, KeepsTwice, Zenon DEF Fresh
<1>12. Payload(b) \in DOMAIN live
  BY Zenon DEF Inv, Matches
<1>13. live' = With(Without(live, Payload(b)), Payload(b), n)
  BY <1>1, <1>12, LiveExcept, Zenon DEF Inv
<1> QED
  BY <1>9, <1>11, <1>13, FreshMoves, MoveInv, Zenon

LEMMA ReallocMoveInv ==
    ASSUME Inv, NEW b \in InUse(blocks), NEW n \in Sizes,
           ReallocMove(b, n, round_up_block_size(n)), UNCHANGED fault
    PROVE  Inv' /\ H!HeapNext
<1> DEFINE size == round_up_block_size(n)
           best == find_best_fit(blocks, size, 1)
           split == consider_splitting_block(blocks, best, size)
           copied == [split EXCEPT ![best].inuse = TRUE, ![b].data = blocks[best].data]
<1>1. /\ best # NULL /\ blocks' = Released(copied, b)
      /\ live' = With(Without(live, Payload(b)), Payload(best), n)
  BY Zenon DEF ReallocMove
<1>2. IsHeap(blocks) /\ Merged(blocks) /\ b \in DOMAIN blocks
  BY Zenon DEF Inv, InUse
<1>3. size \in Nat
  BY RoundUp, SizesNat, Zenon
<1>4. \A bs : IsHeap(bs) => \A c \in DOMAIN bs : bs[c].size >= size => n <= size
  BY RoundUp, SizesNat, Zenon
<1> HIDE DEF size
<1>5. /\ best \in DOMAIN blocks /\ best \notin InUse(blocks) /\ best # b
      /\ blocks[best].size \in Nat /\ size <= blocks[best].size /\ MergedBut(blocks, best)
  BY <1>1, <1>2, <1>3, BestFitFits
<1>6. n <= size
  BY <1>2, <1>3, <1>4, <1>5, Zenon
<1> HIDE DEF best
<1>7. Fresh(blocks, best, size, split)
  BY <1>2, <1>3, <1>5, SplitFresh, Zenon
<1> HIDE DEF split
<1>8. /\ split \in [DOMAIN split -> BlockRec] /\ best \in DOMAIN split
      /\ b \in InUse(split) /\ b \in DOMAIN split
  BY <1>5, <1>7, Zenon DEF Fresh, IsHeap, Keeps, InUse
<1>9. blocks[best].data \in {"caller", "junk"}
  BY <1>2, <1>5, BlockFacts, Zenon DEF BlockRec
<1>10. /\ copied \in [DOMAIN split -> BlockRec]
       /\ copied[best].inuse
       /\ \A c \in DOMAIN split : /\ copied[c].prev = split[c].prev
                                  /\ copied[c].next = split[c].next
                                  /\ copied[c].size = split[c].size
                                  /\ c # best => copied[c].inuse = split[c].inuse
  BY <1>5, <1>8, <1>9, ZenonT(30) DEF BlockRec
<1> HIDE DEF copied
<1>11. HandedOut(blocks, best, size, copied)
  BY <1>3, <1>7, <1>10, MarkedIsHandedOut, Zenon
<1>12. b \in InUse(copied)
  BY <1>5, <1>11, Zenon DEF HandedOut, Keeps
<1>13. TakenBack(copied, b, blocks')
  BY <1>1, <1>11, <1>12, ReleasedTakesBack, Zenon DEF HandedOut
<1>14. Moves(blocks, b, best, size, blocks')
  BY <1>5, <1>11, <1>12, <1>13, Zenon DEF HandedOut, TakenBack, Moves, Keeps
<1> QED
  BY <1>1, <1>3, <1>6, <1>14, MoveInv, Zenon

LEMMA ReallocSlideInv ==
    ASSUME Inv, NEW b \in InUse(blocks), NEW n \in Sizes,
           ReallocSlide(b, n, round_up_block_size(n)), UNCHANGED fault
    PROVE  Inv' /\ H!HeapNext
<1> DEFINE size == round_up_block_size(n)
           preceding == blocks[b].prev
           absorbed == Absorb(blocks, preceding)
           combined == [absorbed EXCEPT ![preceding].inuse = TRUE]
<1>1. /\ preceding # NULL /\ ~blocks[preceding].inuse /\ absorbed[preceding].size >= size
      /\ blocks' = consider_splitting_block(combined, preceding, size)
      /\ live' = With(Without(live, Payload(b)), Payload(preceding), n)
  BY Zenon DEF ReallocSlide, CanSlide, PrevIsFree
<1>2. IsHeap(blocks) /\ Merged(blocks) /\ b \in DOMAIN blocks /\ blocks[b].inuse /\ b # NULL
  BY Zenon DEF Inv, InUse, IsHeap, NULL
<1>3. preceding \in DOMAIN blocks /\ blocks[preceding].next = b /\ preceding # b
  BY <1>1, <1>2, BlockFacts, Zenon
<1> HIDE DEF preceding
<1>4. AbsorbEffect(blocks, preceding, absorbed)
  BY <1>2, <1>3, AbsorbAt, Zenon
<1> HIDE DEF absorbed
<1>5. IsHeap(absorbed) /\ preceding \in DOMAIN absorbed
  BY <1>2, <1>3, <1>4, AbsorbHeap, Zenon
<1>6. absorbed \in [DOMAIN absorbed -> BlockRec] /\ absorbed[preceding].size \in Nat
  BY <1>5, BlockFacts, Zenon DEF IsHeap, BlockRec
<1>7. MergedBut(absorbed, preceding)
  BY <1>2, <1>3, <1>4, AbsorbMerged, Zenon
<1>8. size \in Nat /\ n <= size
  BY <1>1, <1>5, <1>6, RoundUp, SizesNat, Zenon
<1> HIDE DEF size
<1>9. /\ combined \in [DOMAIN absorbed -> BlockRec] /\ combined[preceding].inuse
      /\ \A c \in DOMAIN absorbed : /\ combined[c].prev = absorbed[c].prev
                                    /\ combined[c].next = absorbed[c].next
                                    /\ combined[c].size = absorbed[c].size
                                    /\ c # preceding => combined[c].inuse = absorbed[c].inuse
  BY <1>5, <1>6, Zenon DEF BlockRec
<1> HIDE DEF combined
<1>10. IsHeap(combined) /\ DOMAIN combined = DOMAIN absorbed
  BY <1>5, <1>9, SameShapeHeap, Zenon
<1>11. MergedBut(combined, preceding)
  <2>1. \A c \in DOMAIN absorbed : absorbed[c].next # NULL => absorbed[c].next \in DOMAIN absorbed
    BY <1>5, BlockFacts, Zenon
  <2> QED BY <1>7, <1>9, <1>10, <2>1, Zenon DEF MergedBut, NextIsFree
<1>12. Fresh(combined, preceding, size, blocks')
  BY <1>1, <1>5, <1>6, <1>8, <1>9, <1>10, <1>11, SplitFresh, Zenon
<1>13. preceding \in InUse(combined)
  BY <1>5, <1>9, <1>10, Zenon DEF InUse
<1>14. Moves(combined, preceding, preceding, size, blocks')
  BY <1>8, <1>12, <1>13, FreshMoves, Zenon
<1>15. /\ InUse(combined) = (InUse(blocks) \ {b}) \cup {preceding}
       /\ preceding \notin InUse(blocks)
       /\ \A d \in InUse(blocks) \ {b} : combined[d].size = blocks[d].size
  BY <1>1, <1>2, <1>3, <1>4, <1>5, <1>9, <1>10 DEF InUse, AbsorbEffect
<1>16. Moves(blocks, b, preceding, size, blocks')
  BY <1>14, <1>15, Zenon DEF Moves
<1> QED
  BY <1>1, <1>8, <1>16, MoveInv, Zenon

LEMMA ReallocInv ==
    ASSUME Inv, NEW p \in DOMAIN live, NEW n \in Requests, Realloc(p, n)
    PROVE  Inv' /\ H!HeapNext
<1>1. PICK b \in InUse(blocks) : p = Payload(b)
  BY Zenon DEF Inv, Matches
<1>2. p - BlockHeader = b
  BY <1>1, ZoneFacts, BlockFacts DEF Payload, Inv, InUse
<1>3. n \in Sizes
  BY Zenon DEF Sizes
<1> DEFINE size == round_up_block_size(n)
<1>4. /\ \/ ReallocZero(b) \/ ReallocShrink(b, n, size) \/ ReallocExtend(b, n, size)
         \/ ReallocMove(b, n, size) \/ ReallocSlide(b, n, size)
      /\ UNCHANGED fault
  BY <1>2, Zenon DEF Realloc
<1> QED
  BY <1>3, <1>4, ReallocZeroInv, ReallocShrinkInv, ReallocExtendInv, ReallocMoveInv, ReallocSlideInv, Zenon

-----------------------------------------------------------------------------
(***************************************************************************)
(* The theorems.  They assume MemalignFits, without which memalign()       *)
(* writes outside the block it found.                                      *)
(***************************************************************************)
LEMMA InitInv == Init => Inv /\ H!HeapInit
<1> SUFFICES ASSUME Init PROVE Inv /\ H!HeapInit
  BY Zenon
<1>1. /\ DOMAIN blocks = {head_} /\ blocks \in [{head_} -> BlockRec]
      /\ blocks[head_].prev = NULL /\ blocks[head_].next = NULL /\ ~blocks[head_].inuse
      /\ blocks[head_].size = ZoneSize - ZoneHeader - BlockHeader
  BY SizesAssumption DEF Init, Block, BlockRec, NULL
<1>2. head_ + BlockHeader + blocks[head_].size = ZoneEnd
  BY <1>1, ZoneFacts, SizesAssumption DEF head_, ZoneEnd
<1>3. Linked(blocks, head_)
  BY <1>1, <1>2, ZoneFacts DEF Linked, BlockEnd, Payload
<1>4. Tiles(blocks)
  BY <1>1, <1>3, ZoneFacts DEF Tiles
<1>5. IsHeap(blocks)
  BY <1>1, <1>4, ZoneFacts, Zenon DEF IsHeap
<1>6. Merged(blocks) /\ InUse(blocks) = {}
  BY <1>1, Zenon DEF Merged, NextIsFree, InUse
<1>7. DOMAIN live = {} /\ live \in [DOMAIN live -> Sizes]
  BY DEF Init
<1>8. Matches(blocks, live)
  BY <1>6, <1>7, Zenon DEF Matches
<1> QED
  BY <1>5, <1>6, <1>7, <1>8, Zenon DEF Init, Inv, H!HeapInit

LEMMA NextInv ==
    ASSUME MemalignFits, Inv, [Next]_vars
    PROVE  Inv' /\ [H!HeapNext]_live
<1>1. ASSUME NEW n \in Requests, Malloc(n) PROVE Inv' /\ H!HeapNext
  BY <1>1, MallocInv, Zenon DEF Sizes
<1>2. ASSUME NEW n \in AlignedRequests, NEW align \in Alignments, Memalign(n, align)
      PROVE  Inv' /\ [H!HeapNext]_live
  <2>1. n \in Sizes /\ align \in Nat
    BY SizesAssumption DEF Sizes
  <2>2. CASE align = 0 /\ Malloc(n)
    BY <2>1, <2>2, MallocInv, Zenon
  <2>3. CASE align # 0 /\ MemalignExact(n, align)
    BY <2>1, <2>3, MemalignExactInv, Zenon
  <2>4. CASE align # 0 /\ MemalignCut(n, align)
    BY <2>4, MemalignCutInv, Zenon
  <2>5. CASE MemalignNull(n, align)
    BY <2>5, Zenon DEF MemalignNull, Inv
  <2> QED
    BY <1>2, <2>2, <2>3, <2>4, <2>5, Zenon DEF Memalign
<1>3. ASSUME NEW p \in DOMAIN live, Free(p) PROVE Inv' /\ H!HeapNext
  BY <1>3, FreeInv, Zenon
<1>4. ASSUME NEW p \in DOMAIN live, NEW n \in Requests, Realloc(p, n) PROVE Inv' /\ H!HeapNext
  BY <1>4, ReallocInv, Zenon
<1>5. CASE UNCHANGED vars
  BY <1>5, Zenon DEF vars, Inv
<1> QED
  BY <1>1, <1>2, <1>3, <1>4, <1>5, Zenon DEF Next

LEMMA SpecInv ==
    ASSUME MemalignFits
    PROVE  Spec => []Inv
<1>1. Init => Inv
  BY InitInv, Zenon
<1>2. Inv /\ [Next]_vars => Inv'
  BY NextInv, Zenon
<1> QED
  BY <1>1, <1>2, PTL DEF Spec

LEMMA InvLiveIsInUse == Inv => LiveIsInUse
<1> SUFFICES ASSUME Inv PROVE LiveIsInUse
  BY Zenon
<1>1. DOMAIN live = {Payload(b) : b \in {c \in DOMAIN blocks : blocks[c].inuse}}
  BY Zenon DEF Inv, Matches, InUse
<1>2. ASSUME NEW p \in DOMAIN live PROVE live[p] <= blocks[p - BlockHeader].size
  <2>1. PICK b \in InUse(blocks) : p = Payload(b)
    BY Zenon DEF Inv, Matches
  <2>2. p - BlockHeader = b
    BY <2>1, ZoneFacts, BlockFacts DEF Payload, Inv, InUse
  <2> QED BY <2>1, <2>2, Zenon DEF Inv, Matches
<1> QED
  BY <1>1, <1>2, Zenon DEF LiveIsInUse

LEMMA InvOneBlock == Inv => AllFreedIsOneBlock
<1> SUFFICES ASSUME Inv, live = << >> PROVE DOMAIN blocks = {head_}
  BY Zenon DEF AllFreedIsOneBlock
<1>1. IsHeap(blocks) /\ Merged(blocks)
  BY Zenon DEF Inv
<1>2. DOMAIN live = {}
  OBVIOUS
<1>3. \A b \in DOMAIN blocks : ~blocks[b].inuse
  BY <1>2, Zenon DEF Inv, Matches, InUse
<1>4. head_ \in DOMAIN blocks
  BY <1>1, Zenon DEF IsHeap, Tiles
<1>5. blocks[head_].next = NULL
  BY <1>1, <1>3, <1>4, BlockFacts, Zenon DEF Merged, NextIsFree
<1>6. head_ + BlockHeader + blocks[head_].size = ZoneEnd
  BY <1>1, <1>4, <1>5, BlockFacts, Zenon
<1>7. ASSUME NEW b \in DOMAIN blocks, b # head_ PROVE FALSE
  <2>1. /\ b \in Nat /\ head_ <= b /\ b + BlockHeader + blocks[b].size <= ZoneEnd
        /\ blocks[b].size \in Nat
    BY <1>1, BlockFacts, Zenon DEF BlockRec
  <2>2. head_ < b
    BY <1>7, <2>1, ZoneFacts
  <2>3. head_ + BlockHeader + blocks[head_].size <= b
    BY <1>1, <1>4, <2>2, BlocksApart, Zenon
  <2> QED BY <1>6, <2>1, <2>3, ZoneFacts
<1> QED
  BY <1>4, <1>7, Zenon

\* For every zone, every size of its headers and every set of requests: the
\* blocks of malloc_zone.cpp tile the zone, no two free ones in a row, and a
\* pointer is held by a caller exactly when its block is in use and as large
\* as asked; when all is freed there is one block again.
THEOREM ZoneSafe ==
    ASSUME MemalignFits
    PROVE  Spec => [](TypeOK /\ ZoneIntact)
<1>1. Inv => TypeOK
  <2> SUFFICES ASSUME Inv PROVE TypeOK
    BY Zenon
  <2>1. ASSUME NEW b \in DOMAIN blocks PROVE b \in 1 .. SIZE_MAX /\ blocks[b] \in BlockRec
    <3>1. /\ b \in Nat /\ head_ <= b /\ b + BlockHeader + blocks[b].size <= ZoneEnd
          /\ blocks[b] \in BlockRec
      BY BlockFacts, Zenon DEF Inv
    <3>2. blocks[b].size \in Nat
      BY <3>1, Zenon DEF BlockRec
    <3> QED BY <3>1, <3>2, ZoneFacts
  <2> QED BY <2>1, Zenon DEF Inv, TypeOK, BlockRec, Sizes
<1>2. Inv => BlocksTile /\ Coalesced
  BY Zenon DEF Inv, IsHeap, BlocksTile, Coalesced
<1>3. Inv => LiveIsInUse /\ AllFreedIsOneBlock
  BY InvLiveIsInUse, InvOneBlock, Zenon
<1>4. Inv => TypeOK /\ ZoneIntact
  BY <1>1, <1>2, <1>3, Zenon DEF ZoneIntact
<1> QED
  BY <1>4, SpecInv, PTL

\* MallocZone implements Heap: what malloc(), memalign() and realloc() return
\* lies inside the zone and apart from every allocation still held.
THEOREM ZoneImplementsHeap ==
    ASSUME MemalignFits
    PROVE  Spec => ImplementsHeap
<1>1. Init => H!HeapInit
  BY InitInv, Zenon
<1>2. Inv /\ [Next]_vars => [H!HeapNext]_live
  BY NextInv, Zenon
<1> QED
  BY <1>1, <1>2, SpecInv, PTL DEF Spec, ImplementsHeap, H!HeapSpec

=============================================================================
