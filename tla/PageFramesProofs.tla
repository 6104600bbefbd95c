-------------------------- MODULE PageFramesProofs --------------------------
(***************************************************************************)
(* The page frame allocator's books balance, for any number of frames, any *)
(* memory map and modules, and any number of controllers, as long as       *)
(* allocate() is asked for whole pages.                                    *)
(***************************************************************************)
EXTENDS PageFrames, TLAPS, FiniteSetTheorems

\* The kernel asks for one page, and for 8 MB.
WholePages == \A n \in Lengths : n % PAGE_SIZE = 0

-----------------------------------------------------------------------------
(***************************************************************************)
(* Arithmetic.                                                             *)
(***************************************************************************)
LEMMA Product ==
    ASSUME NEW a \in Nat, NEW b \in Nat
    PROVE  a * PAGE_SIZE \in Nat /\ (a < b <=> a * PAGE_SIZE < b * PAGE_SIZE)
<1> PAGE_SIZE \in Nat /\ PAGE_SIZE > 0
  BY FramesAssumption
<1>1. a * PAGE_SIZE \in Nat /\ b * PAGE_SIZE \in Nat
  OBVIOUS
<1>2. ASSUME a < b PROVE a * PAGE_SIZE < b * PAGE_SIZE
  BY <1>2
<1>3. ASSUME b <= a PROVE b * PAGE_SIZE <= a * PAGE_SIZE
  BY <1>3
<1> QED
  BY <1>1, <1>2, <1>3

\* A multiple of the page size is so many pages.
LEMMA Pages ==
    ASSUME NEW n \in Nat, n % PAGE_SIZE = 0
    PROVE  n \div PAGE_SIZE \in Nat /\ n = (n \div PAGE_SIZE) * PAGE_SIZE
BY FramesAssumption

LEMMA SumOfPages ==
    ASSUME NEW a \in Nat, NEW b \in Nat
    PROVE  a * PAGE_SIZE + b * PAGE_SIZE = (a + b) * PAGE_SIZE
BY FramesAssumption

-----------------------------------------------------------------------------
(***************************************************************************)
(* The allocator.                                                          *)
(***************************************************************************)
LEMMA FramesNat == Frames \subseteq Nat /\ 0 \in Frames /\ IsFiniteSet(Frames)
<1>1. NUMBER_OF_PAGE_FRAMES \in Nat \ {0}
  BY FramesAssumption, Zenon
<1> QED
  BY <1>1, FS_Interval DEF Frames

\* What the allocator keeps: bitmap_ and count_.
Books == bitmap_ \subseteq Frames /\ count_ \in Nat /\ CountIsFree

\* deallocate() makes one frame free.
LEMMA DeallocateBooks ==
    ASSUME Books, NEW f \in Frames, deallocate(f)
    PROVE  Books' /\ Free' = Free \cup {f}
<1>1. IsFiniteSet(Free)
  BY FramesNat, FS_Subset, Zenon DEF Free
<1>2. bitmap_' \subseteq Frames /\ Free' = Free \cup {f} /\ (f \in bitmap_ <=> f \notin Free)
  BY Zenon DEF Books, deallocate, Free
<1>3. Cardinality(Free') = IF f \in Free THEN Cardinality(Free) ELSE Cardinality(Free) + 1
  BY <1>1, <1>2, FS_AddElement, Zenon
<1>4. Cardinality(Free) \in Nat
  BY <1>1, FS_CardinalityType, Zenon
<1> QED
  BY <1>2, <1>3, <1>4 DEF Books, deallocate, CountIsFree

\* allocate_specific_page_frame() makes one frame used, if it is not.
LEMMA AllocateSpecificBooks ==
    ASSUME Books, NEW f \in Frames, allocate_specific_page_frame(f)
    PROVE  Books' /\ Free' = Free \ {f}
<1>1. IsFiniteSet(Free)
  BY FramesNat, FS_Subset, Zenon DEF Free
<1>2. bitmap_' \subseteq Frames /\ Free' = Free \ {f} /\ (f \in bitmap_ <=> f \notin Free)
  BY Zenon DEF Books, allocate_specific_page_frame, Free
<1>3. /\ IsFiniteSet(Free')
      /\ Cardinality(Free') = IF f \in Free THEN Cardinality(Free) - 1 ELSE Cardinality(Free)
  BY <1>1, <1>2, FS_RemoveElement, Zenon
<1>4. Cardinality(Free) \in Nat /\ Cardinality(Free') \in Nat
  BY <1>1, <1>3, FS_CardinalityType, Zenon
<1> QED
  BY <1>2, <1>3, <1>4, Zenon DEF Books, allocate_specific_page_frame, CountIsFree

Span(f, n) == [frame |-> f, length |-> n]

\* Of a whole number of pages, the frames that is_span_free() looks at are the
\* ones that allocate() marks, and the ones that the span lies in.
LEMMA SpanIsMarked ==
    ASSUME NEW n \in Nat, n % PAGE_SIZE = 0, NEW f \in Frames, is_span_free(f, n)
    PROVE  Marked(f, n) \subseteq Free /\ Marked(f, n) = SpanFrames(Span(f, n))
<1> DEFINE q == n \div PAGE_SIZE
<1>1. q \in Nat /\ n = q * PAGE_SIZE /\ f \in Nat /\ PAGE_SIZE \in Nat /\ PAGE_SIZE > 0
  BY Pages, FramesNat, FramesAssumption
<1> HIDE DEF q
<1>2. ASSUME NEW g \in f .. f + q - 1
      PROVE  g \in Free
  <2> DEFINE k == g - f
  <2>1. k \in Nat /\ k < q /\ g = f + k
    BY <1>1, <1>2
  <2>2. k * PAGE_SIZE < n
    BY <1>1, <2>1, Product, Zenon
  <2>3. CASE k = 0
    BY <2>1, <2>3, <1>1 DEF is_span_free, is_free
  <2>4. CASE k > 0
    <3>1. k <= k * PAGE_SIZE /\ k * PAGE_SIZE \in Nat
      BY <1>1, <2>1
    <3>2. k \in 1 .. n
      BY <2>1, <2>2, <2>4, <3>1
    <3> QED
      BY <2>1, <2>2, <3>2, Zenon DEF is_span_free, is_free
  <2> QED
    BY <2>1, <2>3, <2>4
<1>3. ASSUME NEW g \in Nat
      PROVE  g * PAGE_SIZE < f * PAGE_SIZE + n <=> g < f + q
  BY <1>1, Product, SumOfPages
<1>4. Marked(f, n) = f .. f + q - 1
  BY Zenon DEF Marked, q
<1>5. Marked(f, n) \subseteq Frames
  BY <1>2, <1>4, Zenon DEF Free
<1>6. \A g \in Frames : g \in SpanFrames(Span(f, n)) <=> g \in f .. f + q - 1
  BY <1>1, <1>3, FramesNat DEF SpanFrames, Span
<1>7. SpanFrames(Span(f, n)) \subseteq Frames
  BY Zenon DEF SpanFrames
<1>8. Marked(f, n) = SpanFrames(Span(f, n))
  BY <1>4, <1>5, <1>6, <1>7, Zenon
<1> QED
  BY <1>2, <1>4, <1>8, Zenon

\* allocate() fails, or makes the frames of a span used, which were free.
LEMMA AllocateBooks ==
    ASSUME Books, NEW n \in Nat, n % PAGE_SIZE = 0, NEW f \in Frames, allocate(n, f)
    PROVE  /\ Books'
           /\ \/ f = 0 /\ Free' = Free
              \/ /\ f # 0
                 /\ SpanFrames(Span(f, n)) \subseteq Free
                 /\ Free' = Free \ SpanFrames(Span(f, n))
<1>1. CASE f \in Candidates(n) /\ bitmap_' = bitmap_ \cup Marked(f, n)
           /\ count_' = count_ - Cardinality(Marked(f, n))
  <2>1. is_span_free(f, n) /\ f # 0
    BY <1>1, Zenon DEF Candidates
  <2>2. Marked(f, n) \subseteq Free /\ Marked(f, n) = SpanFrames(Span(f, n))
    BY <2>1, SpanIsMarked, Zenon
  <2> DEFINE M == Marked(f, n)
  <2> HIDE DEF M
  <2>3. IsFiniteSet(Free) /\ IsFiniteSet(M)
    BY <2>2, FramesNat, FS_Subset, Zenon DEF Free, M
  <2>4. bitmap_' \subseteq Frames /\ Free' = Free \ M /\ Free \cap M = M
    BY <1>1, <2>2, Zenon DEF Books, Free, M
  <2>5. /\ IsFiniteSet(Free')
        /\ Cardinality(Free') = Cardinality(Free) - Cardinality(M)
    <3>1. /\ IsFiniteSet(Free \ M)
          /\ Cardinality(Free \ M) = Cardinality(Free) - Cardinality(Free \cap M)
      BY <2>3, FS_Difference, Zenon
    <3> QED
      BY <3>1, <2>4, Zenon
  <2>6. Cardinality(Free) \in Nat /\ Cardinality(Free') \in Nat
    BY <2>3, <2>5, FS_CardinalityType, Zenon
  <2>7. count_' = count_ - Cardinality(M) /\ M = SpanFrames(Span(f, n)) /\ M \subseteq Free
    BY <1>1, <2>2, Zenon DEF M
  <2>8. Books'
    BY <2>4, <2>5, <2>6, <2>7, Zenon DEF Books, CountIsFree
  <2> QED
    BY <2>1, <2>4, <2>7, <2>8, Zenon
<1>2. CASE f = 0 /\ UNCHANGED allocVars
  BY <1>2, Zenon DEF allocVars, Books, CountIsFree, Free
<1> QED
  BY <1>1, <1>2, Zenon DEF allocate

-----------------------------------------------------------------------------
(***************************************************************************)
(* Configuration: what is free while configure() runs.                     *)
(***************************************************************************)
Available == {f \in MemoryMap : is_page_frame_in_available_region(f)}

\* Nobody owns anything yet.
NothingHeld == controller = [c \in Controllers |-> Empty] /\ spans = {}

BootInv ==
    /\ phase = "memory" =>
         todo \subseteq MemoryMap /\ NothingHeld /\ Free = Available \ todo
    /\ phase = "modules" =>
         todo \subseteq ModuleFrames /\ NothingHeld /\ Free = Available \ (ModuleFrames \ todo)

\* Frame 0 is in nobody's span.
SpansAboveZero == \A s \in spans : s.frame # 0

Inv == TypeOK /\ CountIsFree /\ OneOwner /\ PoolConserved /\ BootInv /\ SpansAboveZero

LEMMA InvBooks == Inv => Books
BY Zenon DEF Inv, TypeOK, Books

LEMMA AvailableFrames == Available \subseteq Frames
<1>1. NUMBER_OF_PAGE_FRAMES \in Nat /\ MemoryMap \subseteq Nat
  BY FramesAssumption, Zenon
<1>2. \A f \in Available : f \in MemoryMap /\ f < NUMBER_OF_PAGE_FRAMES
  BY Zenon DEF Available, is_page_frame_in_available_region
<1>3. \A f \in Nat : f < NUMBER_OF_PAGE_FRAMES => f \in Frames
  BY <1>1 DEF Frames
<1> QED
  BY <1>1, <1>2, <1>3, Zenon

\* The pool is what is available without the modules, which start on a page:
\* a frame that begins before a module ends before it.
LEMMA PoolIs == Pool = Available \ ModuleFrames
<1>1. ASSUME NEW f \in Frames, NEW m \in Modules
      PROVE  (f + 1) * PAGE_SIZE <= m.mod_start <=> ~(m.mod_start <= f * PAGE_SIZE)
  <2> DEFINE q == m.mod_start \div PAGE_SIZE
  <2>1. q \in Nat /\ m.mod_start = q * PAGE_SIZE /\ f \in Nat /\ f + 1 \in Nat
    BY FramesAssumption, Pages, FramesNat
  <2> HIDE DEF q
  <2>2. f * PAGE_SIZE \in Nat /\ (f + 1) * PAGE_SIZE \in Nat /\ q * PAGE_SIZE \in Nat
    BY <2>1, Product, Zenon
  <2>3. f < q <=> f * PAGE_SIZE < q * PAGE_SIZE
    BY <2>1, Product, Zenon
  <2>4. q < f + 1 <=> q * PAGE_SIZE < (f + 1) * PAGE_SIZE
    BY <2>1, Product, Zenon
  <2> QED
    BY <2>1, <2>2, <2>3, <2>4
<1>2. ASSUME NEW f \in Frames, NEW m \in Modules
      PROVE  f * PAGE_SIZE >= m.mod_end <=> ~(f * PAGE_SIZE < m.mod_end)
  BY FramesAssumption, FramesNat, Product
<1>3. \A f \in Frames : f < NUMBER_OF_PAGE_FRAMES
  BY FramesAssumption DEF Frames
<1> QED
  BY <1>1, <1>2, <1>3, AvailableFrames, FramesNat, Zenon
     DEF Pool, Available, ModuleFrames, is_page_frame_in_available_region

LEMMA NothingIsHeld ==
    ASSUME NothingHeld
    PROVE  OneOwner /\ SpansAboveZero /\ \A f : ~Held(f)
BY Zenon DEF SpansAboveZero, NothingHeld, Empty, OneOwner, Held, Owns

LEMMA InvInit == Init => Inv
<1> SUFFICES ASSUME Init PROVE Inv
  BY Zenon
<1>1. NothingHeld /\ Free = {}
  BY Zenon DEF Init, NothingHeld, Free
<1>2. OneOwner /\ PoolConserved /\ SpansAboveZero
  BY <1>1, NothingIsHeld, Zenon DEF PoolConserved, Init
<1>3. TypeOK
  BY FramesNat, Zenon DEF Init, TypeOK, Empty
<1>4. BootInv
  BY <1>1, Zenon DEF BootInv, Init, Available
<1> QED
  BY <1>1, <1>2, <1>3, <1>4, FS_EmptySet, Zenon DEF Inv, CountIsFree, Init

LEMMA ConfigureInv ==
    ASSUME Inv, Configure
    PROVE  Inv'
<1>1. Books /\ phase \in {"memory", "modules"} /\ NothingHeld
  BY InvBooks, Zenon DEF Configure, EnumerateFrame, BeginModules, EnumerateModule, Configured, Inv,
     BootInv
<1>2. NothingHeld'
  BY <1>1, Zenon DEF Configure, EnumerateFrame, BeginModules, EnumerateModule, Configured, NothingHeld
<1>3. OneOwner' /\ SpansAboveZero' /\ \A f : ~Held(f)'
  <2>1. ASSUME NothingHeld' PROVE OneOwner' /\ SpansAboveZero' /\ \A f : ~Held(f)'
    BY <2>1, Zenon DEF SpansAboveZero, NothingHeld, Empty, OneOwner, Held, Owns
  <2> QED
    BY <1>2, <2>1, Zenon
<1>4. ModuleFrames \subseteq Frames
  BY Zenon DEF ModuleFrames
<1>5. CASE EnumerateFrame
  <2> PICK f \in todo : /\ todo' = todo \ {f}
                        /\ IF is_page_frame_in_available_region(f)
                           THEN deallocate(f) ELSE UNCHANGED allocVars
    BY <1>5, Zenon DEF EnumerateFrame
  <2>1. /\ phase = "memory" /\ phase' = "memory" /\ UNCHANGED <<controller, spans>>
        /\ todo \subseteq MemoryMap /\ Free = Available \ todo
    BY <1>5, Zenon DEF EnumerateFrame, Inv, BootInv
  <2>2. Books' /\ Free' = Available \ todo'
    <3>1. CASE is_page_frame_in_available_region(f)
      <4>1. f \in Available /\ f \in Frames
        BY <2>1, <3>1, AvailableFrames, Zenon DEF Available
      <4>2. Books' /\ Free' = Free \cup {f}
        BY <1>1, <3>1, <4>1, DeallocateBooks, Zenon
      <4> QED
        BY <2>1, <4>1, <4>2, Zenon
    <3>2. CASE ~is_page_frame_in_available_region(f)
      <4>1. f \notin Available
        BY <3>2, Zenon DEF Available
      <4>2. Books' /\ Free' = Free
        BY <1>1, <3>2, Zenon DEF allocVars, Books, CountIsFree, Free
      <4> QED
        BY <2>1, <4>1, <4>2, Zenon
    <3> QED
      BY <3>1, <3>2, Zenon
  <2>3. TypeOK'
    BY <2>1, <2>2, Zenon DEF Inv, TypeOK, Books
  <2> QED
    BY <1>2, <1>3, <2>1, <2>2, <2>3, Zenon DEF Inv, Books, BootInv, PoolConserved
<1>6. CASE BeginModules
  <2>1. /\ phase' = "modules" /\ todo' = ModuleFrames /\ Free = Available
        /\ UNCHANGED <<allocVars, controller, spans>>
    BY <1>6, Zenon DEF BeginModules, Inv, BootInv
  <2>2. Books' /\ Free' = Free
    BY <1>1, <2>1, Zenon DEF allocVars, Books, CountIsFree, Free
  <2>3. TypeOK'
    BY <1>4, <2>1, <2>2, Zenon DEF Inv, TypeOK, Books
  <2> QED
    BY <1>2, <1>3, <2>1, <2>2, <2>3, Zenon DEF Inv, Books, BootInv, PoolConserved
<1>7. CASE EnumerateModule
  <2> PICK f \in todo : todo' = todo \ {f} /\ allocate_specific_page_frame(f)
    BY <1>7, Zenon DEF EnumerateModule
  <2>1. /\ phase = "modules" /\ phase' = "modules" /\ UNCHANGED <<controller, spans>>
        /\ todo \subseteq ModuleFrames /\ Free = Available \ (ModuleFrames \ todo)
    BY <1>7, Zenon DEF EnumerateModule, Inv, BootInv
  <2>2. Books' /\ Free' = Free \ {f}
    BY <1>1, <1>4, <2>1, AllocateSpecificBooks, Zenon
  <2>3. Free' = Available \ (ModuleFrames \ todo')
    BY <2>1, <2>2, Zenon
  <2>4. TypeOK'
    BY <2>1, <2>2, Zenon DEF Inv, TypeOK, Books
  <2> QED
    BY <1>2, <1>3, <2>1, <2>2, <2>3, <2>4, Zenon DEF Inv, Books, BootInv, PoolConserved
<1>8. CASE Configured
  <2>1. /\ phase' = "running" /\ Free = Available \ ModuleFrames
        /\ UNCHANGED <<allocVars, todo, controller, spans>>
    BY <1>8, Zenon DEF Configured, Inv, BootInv
  <2>2. Books' /\ Free' = Free
    BY <1>1, <2>1, Zenon DEF allocVars, Books, CountIsFree, Free
  <2>3. TypeOK'
    BY <2>1, <2>2, Zenon DEF Inv, TypeOK, Books
  <2>4. PoolConserved'
    BY <1>3, <2>1, <2>2, PoolIs, Zenon DEF PoolConserved, is_free
  <2> QED
    BY <1>3, <2>1, <2>2, <2>3, <2>4, Zenon DEF Inv, Books, BootInv
<1> QED
  BY <1>5, <1>6, <1>7, <1>8, Zenon DEF Configure

-----------------------------------------------------------------------------
(***************************************************************************)
(* The owners.                                                             *)
(***************************************************************************)
\* The running system, and what all its steps keep.
Running == Inv /\ phase = "running" /\ Books' /\ TypeOK' /\ UNCHANGED bootVars

LEMMA RunningInv ==
    ASSUME Running, OneOwner', PoolConserved', SpansAboveZero'
    PROVE  Inv'
<1>1. phase' = "running"
  BY Zenon DEF Running, bootVars
<1> QED
  BY <1>1, Zenon DEF Running, Inv, Books, BootInv

\* Controller c has given up its frame and taken that of the other one, if
\* there is another: all that moving, assigning and destroying does.
LEMMA TransferInv ==
    ASSUME Running, UNCHANGED spans, NEW c \in Controllers, NEW other \in Controllers,
           \A f \in Frames \ {0} : f \in Free' <=> f \in Free \/ Owns(c, f),
           \A d \in Controllers \ {c, other}, f \in Frames : Owns(d, f)' <=> Owns(d, f),
           \A f \in Frames : Owns(c, f)' <=> c # other /\ Owns(other, f),
           \A f \in Frames : c # other => ~Owns(other, f)'
    PROVE  Inv'
<1>1. OneOwner /\ PoolConserved /\ phase = "running" /\ phase' = "running" /\ SpansAboveZero
  BY Zenon DEF Running, Inv, bootVars
<1>2. /\ \A d \in Controllers, f \in Frames : Owns(d, f) => f # 0
      /\ \A d \in Controllers, f \in Frames : Owns(d, f)' => f # 0
  BY Zenon DEF Owns
<1>3. \A s \in spans : \A f \in SpanFrames(s) : f # 0
  <2> SUFFICES ASSUME NEW s \in spans, NEW f \in SpanFrames(s) PROVE f # 0
    BY Zenon
  <2>1. s.frame \in Frames
    BY Zenon DEF Running, Inv, TypeOK
  <2>2. s.frame # 0 /\ s.frame <= f /\ f \in Frames
    BY <1>1, Zenon DEF SpansAboveZero, SpanFrames
  <2>3. \A a, b \in Nat : a # 0 /\ a <= b => b # 0
    OBVIOUS
  <2> QED
    BY <2>1, <2>2, <2>3, FramesNat, Zenon
<1>4. \A d, e \in Controllers, f \in Frames : Owns(d, f)' /\ Owns(e, f)' => d = e
  BY <1>1, Zenon DEF OneOwner
<1>5. \A d \in Controllers, s \in spans, f \in Frames : ~(Owns(d, f)' /\ f \in SpanFrames(s))
  BY <1>1, Zenon DEF OneOwner
<1>6. \A f \in Frames : Held(f)' <=> Held(f) /\ ~Owns(c, f)
  <2> TAKE f \in Frames
  <2>1. (\E d \in Controllers : Owns(d, f)') <=> (\E d \in Controllers : d # c /\ Owns(d, f))
    BY Zenon
  <2>2. (\E d \in Controllers : d # c /\ Owns(d, f))
        <=> (\E d \in Controllers : Owns(d, f)) /\ ~Owns(c, f)
    BY <1>1, Zenon DEF OneOwner
  <2>3. Owns(c, f) => ~(\E s \in spans : f \in SpanFrames(s))
    BY <1>1, Zenon DEF OneOwner
  <2> QED
    BY <2>1, <2>2, <2>3, Zenon DEF Held
<1>7. \A f \in Frames : Held(f)' => ~is_free(f)'
  <2> SUFFICES ASSUME NEW f \in Frames, Held(f)' PROVE f \notin Free'
    BY Zenon DEF is_free
  <2>1. Held(f) /\ ~Owns(c, f) /\ f # 0
    BY <1>2, <1>3, <1>6, Zenon DEF Held
  <2>2. f \notin Free
    BY <1>1, <2>1, Zenon DEF OneOwner, is_free
  <2> QED
    BY <2>1, <2>2, Zenon
<1>8. OneOwner'
  <2>1. \A s, t \in spans : s # t => SpanFrames(s) \cap SpanFrames(t) = {}
    BY <1>1, Zenon DEF OneOwner
  <2> QED
    BY <1>4, <1>5, <1>7, <2>1, Zenon DEF OneOwner
<1>9. PoolConserved'
  <2> SUFFICES ASSUME NEW f \in Frames \ {0}
               PROVE  f \in Pool <=> (f \in Free' \/ Held(f)')
    BY Zenon DEF PoolConserved, is_free
  <2>1. f \in Pool <=> (f \in Free \/ Held(f))
    BY <1>1, Zenon DEF PoolConserved, is_free
  <2>2. Owns(c, f) => Held(f)
    BY Zenon DEF Held
  <2> QED
    BY <1>6, <2>1, <2>2, Zenon
<1> QED
  BY <1>1, <1>8, <1>9, RunningInv, Zenon DEF SpansAboveZero

\* Frames that were free, and not frame 0, have got an owner: a controller that
\* had none, or a new span.
LEMMA GainInv ==
    ASSUME Running, NEW M \in SUBSET Free, 0 \notin M, Free' = Free \ M,
           SpansAboveZero',
           \A c \in Controllers, f \in Frames : Owns(c, f) => Owns(c, f)',
           \A c, d \in Controllers, f \in M : Owns(c, f)' /\ Owns(d, f)' => c = d,
           \A c \in Controllers, f \in Frames \ M : Owns(c, f)' => Owns(c, f),
           \A f \in Frames \ M : (\E s \in spans' : f \in SpanFrames(s))
                                 <=> (\E s \in spans : f \in SpanFrames(s)),
           \A f \in M : Held(f)',
           \A c \in Controllers, s \in spans', f \in M : ~(Owns(c, f)' /\ f \in SpanFrames(s)),
           \A s, t \in spans' : s # t => SpanFrames(s) \cap SpanFrames(t) = {}
    PROVE  Inv'
<1>1. OneOwner /\ PoolConserved /\ phase = "running" /\ phase' = "running"
  BY Zenon DEF Running, Inv, bootVars
<1>2. M \subseteq Frames /\ Free \subseteq Frames
  BY Zenon DEF Free
<1>3. \A f \in M : ~Held(f)
  BY <1>1, <1>2, Zenon DEF OneOwner, is_free
<1>4. \A f \in Frames \ M : Held(f)' <=> Held(f)
  BY Zenon DEF Held
<1>5. \A c, d \in Controllers, f \in Frames : Owns(c, f)' /\ Owns(d, f)' => c = d
  <2> TAKE c, d \in Controllers, f \in Frames
  <2>1. CASE f \in M
    BY <2>1, Zenon
  <2>2. CASE f \notin M
    BY <1>1, <2>2, Zenon DEF OneOwner
  <2> QED
    BY <2>1, <2>2, Zenon
<1>6. \A c \in Controllers, s \in spans', f \in Frames : ~(Owns(c, f)' /\ f \in SpanFrames(s))
  <2> TAKE c \in Controllers, s \in spans', f \in Frames
  <2>1. CASE f \in M
    BY <2>1, Zenon
  <2>2. CASE f \notin M
    BY <1>1, <2>2, Zenon DEF OneOwner
  <2> QED
    BY <2>1, <2>2, Zenon
<1>7. \A f \in Frames : Held(f)' => ~is_free(f)'
  <2> SUFFICES ASSUME NEW f \in Frames, Held(f)' PROVE f \notin Free'
    BY Zenon DEF is_free
  <2>1. CASE f \in M
    BY <2>1, Zenon
  <2>2. CASE f \notin M
    BY <1>1, <1>4, <2>2, Zenon DEF OneOwner, is_free
  <2> QED
    BY <2>1, <2>2, Zenon
<1>8. OneOwner'
  BY <1>5, <1>6, <1>7, Zenon DEF OneOwner
<1>9. PoolConserved'
  <2> SUFFICES ASSUME NEW f \in Frames \ {0}
               PROVE  f \in Pool <=> (f \in Free' \/ Held(f)')
    BY Zenon DEF PoolConserved, is_free
  <2>1. f \in Pool <=> (f \in Free \/ Held(f))
    BY <1>1, Zenon DEF PoolConserved, is_free
  <2>2. CASE f \in M
    BY <2>1, <2>2, Zenon
  <2>3. CASE f \notin M
    BY <1>4, <2>1, <2>3, Zenon
  <2> QED
    BY <2>2, <2>3, Zenon
<1> QED
  BY <1>8, <1>9, RunningInv, Zenon

\* What a page takes.
LEMMA OnePage ==
    ASSUME NEW f \in Frames, f # 0
    PROVE  SpanFrames(Span(f, PAGE_SIZE)) = {f}
<1>1. f \in Nat /\ PAGE_SIZE \in Nat /\ PAGE_SIZE > 0 /\ 1 * PAGE_SIZE = PAGE_SIZE
  BY FramesNat, FramesAssumption
<1>2. f * PAGE_SIZE + PAGE_SIZE = (f + 1) * PAGE_SIZE
  BY <1>1, SumOfPages, Zenon
<1>3. \A g \in Frames : g * PAGE_SIZE < (f + 1) * PAGE_SIZE <=> g < f + 1
  BY <1>1, FramesNat, Product
<1>4. SpanFrames(Span(f, PAGE_SIZE)) = {g \in Frames : f <= g /\ g * PAGE_SIZE < (f + 1) * PAGE_SIZE}
  BY <1>2, Zenon DEF SpanFrames, Span
<1>5. \A g \in Frames : f <= g /\ g < f + 1 <=> g = f
  BY <1>1, FramesNat
<1> QED
  BY <1>3, <1>4, <1>5, Zenon

LEMMA PageIsWhole == PAGE_SIZE \in Nat /\ PAGE_SIZE % PAGE_SIZE = 0
BY FramesAssumption

-----------------------------------------------------------------------------
(***************************************************************************)
(* The steps of the running system.                                        *)
(***************************************************************************)
\* Whoever gives a frame back makes free what they owned, or frame 0.
LEMMA ReleaseBooks ==
    ASSUME Inv, NEW c \in Controllers, release(c)
    PROVE  Books' /\ \A f \in Frames \ {0} : f \in Free' <=> f \in Free \/ Owns(c, f)
<1>1. Books /\ controller[c].page_frame_ \in Frames
  BY InvBooks, Zenon DEF Inv, TypeOK
<1>2. CASE controller[c].allocator_
  <2>1. Books' /\ Free' = Free \cup {controller[c].page_frame_}
    BY <1>1, <1>2, DeallocateBooks, Zenon DEF release
  <2> QED
    BY <1>2, <2>1, Zenon DEF Owns
<1>3. CASE ~controller[c].allocator_
  <2>1. Books' /\ Free' = Free
    BY <1>1, <1>3, Zenon DEF release, allocVars, Books, CountIsFree, Free
  <2> QED
    BY <1>3, <2>1, Zenon DEF Owns
<1> QED
  BY <1>2, <1>3, Zenon

\* TypeOK of a step that leaves the bookkeeping right.
LEMMA StepTypeOK ==
    ASSUME Inv, Books', UNCHANGED bootVars,
           controller' \in [Controllers -> [allocator_ : BOOLEAN, page_frame_ : Frames]],
           spans' \subseteq [frame : Frames, length : Lengths]
    PROVE  TypeOK'
BY Zenon DEF Inv, TypeOK, Books, bootVars

LEMMA WrapInv ==
    ASSUME Inv, phase = "running", UNCHANGED bootVars, NEW c \in Controllers, WrapFrame(c)
    PROVE  Inv'
<1> PICK f \in Frames :
      controller' = [controller EXCEPT ![c] = [allocator_ |-> FALSE, page_frame_ |-> f]]
  BY Zenon DEF WrapFrame
<1>1. TypeOK /\ controller[c] = Empty /\ UNCHANGED <<allocVars, spans>>
  BY Zenon DEF WrapFrame, Inv
<1>2. Books' /\ Free' = Free
  BY <1>1, InvBooks, Zenon DEF allocVars, Books, CountIsFree, Free
<1>3. TypeOK'
  <2>1. controller' \in [Controllers -> [allocator_ : BOOLEAN, page_frame_ : Frames]]
    BY <1>1, Zenon DEF TypeOK
  <2> QED
    BY <1>1, <1>2, <2>1, StepTypeOK, Zenon DEF TypeOK
<1>4. Running
  BY <1>2, <1>3, Zenon DEF Running
<1>5. \A g : ~Owns(c, g) /\ ~Owns(c, g)'
  BY <1>1 DEF Owns, Empty, TypeOK
<1>6. \A d \in Controllers \ {c}, g \in Frames : Owns(d, g)' <=> Owns(d, g)
  BY <1>1, Zenon DEF Owns, TypeOK
<1> QED
  BY <1>1, <1>2, <1>4, <1>5, <1>6, TransferInv, Zenon

LEMMA MoveConstructInv ==
    ASSUME Inv, phase = "running", UNCHANGED bootVars,
           NEW c \in Controllers, NEW other \in Controllers, MoveConstruct(c, other)
    PROVE  Inv'
<1>1. /\ TypeOK /\ controller[c] = Empty /\ c # other /\ UNCHANGED <<allocVars, spans>>
      /\ controller' = [controller EXCEPT ![c] = controller[other], ![other] = Empty]
  BY Zenon DEF MoveConstruct, Inv
<1>2. Books' /\ Free' = Free
  BY <1>1, InvBooks, Zenon DEF allocVars, Books, CountIsFree, Free
<1>3. TypeOK'
  <2>1. controller' \in [Controllers -> [allocator_ : BOOLEAN, page_frame_ : Frames]]
    BY <1>1, FramesNat, Zenon DEF TypeOK, Empty
  <2> QED
    BY <1>1, <1>2, <2>1, StepTypeOK, Zenon DEF TypeOK
<1>4. Running
  BY <1>2, <1>3, Zenon DEF Running
<1>5. controller'[c] = controller[other] /\ controller'[other] = Empty
  BY <1>1, Zenon DEF TypeOK
<1>6. \A g : ~Owns(c, g) /\ ~Owns(other, g)' /\ (Owns(c, g)' <=> Owns(other, g))
  BY <1>1, <1>5 DEF Owns, Empty
<1>7. \A d \in Controllers \ {c, other}, g \in Frames : Owns(d, g)' <=> Owns(d, g)
  BY <1>1, Zenon DEF Owns, TypeOK
<1> QED
  BY <1>1, <1>2, <1>4, <1>6, <1>7, TransferInv, Zenon

LEMMA MoveAssignInv ==
    ASSUME Inv, phase = "running", UNCHANGED bootVars,
           NEW c \in Controllers, NEW other \in Controllers, MoveAssign(c, other)
    PROVE  Inv'
<1> DEFINE left == [allocator_ |-> controller[c].allocator_, page_frame_ |-> 0]
<1>1. /\ TypeOK /\ c # other /\ release(c) /\ UNCHANGED spans
      /\ controller' = [controller EXCEPT ![c] = controller[other], ![other] = left]
  BY Zenon DEF MoveAssign, Inv
<1>2. Books' /\ \A f \in Frames \ {0} : f \in Free' <=> f \in Free \/ Owns(c, f)
  BY <1>1, ReleaseBooks, Zenon
<1>3. TypeOK'
  <2>1. controller' \in [Controllers -> [allocator_ : BOOLEAN, page_frame_ : Frames]]
    BY <1>1, FramesNat, Zenon DEF TypeOK
  <2> QED
    BY <1>1, <1>2, <2>1, StepTypeOK, Zenon DEF TypeOK
<1>4. Running
  BY <1>2, <1>3, Zenon DEF Running
<1>5. controller'[c] = controller[other] /\ controller'[other].page_frame_ = 0
  BY <1>1, Zenon DEF TypeOK
<1>6. \A g : ~Owns(other, g)' /\ (Owns(c, g)' <=> Owns(other, g))
  BY <1>5, Zenon DEF Owns
<1>7. \A d \in Controllers \ {c, other}, g \in Frames : Owns(d, g)' <=> Owns(d, g)
  BY <1>1, Zenon DEF Owns, TypeOK
<1> QED
  BY <1>1, <1>2, <1>4, <1>6, <1>7, TransferInv, Zenon

LEMMA DestroyInv ==
    ASSUME Inv, phase = "running", UNCHANGED bootVars, NEW c \in Controllers, Destroy(c)
    PROVE  Inv'
<1>1. /\ TypeOK /\ release(c) /\ UNCHANGED spans
      /\ controller' = [controller EXCEPT ![c] = Empty]
  BY Zenon DEF Destroy, Inv
<1>2. Books' /\ \A f \in Frames \ {0} : f \in Free' <=> f \in Free \/ Owns(c, f)
  BY <1>1, ReleaseBooks, Zenon
<1>3. TypeOK'
  <2>1. controller' \in [Controllers -> [allocator_ : BOOLEAN, page_frame_ : Frames]]
    BY <1>1, FramesNat, Zenon DEF TypeOK, Empty
  <2> QED
    BY <1>1, <1>2, <2>1, StepTypeOK, Zenon DEF TypeOK
<1>4. Running
  BY <1>2, <1>3, Zenon DEF Running
<1>5. \A g : ~Owns(c, g)'
  BY <1>1, Zenon DEF Owns, Empty, TypeOK
<1>6. \A d \in Controllers \ {c}, g \in Frames : Owns(d, g)' <=> Owns(d, g)
  BY <1>1, Zenon DEF Owns, TypeOK
<1> QED
  BY <1>1, <1>2, <1>4, <1>5, <1>6, TransferInv, Zenon

LEMMA AllocateFrameInv ==
    ASSUME Inv, phase = "running", UNCHANGED bootVars, NEW c \in Controllers, AllocateFrame(c)
    PROVE  Inv'
<1> PICK f \in Frames :
      /\ allocate(PAGE_SIZE, f)
      /\ controller' = [controller EXCEPT ![c] = [allocator_ |-> TRUE, page_frame_ |-> f]]
  BY Zenon DEF AllocateFrame
<1>1. TypeOK /\ controller[c] = Empty /\ UNCHANGED spans /\ SpansAboveZero /\ OneOwner
  BY Zenon DEF AllocateFrame, Inv
<1>2. /\ Books'
      /\ \/ f = 0 /\ Free' = Free
         \/ f # 0 /\ f \in Free /\ Free' = Free \ {f}
  <2>1. Books /\ PAGE_SIZE \in Nat /\ PAGE_SIZE % PAGE_SIZE = 0
    BY InvBooks, PageIsWhole, Zenon
  <2> QED
    BY <2>1, AllocateBooks, OnePage, Zenon
<1>3. TypeOK'
  <2>1. controller' \in [Controllers -> [allocator_ : BOOLEAN, page_frame_ : Frames]]
    BY <1>1, Zenon DEF TypeOK
  <2> QED
    BY <1>1, <1>2, <2>1, StepTypeOK, Zenon DEF TypeOK
<1>4. Running
  BY <1>2, <1>3, Zenon DEF Running
<1>5. \A g : ~Owns(c, g) /\ (Owns(c, g)' <=> g # 0 /\ g = f)
  BY <1>1 DEF Owns, Empty, TypeOK
<1>6. \A d \in Controllers \ {c} : \A g : Owns(d, g)' <=> Owns(d, g)
  BY <1>1, Zenon DEF Owns, TypeOK
<1>7. CASE f = 0
  BY <1>1, <1>2, <1>4, <1>5, <1>6, <1>7, TransferInv, Zenon
<1>8. CASE f # 0
  <2>1. {f} \in SUBSET Free /\ 0 \notin {f} /\ Free' = Free \ {f}
    BY <1>2, <1>8, Zenon
  <2>2. ~Held(f)
    BY <1>1, <2>1, Zenon DEF OneOwner, is_free
  <2>3. Held(f)' /\ SpansAboveZero'
    BY <1>1, <1>5, <1>8, Zenon DEF Held, SpansAboveZero
  <2>4. /\ \A d \in Controllers, g \in Frames : Owns(d, g) => Owns(d, g)'
        /\ \A d, e \in Controllers, g \in {f} : Owns(d, g)' /\ Owns(e, g)' => d = e
        /\ \A d \in Controllers, g \in Frames \ {f} : Owns(d, g)' => Owns(d, g)
    BY <1>5, <1>6, <2>2, Zenon DEF Held
  <2>5. \A d \in Controllers, s \in spans', g \in {f} : ~(Owns(d, g)' /\ g \in SpanFrames(s))
    BY <1>1, <2>2, Zenon DEF Held
  <2>6. \A s, t \in spans' : s # t => SpanFrames(s) \cap SpanFrames(t) = {}
    BY <1>1, Zenon DEF OneOwner
  <2>7. /\ \A g \in Frames \ {f} : (\E s \in spans' : g \in SpanFrames(s))
                                   <=> (\E s \in spans : g \in SpanFrames(s))
        /\ \A g \in {f} : Held(g)'
    BY <1>1, <2>3, Zenon
  <2> QED
    BY <1>4, <2>1, <2>3, <2>4, <2>5, <2>6, <2>7, GainInv, Zenon
<1> QED
  BY <1>7, <1>8, Zenon

LEMMA AllocateSpanInv ==
    ASSUME WholePages, Inv, phase = "running", UNCHANGED bootVars, AllocateSpan
    PROVE  Inv'
<1> PICK n \in Lengths, f \in Frames :
      /\ allocate(n, f)
      /\ spans' = IF f = 0 THEN spans ELSE spans \cup {Span(f, n)}
  BY Zenon DEF AllocateSpan, Span
<1> DEFINE M == SpanFrames(Span(f, n))
<1>1. TypeOK /\ UNCHANGED controller /\ SpansAboveZero /\ OneOwner
  BY Zenon DEF AllocateSpan, Inv
<1>2. /\ Books'
      /\ \/ f = 0 /\ Free' = Free
         \/ f # 0 /\ M \subseteq Free /\ Free' = Free \ M
  <2>1. Books /\ n \in Nat /\ n % PAGE_SIZE = 0
    BY InvBooks, FramesAssumption, Zenon DEF WholePages
  <2> QED
    BY <2>1, AllocateBooks, Zenon
<1>3. TypeOK'
  <2>1. spans' \subseteq [frame : Frames, length : Lengths]
    BY <1>1 DEF TypeOK, Span
  <2> QED
    BY <1>1, <1>2, <2>1, StepTypeOK, Zenon DEF TypeOK
<1>4. Running
  BY <1>2, <1>3, Zenon DEF Running
<1>5. \A d, g : Owns(d, g)' <=> Owns(d, g)
  BY <1>1, Zenon DEF Owns
<1>6. CASE f = 0
  <2>1. spans' = spans /\ Free' = Free /\ {} \in SUBSET Free /\ Free' = Free \ {}
    BY <1>2, <1>6, Zenon
  <2>2. \A s, t \in spans' : s # t => SpanFrames(s) \cap SpanFrames(t) = {}
    BY <1>1, <2>1, Zenon DEF OneOwner
  <2>3. SpansAboveZero'
    BY <1>1, <2>1, Zenon DEF SpansAboveZero
  <2>4. \A d, e \in Controllers, g \in {} : Owns(d, g)' /\ Owns(e, g)' => d = e
    BY Zenon
  <2> QED
    BY <1>4, <1>5, <2>1, <2>2, <2>3, <2>4, GainInv, Zenon
<1>7. CASE f # 0
  <2>1. M \in SUBSET Free /\ Free' = Free \ M /\ spans' = spans \cup {Span(f, n)}
    BY <1>2, <1>7, Zenon
  <2>2. M \subseteq Frames /\ \A g \in M : ~Held(g)
    BY <1>1, <2>1, Zenon DEF OneOwner, is_free, SpanFrames
  <2>3. 0 \notin M
    <3>1. Span(f, n).frame = f /\ f \in Nat
      BY FramesNat, Zenon DEF Span
    <3>2. \A g \in M : f <= g
      BY <3>1, Zenon DEF SpanFrames
    <3> QED
      BY <1>7, <3>1, <3>2
  <2>4. SpansAboveZero'
    BY <1>1, <1>7, <2>1 DEF SpansAboveZero, Span
  <2>5. /\ \A g \in M : Held(g)'
        /\ \A d \in Controllers, g \in M : ~Owns(d, g)'
    BY <1>5, <2>1, <2>2, Zenon DEF Held
  <2>6. \A g \in Frames \ M : (\E s \in spans' : g \in SpanFrames(s))
                              <=> (\E s \in spans : g \in SpanFrames(s))
    BY <2>1, Zenon
  <2>7. \A s, t \in spans' : s # t => SpanFrames(s) \cap SpanFrames(t) = {}
    <3>1. \A s \in spans : SpanFrames(s) \cap M = {}
      BY <2>2, Zenon DEF Held
    <3>2. \A s, t \in spans : s # t => SpanFrames(s) \cap SpanFrames(t) = {}
      BY <1>1, Zenon DEF OneOwner
    <3> HIDE DEF M
    <3>3. M = SpanFrames(Span(f, n))
      BY Zenon DEF M
    <3>4. \A s \in spans' : s \in spans \/ s = Span(f, n)
      BY <2>1, Zenon
    <3> QED
      BY <3>1, <3>2, <3>3, <3>4, Zenon
  <2> HIDE DEF M
  <2>8. /\ \A d \in Controllers, g \in Frames : Owns(d, g) => Owns(d, g)'
        /\ \A d, e \in Controllers, g \in M : Owns(d, g)' /\ Owns(e, g)' => d = e
        /\ \A d \in Controllers, g \in Frames \ M : Owns(d, g)' => Owns(d, g)
        /\ \A d \in Controllers, s \in spans', g \in M : ~(Owns(d, g)' /\ g \in SpanFrames(s))
    BY <1>5, <2>5, Zenon
  <2> QED
    BY <1>4, <2>1, <2>3, <2>4, <2>5, <2>6, <2>7, <2>8, GainInv, Zenon
<1> QED
  BY <1>6, <1>7, Zenon

LEMMA InvNext ==
    ASSUME WholePages, Inv, [Next]_vars
    PROVE  Inv'
<1>1. CASE Run
  <2>1. phase = "running" /\ UNCHANGED bootVars
    BY <1>1, Zenon DEF Run
  <2> QED
    BY <1>1, <2>1, AllocateSpanInv, WrapInv, AllocateFrameInv, DestroyInv, MoveConstructInv,
       MoveAssignInv, Zenon DEF Run
<1>2. CASE UNCHANGED vars
  BY <1>2, Zenon DEF vars, allocVars, bootVars, Inv, TypeOK, CountIsFree, Free, OneOwner, Owns, Held,
     is_free, PoolConserved, BootInv, NothingHeld, SpansAboveZero
<1> QED
  BY <1>1, <1>2, ConfigureInv, Zenon DEF Next

-----------------------------------------------------------------------------
\* The type invariant, and get_number_of_free_page_frames(): count_ and the
\* bitmap agree in every state, for any number of frames.
THEOREM CountIsRight == ASSUME WholePages PROVE Spec => [](TypeOK /\ CountIsFree)
<1>1. Inv => TypeOK /\ CountIsFree
  BY Zenon DEF Inv
<1> QED
  BY <1>1, InvInit, InvNext, PTL DEF Spec

\* However controllers are moved, no frame has two owners or is free while it
\* is owned, and none is lost: the frames the memory map offered, less the
\* kernel's and the modules', are at all times free or held.
THEOREM FramesAreOwnedOnce ==
    ASSUME WholePages PROVE Spec => []FramesConserved
<1>1. Inv => FramesConserved
  BY Zenon DEF Inv, FramesConserved
<1> QED
  BY <1>1, InvInit, InvNext, PTL DEF Spec

=============================================================================
