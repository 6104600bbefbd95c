----------------------------- MODULE PageFrames -----------------------------
(***************************************************************************)
(* The page frame allocator, its configuration at boot from the multiboot  *)
(* memory map and modules, and the PageFrameControllers that own frames.   *)
(* A frame is its number.  Everything here runs at boot or under an        *)
(* InterruptLock (PreemptiveKernel), so an operation is one action.        *)
(***************************************************************************)
EXTENDS Integers, FiniteSets

CONSTANTS NUMBER_OF_PAGE_FRAMES,
          PAGE_SIZE,
          MemoryMap,       \* the frames of the multiboot memory map
          break_address_,  \* physical address of the end of the kernel image
          Modules,         \* multiboot modules: bytes mod_start .. mod_end - 1
          Lengths,         \* lengths asked of allocate()
          Controllers      \* places a PageFrameController may be constructed

Frames == 0 .. NUMBER_OF_PAGE_FRAMES - 1

\* The modules are page aligned (Boot/include/multiboot_asm.h asks for it).
ASSUME FramesAssumption ==
    /\ NUMBER_OF_PAGE_FRAMES \in Nat \ {0} /\ PAGE_SIZE \in Nat \ {0}
    /\ MemoryMap \subseteq Nat
    /\ break_address_ \in Nat \ {0}
    /\ \A m \in Modules :
         /\ m.mod_start \in Nat /\ m.mod_end \in Nat
         /\ m.mod_start % PAGE_SIZE = 0
         /\ m.mod_end <= NUMBER_OF_PAGE_FRAMES * PAGE_SIZE
    /\ Lengths \subseteq Nat

VARIABLES bitmap_,      \* the frames in use
          count_,       \* the number of free frames
          phase,        \* what configure() is doing, then "running"
          todo,         \* what the phase has yet to enumerate
          controller,   \* controller[c].allocator_: it has an allocator
          spans         \* what allocate() has given its other callers

allocVars == <<bitmap_, count_>>
bootVars == <<phase, todo>>
vars == <<allocVars, bootVars, controller, spans>>

Free == Frames \ bitmap_

-----------------------------------------------------------------------------
(***************************************************************************)
(* GenericConcretePageFrameAllocator.                                      *)
(***************************************************************************)
is_free(f) == f \in Free

\* The loop visits frame f + k as long as k pages are less than the length.
is_span_free(f, n) ==
    /\ is_free(f)
    /\ \A k \in 1 .. n : k * PAGE_SIZE < n => is_free(f + k)

\* allocate() takes the first of these.
Candidates(n) == {f \in Frames \ {0} : is_span_free(f, n)}

\* The frames it marks: one per whole page of the length.
Marked(f, n) == f .. f + (n \div PAGE_SIZE) - 1

\* allocate(n) returns frame f, 0 if there is no span.
allocate(n, f) ==
    \/ /\ f \in Candidates(n)
       /\ \A g \in Candidates(n) : f <= g
       /\ bitmap_' = bitmap_ \cup Marked(f, n)
       /\ count_' = count_ - Cardinality(Marked(f, n))
    \/ /\ Candidates(n) = {}
       /\ f = 0
       /\ UNCHANGED allocVars

allocate_specific_page_frame(f) ==
    /\ bitmap_' = bitmap_ \cup {f}
    /\ count_' = IF f \in bitmap_ THEN count_ ELSE count_ - 1

\* A faulty one, which counts a frame that is free already.
deallocate_MutantTwice(f) ==
    /\ bitmap_' = bitmap_ \ {f}
    /\ count_' = count_ + 1

deallocate(f) ==
    /\ bitmap_' = bitmap_ \ {f}
    /\ count_' = IF f \in bitmap_ THEN count_ + 1 ELSE count_

-----------------------------------------------------------------------------
(***************************************************************************)
(* PageFrameAllocatorConfigurationOperation::configure().                  *)
(***************************************************************************)
is_page_frame_in_available_region(f) ==
    f * PAGE_SIZE >= break_address_ /\ f < NUMBER_OF_PAGE_FRAMES

\* The frames the loop over a module visits.
ModuleFrames ==
    {f \in Frames :
        \E m \in Modules : m.mod_start <= f * PAGE_SIZE /\ f * PAGE_SIZE < m.mod_end}

\* A default PageFrameController, and storage that holds none.
Empty == [allocator_ |-> FALSE, page_frame_ |-> 0]

\* The constructor and mark_all_as_used().
Init ==
    /\ bitmap_ = Frames
    /\ count_ = 0
    /\ phase = "memory"
    /\ todo = MemoryMap
    /\ controller = [c \in Controllers |-> Empty]
    /\ spans = {}

\* mark_unavailable_memory(): one frame of the memory map.
EnumerateFrame ==
    /\ phase = "memory"
    /\ \E f \in todo :
         /\ todo' = todo \ {f}
         /\ IF is_page_frame_in_available_region(f) THEN deallocate(f)
                                                    ELSE UNCHANGED allocVars
    /\ UNCHANGED <<phase, controller, spans>>

BeginModules ==
    /\ phase = "memory" /\ todo = {}
    /\ phase' = "modules"
    /\ todo' = ModuleFrames
    /\ UNCHANGED <<allocVars, controller, spans>>

\* mark_modules_memory(): one frame of a module.
EnumerateModule ==
    /\ phase = "modules"
    /\ \E f \in todo :
         /\ todo' = todo \ {f}
         /\ allocate_specific_page_frame(f)
    /\ UNCHANGED <<phase, controller, spans>>

Configured ==
    /\ phase = "modules" /\ todo = {}
    /\ phase' = "running"
    /\ UNCHANGED <<allocVars, todo, controller, spans>>

-----------------------------------------------------------------------------
(***************************************************************************)
(* PageFrameController, and the other callers of allocate().               *)
(***************************************************************************)
\* allocator_->deallocate(page_frame_), if there is an allocator.
release(c) ==
    IF controller[c].allocator_ THEN deallocate(controller[c].page_frame_)
                                ELSE UNCHANGED allocVars

\* PageFrameController(page_frame): a frame of somebody else's.
WrapFrame(c) ==
    /\ controller[c] = Empty
    /\ \E f \in Frames :
         controller' = [controller EXCEPT ![c] = [allocator_ |-> FALSE, page_frame_ |-> f]]
    /\ UNCHANGED <<allocVars, spans>>

\* PageFrameController(allocator): page_frame_ is 0 if the allocation fails.
AllocateFrame(c) ==
    /\ controller[c] = Empty
    /\ \E f \in Frames :
         /\ allocate(PAGE_SIZE, f)
         /\ controller' = [controller EXCEPT ![c] = [allocator_ |-> TRUE, page_frame_ |-> f]]
    /\ UNCHANGED spans

MoveConstruct(c, other) ==
    /\ controller[c] = Empty /\ c # other
    /\ controller' = [controller EXCEPT ![c] = controller[other], ![other] = Empty]
    /\ UNCHANGED <<allocVars, spans>>

\* A faulty assignment, which swaps without a release().
MoveAssign_MutantNoRelease(c, other) ==
    /\ c # other
    /\ controller' = [controller EXCEPT
         ![c] = controller[other],
         ![other] = [allocator_ |-> controller[c].allocator_, page_frame_ |-> 0]]
    /\ UNCHANGED <<allocVars, spans>>

\* operator=: release() zeroes page_frame_ but leaves allocator_, which the
\* swap hands to the other controller.
MoveAssign(c, other) ==
    /\ c # other
    /\ release(c)
    /\ controller' = [controller EXCEPT
         ![c] = controller[other],
         ![other] = [allocator_ |-> controller[c].allocator_, page_frame_ |-> 0]]
    /\ UNCHANGED spans

Destroy(c) ==
    /\ release(c)
    /\ controller' = [controller EXCEPT ![c] = Empty]
    /\ UNCHANGED spans

\* Kernel::initialize_kernel_malloc() takes a span for good.
AllocateSpan ==
    /\ \E n \in Lengths, f \in Frames :
         /\ allocate(n, f)
         /\ spans' = IF f = 0 THEN spans ELSE spans \cup {[frame |-> f, length |-> n]}
    /\ UNCHANGED controller

-----------------------------------------------------------------------------
Configure == EnumerateFrame \/ BeginModules \/ EnumerateModule \/ Configured

Run ==
    /\ phase = "running"
    /\ \/ AllocateSpan
       \/ \E c \in Controllers :
            \/ WrapFrame(c) \/ AllocateFrame(c) \/ Destroy(c)
            \/ \E other \in Controllers : MoveConstruct(c, other) \/ MoveAssign(c, other)
    /\ UNCHANGED bootVars

Next == Configure \/ Run

Spec == Init /\ [][Next]_vars

-----------------------------------------------------------------------------
TypeOK ==
    /\ bitmap_ \subseteq Frames
    /\ count_ \in Nat
    /\ phase \in {"memory", "modules", "running"}
    /\ todo \subseteq MemoryMap \cup Frames
    /\ controller \in [Controllers -> [allocator_ : BOOLEAN, page_frame_ : Frames]]
    /\ spans \subseteq [frame : Frames, length : Lengths]

\* The frames that the bytes of a span lie in.
SpanFrames(s) == {f \in Frames : s.frame <= f /\ f * PAGE_SIZE < s.frame * PAGE_SIZE + s.length}

\* Controller c owns frame f: it will give it back.
Owns(c, f) == f # 0 /\ controller[c].allocator_ /\ controller[c].page_frame_ = f

Held(f) == (\E c \in Controllers : Owns(c, f)) \/ (\E s \in spans : f \in SpanFrames(s))

\* The whole frames of usable memory that the kernel image, and everything
\* below it, and the modules leave.
Pool ==
    {f \in MemoryMap \cap Frames :
        /\ f * PAGE_SIZE >= break_address_
        /\ \A m \in Modules : (f + 1) * PAGE_SIZE <= m.mod_start \/ f * PAGE_SIZE >= m.mod_end}

\* get_number_of_free_page_frames() is right: count_ and bitmap_ never drift
\* apart, whatever is allocated, released twice or configured.
CountIsFree == count_ = Cardinality(Free)

\* "Owns a page frame." (PageFrameController)  No frame has two owners, and
\* none is free while it is owned, however controllers are moved about.
OneOwner ==
    /\ \A c, d \in Controllers, f \in Frames : Owns(c, f) /\ Owns(d, f) => c = d
    /\ \A c \in Controllers, s \in spans, f \in Frames : ~(Owns(c, f) /\ f \in SpanFrames(s))
    /\ \A s, t \in spans : s # t => SpanFrames(s) \cap SpanFrames(t) = {}
    /\ \A f \in Frames : Held(f) => ~is_free(f)

\* Once configured, the allocator deals in the frames of the pool and no
\* others, frame 0 apart, and none of them is lost: each is free or held.
PoolConserved ==
    phase = "running" => \A f \in Frames \ {0} : f \in Pool <=> (is_free(f) \/ Held(f))

\* No frame has two owners or is free while it is owned, and none of the pool is
\* lost, however controllers are constructed, moved and destroyed and spans are
\* taken (page_frame_controller.hpp, concrete_page_frame_allocator.hpp).
FramesConserved == OneOwner /\ PoolConserved

=============================================================================
