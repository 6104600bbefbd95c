----------------------------- MODULE Exceptions -----------------------------
(***************************************************************************)
(* Throwing and catching: Common/src/libcxxrt/exception.cc with the table  *)
(* lookup of dwarf_eh.h.  One thread runs functions that call each other,  *)
(* throw, catch, throw again from a handler, and run destructors while an  *)
(* exception passes through them.                                          *)
(*                                                                         *)
(* The compiler's part (landing pads, exception tables) and the unwinder's *)
(* (visiting the frames, twice) are external; what the runtime does at each*)
(* of their calls is translated.  What two threads do to the runtime's     *)
(* "per-thread" data is the subject of ThreadInfo.                         *)
(***************************************************************************)
EXTENDS TypeInfo

CONSTANTS EX,            \* exception objects
          NoEx,          \* a null __cxa_exception *
          THROWN,        \* types that are thrown
          FUNCTIONS,     \* what the compiler emits for each kind of function
          BODY_END, HANDLER_END,  \* addresses in a function, see ReturnAddress
          BUFFERS,       \* emergency buffers (16 in the code)
          HELD_LIMIT,    \* emergencyBuffersHeld beyond which there are none (3)
          MAX_DEPTH,     \* bound: frames on the stack
          MAX_HELD       \* bound: exceptions taken from the emergency buffers

VARIABLES stack,      \* the frames, innermost last
          unwinding,  \* the exception the unwinder carries, or NoEx
          exc,        \* EX -> its __cxa_exception
          caught,     \* globals.caughtExceptions
          uncaught,   \* globals.uncaughtExceptions
          heldCount,  \* emergencyBuffersHeld
          allocated,  \* buffer_allocated: the buffers in use
          halted,     \* "no", or why the program has stopped
          saved       \* what the program's std::exception_ptr points to, or NoEx

vars == <<stack, unwinding, exc, caught, uncaught, heldCount, allocated, halted, saved>>

ASSUME ExceptionAssumptions ==
    /\ NoEx \notin EX /\ BUFFERS \subseteq Nat \ {0}
    /\ MAX_DEPTH \in Nat \ {0} /\ HELD_LIMIT \in Nat /\ MAX_HELD \in Nat

\* The place of an exception that is not in an emergency buffer.
Heap == 0

Unallocated == [live |-> FALSE]

\* What alloc_or_die (which clears the memory) and __cxa_throw leave.
Thrown(type, place) ==
    [live |-> TRUE, type |-> type, place |-> place, handlerCount |-> 0,
     referenceCount |-> 1, nextException |-> NoEx, catchTemp |-> FALSE,
     target |-> 0, primaryException |-> NoEx]

\* The __cxa_dependent_exception that stands for another throw of primary e.
Dependent(e, place) == [Thrown([kind |-> "none"], place) EXCEPT !.primaryException = e]

realExceptionFromException(table, e) ==
    IF table[e].primaryException = NoEx THEN e ELSE table[e].primaryException

TypeOf(table, e) == table[realExceptionFromException(table, e)].type

Top == stack[Len(stack)]
Below == SubSeq(stack, 1, Len(stack) - 1)
SetTop(frame) == Append(Below, frame)

\* A frame of function f.  Code runs in its body, in a handler or in a cleanup;
\* ip is the return address of the call it has made.
Frame(f) == [fn |-> f, at |-> "body", ip |-> 0, ex |-> NoEx]

Init ==
    /\ \E f \in DOMAIN FUNCTIONS : stack = <<Frame(f)>>
    /\ unwinding = NoEx
    /\ exc = [e \in EX |-> Unallocated]
    /\ caught = NoEx
    /\ uncaught = 0
    /\ heldCount = 0
    /\ allocated = {}
    /\ halted = "no"
    /\ saved = NoEx

Running == halted = "no" /\ unwinding = NoEx

\* std::terminate and std::unexpected, whose handlers do not return.
terminate == halted' = "terminate"
unexpected == halted' = "unexpected"

-----------------------------------------------------------------------------
\* Finding a frame's handler.

\* The call site that the frame's call belongs to: none or one.  The return
\* address is the one after the call, so the end of the range is part of it and
\* its start is not.
dwarf_eh_find_callsite(frame) ==
    SelectSeq(FUNCTIONS[frame.fn].sites,
              LAMBDA s : s.start < frame.ip /\ frame.ip <= s.start + s.size)

\* Does a handler for type (0 means "...") take exceptions of ex_type?
check_type_signature(ex_type, type) ==
    \/ type.kind = "any"
    \/ type = ex_type
    \/ __do_catch(type, ex_type, TRUE)

\* What the action records ask for: the first catch clause that matches or
\* exception specification that does not; else a cleanup, if there is one.  No
\* records at all stand for a cleanup.
check_action_record(actions, ex_type) ==
    LET Stops(a) ==
            \/ a.filter = "catch" /\ check_type_signature(ex_type, a.types[1])
            \/ /\ a.filter = "spec"
               /\ \A i \in DOMAIN a.types : ~check_type_signature(ex_type, a.types[i])
        stopping == SelectSeq(actions, Stops)
    IN  CASE stopping # << >> -> Head(stopping).filter
          [] actions = << >> \/ \E i \in DOMAIN actions : actions[i].filter = "cleanup"
                -> "cleanup"
          [] OTHER -> "none"

\* __gxx_personality_v0 in the search phase: "continue", a handler, or
\* "terminate" (a handler without a landing pad) when an exception leaves code
\* that no call site covers, such as a destructor run by a cleanup.
SearchPhase(frame, ex_type) ==
    LET site == dwarf_eh_find_callsite(frame)
        found == check_action_record(site[1].actions, ex_type)
    IN  CASE ~FUNCTIONS[frame.fn].lsda -> "continue"
          [] FUNCTIONS[frame.fn].lsda /\ site = << >> -> "terminate"
          [] OTHER -> IF found \in {"catch", "spec"} THEN found ELSE "continue"

\* The same in the cleanup phase, for a frame that is not to handle the
\* exception: is there a landing pad to visit on the way?
CleanupPhase(frame, ex_type) ==
    LET site == dwarf_eh_find_callsite(frame)
    IN  /\ FUNCTIONS[frame.fn].lsda
        /\ site # << >>
        /\ site[1].pad
        /\ check_action_record(site[1].actions, ex_type) = "cleanup"

\* The first phase of the unwinder: the innermost frame at which the search
\* stops, or 0 at the end of the stack.
HandlerFrame(frames, ex_type) ==
    LET stops == {i \in DOMAIN frames : SearchPhase(frames[i], ex_type) # "continue"}
    IN  IF stops = {} THEN 0 ELSE Max(stops)

-----------------------------------------------------------------------------
\* Allocation.

\* emergency_malloc hands out the first free buffer, unless the thread has had
\* its share.
emergency_malloc(place) ==
    /\ heldCount <= HELD_LIMIT
    /\ BUFFERS \ allocated # {}
    /\ place = Min(BUFFERS \ allocated)

\* Bounds: a behaviour has emergency buffers or exception pointers, not both at
\* a time.
NoBuffers == heldCount = 0
NoPointer == saved = NoEx

\* alloc_or_die: the heap, or an emergency buffer when the heap is exhausted.
\* Until the end of the program, heldCount only goes up.
alloc_or_die(place) ==
    \/ /\ place = Heap
       /\ UNCHANGED <<allocated, heldCount>>
    \/ /\ heldCount < MAX_HELD /\ NoPointer
       /\ emergency_malloc(place)
       /\ allocated' = allocated \cup {place}
       /\ heldCount' = heldCount + 1

\* Room for the object and its header, cleared.
__cxa_allocate_exception(place) == alloc_or_die(place)

\* No memory for the exception: std::terminate().
OutOfMemory ==
    /\ Running
    /\ heldCount > HELD_LIMIT
    /\ terminate
    /\ UNCHANGED <<stack, unwinding, exc, caught, uncaught, heldCount, allocated>>

\* free_exception, which gives buffers back but does not count them.
free_exception(places) ==
    /\ allocated' = allocated \ places
    /\ UNCHANGED heldCount

\* A faulty release of a dependent exception, which keeps its reference.
Released_Mutant(table, e) ==
    {d \in {e} : table[e].primaryException # NoEx \/ table[e].referenceCount = 1}

\* What goes with a reference to e: a dependent exception itself, and the
\* primary one if that was the last reference to it.
Released(table, e) ==
    {d \in {e, realExceptionFromException(table, e)} :
        table[d].primaryException # NoEx \/ table[d].referenceCount = 1}

\* releaseException, __cxa_free_exception, __cxa_free_dependent_exception.
\* table is exc with the caller's changes in it.
releaseException(table, e) ==
    LET gone == Released(table, e)
    IN  /\ exc' = [d \in EX |->
                     IF d \in gone THEN Unallocated
                     ELSE IF d = realExceptionFromException(table, e)
                     THEN [table[d] EXCEPT !.referenceCount = @ - 1]
                     ELSE table[d]]
        /\ free_exception({table[d].place : d \in gone})

-----------------------------------------------------------------------------
\* The program.

\* The return address of a call made from the code that is running: the last
\* address of the body's call site, the last of the handler's, or one that no
\* call site covers.
ReturnAddress(frame) ==
    CASE frame.at = "body" -> BODY_END
      [] frame.at = "catch" -> HANDLER_END
      [] frame.at = "cleanup" -> HANDLER_END + 1

Calling == SetTop([Top EXCEPT !.ip = ReturnAddress(Top)])

Call(f) ==
    /\ Running
    /\ Len(stack) < MAX_DEPTH
    /\ stack' = Append(Calling, Frame(f))
    /\ UNCHANGED <<unwinding, exc, caught, uncaught, heldCount, allocated, halted>>

Return ==
    /\ Running
    /\ Len(stack) > 1
    /\ Top.at = "body"
    /\ stack' = Below
    /\ UNCHANGED <<unwinding, exc, caught, uncaught, heldCount, allocated, halted>>

\* A faulty __cxa_begin_catch, which enters a rethrown exception in the list of
\* caught ones a second time.
__cxa_begin_catch_Mutant(table, e, count) ==
    /\ uncaught' = count - 1
    /\ caught' = e
    /\ exc' = [table EXCEPT ![e].nextException = IF e = caught THEN @ ELSE caught,
                            ![e].handlerCount = IF @ < 0 THEN 1 ELSE @ + 1]

\* __cxa_begin_catch, from a state with the caller's changes: table for exc and
\* count for uncaught.
__cxa_begin_catch(table, e, count) ==
    /\ uncaught' = count - 1
    /\ IF table[e].handlerCount = 0
       THEN /\ caught' = e
            /\ exc' = [table EXCEPT ![e].nextException = caught, ![e].handlerCount = 1]
       ELSE /\ UNCHANGED caught
            /\ exc' = [table EXCEPT ![e].handlerCount = IF @ < 0 THEN 1 - @ ELSE @ + 1]

\* The personality routine keeps the landing pad of the search in the exception
\* for the second phase; the frame it is in is what the unwinder remembers.
saveLandingPad(table, e, i, pad) == [table EXCEPT ![e].target = i, ![e].catchTemp = pad]
loadLandingPad(e) == exc[e].catchTemp

\* _Unwind_RaiseException: the search, whose result the personality routine
\* saves in the exception (saveLandingPad); at the end of the stack
\* report_failure catches the exception and terminates the program.
Raise(table, e, frames, count) ==
    LET i == HandlerFrame(frames, TypeOf(table, e))
        pad == i # 0 /\ SearchPhase(frames[i], TypeOf(table, e)) # "terminate"
    IN  /\ stack' = frames
        /\ IF i = 0
           THEN /\ __cxa_begin_catch(table, e, count)
                /\ terminate
                /\ UNCHANGED unwinding
           ELSE /\ exc' = saveLandingPad(table, e, i, pad)
                /\ uncaught' = count
                /\ unwinding' = e
                /\ UNCHANGED <<caught, halted>>

\* __cxa_allocate_exception, __cxa_throw and throw_exception.
Throw(e, type, place) ==
    /\ Running
    /\ ~exc[e].live
    /\ __cxa_allocate_exception(place)
    /\ Raise([exc EXCEPT ![e] = Thrown(type, place)], e, Calling, uncaught + 1)

\* throw; in a handler or in a function called from one.  A negative handler
\* count says that the exception is on its way again and must outlive its
\* handlers.
__cxa_rethrow ==
    /\ Running
    /\ caught # NoEx
    /\ exc[caught].handlerCount > 0
    /\ Raise([exc EXCEPT ![caught].handlerCount = -@], caught, Calling, uncaught + 1)
    /\ UNCHANGED <<heldCount, allocated>>

\* There is nothing to throw again (std::terminate), or what there is has been
\* thrown again already (an assertion).
RethrowFails ==
    /\ Running
    /\ \/ caught = NoEx /\ terminate
       \/ caught # NoEx /\ exc[caught].handlerCount <= 0 /\ halted' = "assert"
    /\ UNCHANGED <<stack, unwinding, exc, caught, uncaught, heldCount, allocated>>

-----------------------------------------------------------------------------
\* Exception pointers, which keep an exception to throw it again later.

\* std::current_exception: __cxa_current_primary_exception.
__cxa_current_primary_exception ==
    /\ Running
    /\ saved = NoEx /\ caught # NoEx /\ NoBuffers
    /\ saved' = realExceptionFromException(exc, caught)
    /\ exc' = [exc EXCEPT ![saved'].referenceCount = @ + 1]
    /\ UNCHANGED <<stack, unwinding, caught, uncaught, heldCount, allocated, halted>>

\* The exception_ptr is cleared: __cxa_decrement_exception_refcount.
__cxa_decrement_exception_refcount ==
    /\ Running
    /\ saved # NoEx
    /\ saved' = NoEx
    /\ releaseException(exc, saved)
    /\ UNCHANGED <<stack, unwinding, caught, uncaught, halted>>

\* std::rethrow_exception throws a dependent exception, with a reference of its
\* own (__cxa_increment_exception_refcount) to what the pointer points to.  By
\* the bound it is allocated on the heap.
__cxa_rethrow_primary_exception(e) ==
    /\ Running
    /\ saved # NoEx /\ ~exc[e].live
    /\ Raise([exc EXCEPT ![e] = Dependent(saved, Heap), ![saved].referenceCount = @ + 1],
             e, Calling, uncaught + 1)
    /\ UNCHANGED <<allocated, heldCount, saved>>

-----------------------------------------------------------------------------
\* Catching.

\* __cxa_end_catch: the exception at the head of the list is no longer handled
\* here.  One that has been rethrown leaves the list but is not released.
__cxa_end_catch ==
    LET e == caught
        rethrown == exc[e].handlerCount < 0
        count == IF rethrown THEN exc[e].handlerCount + 1 ELSE exc[e].handlerCount - 1
        table == [exc EXCEPT ![e].handlerCount = count]
    IN  /\ caught' = IF count = 0 THEN exc[e].nextException ELSE e
        /\ IF count = 0 /\ ~rethrown
           THEN releaseException(table, e)
           ELSE exc' = table /\ UNCHANGED <<allocated, heldCount>>

\* The end of a handler: the function goes on after its try block.
EndHandler ==
    /\ Running
    /\ Top.at = "catch"
    /\ caught # NoEx
    /\ __cxa_end_catch
    /\ stack' = SetTop(Frame(Top.fn))
    /\ UNCHANGED <<unwinding, uncaught, halted>>

-----------------------------------------------------------------------------
\* The second phase of the unwinder, one frame at a time.
Unwinding == halted = "no" /\ unwinding # NoEx

AtHandlerFrame == Len(stack) = exc[unwinding].target

SiteAsks == check_action_record(dwarf_eh_find_callsite(Top)[1].actions,
                                TypeOf(exc, unwinding))

\* The personality routine takes the landing pad back from the exception
\* (loadLandingPad); the handler there begins with __cxa_begin_catch.
InstallHandler ==
    /\ Unwinding /\ AtHandlerFrame
    /\ loadLandingPad(unwinding)
    /\ SiteAsks = "catch"
    /\ __cxa_begin_catch([exc EXCEPT ![unwinding].catchTemp = FALSE], unwinding, uncaught)
    /\ stack' = SetTop([Top EXCEPT !.at = "catch", !.ip = 0, !.ex = unwinding])
    /\ unwinding' = NoEx
    /\ UNCHANGED <<heldCount, allocated, halted>>

\* An exception specification is violated: __cxa_call_unexpected calls the
\* handler, which is std::terminate.
CallUnexpected ==
    /\ Unwinding /\ AtHandlerFrame
    /\ loadLandingPad(unwinding)
    /\ SiteAsks = "spec"
    /\ __cxa_begin_catch([exc EXCEPT ![unwinding].catchTemp = FALSE], unwinding, uncaught)
    /\ unexpected
    /\ UNCHANGED <<stack, unwinding, heldCount, allocated>>

\* An exception must not leave a cleanup.
ThrowInCleanup ==
    /\ Unwinding /\ AtHandlerFrame
    /\ ~loadLandingPad(unwinding)
    /\ terminate
    /\ UNCHANGED <<stack, unwinding, exc, caught, uncaught, heldCount, allocated>>

\* No landing pad here: on to the caller.
ContinueUnwind ==
    /\ Unwinding /\ ~AtHandlerFrame
    /\ ~CleanupPhase(Top, TypeOf(exc, unwinding))
    /\ stack' = Below
    /\ UNCHANGED <<unwinding, exc, caught, uncaught, heldCount, allocated, halted>>

\* The landing pad of a call in the body: destructors run.
InstallCleanup ==
    /\ Unwinding /\ ~AtHandlerFrame
    /\ CleanupPhase(Top, TypeOf(exc, unwinding))
    /\ Top.at = "body"
    /\ stack' = SetTop([Top EXCEPT !.at = "cleanup", !.ip = 0, !.ex = unwinding])
    /\ unwinding' = NoEx
    /\ UNCHANGED <<exc, caught, uncaught, heldCount, allocated, halted>>

\* The landing pad of a call in a handler: __cxa_end_catch, and on.
LeaveHandler ==
    /\ Unwinding /\ ~AtHandlerFrame
    /\ CleanupPhase(Top, TypeOf(exc, unwinding))
    /\ Top.at = "catch"
    /\ caught # NoEx
    /\ __cxa_end_catch
    /\ stack' = Below
    /\ UNCHANGED <<unwinding, uncaught, halted>>

\* _Unwind_Resume at the end of a cleanup.
Resume ==
    /\ Running
    /\ Top.at = "cleanup"
    /\ unwinding' = Top.ex
    /\ stack' = Below
    /\ UNCHANGED <<exc, caught, uncaught, heldCount, allocated, halted>>

\* Which of the free objects does not matter.
FreshException == IF \A e \in EX : exc[e].live THEN NoEx ELSE CHOOSE e \in EX : ~exc[e].live

ThrowAndCatch ==
    \/ \E f \in DOMAIN FUNCTIONS : Call(f)
    \/ Return
    \/ \E type \in THROWN, place \in {Heap} \cup BUFFERS :
            \E e \in EX : e = FreshException /\ Throw(e, type, place)
    \/ OutOfMemory
    \/ __cxa_rethrow
    \/ RethrowFails
    \/ EndHandler
    \/ InstallHandler
    \/ CallUnexpected
    \/ ThrowInCleanup
    \/ ContinueUnwind
    \/ InstallCleanup
    \/ LeaveHandler
    \/ Resume

Next ==
    \/ ThrowAndCatch /\ UNCHANGED saved
    \/ __cxa_current_primary_exception
    \/ __cxa_decrement_exception_refcount
    \/ \E e \in EX : e = FreshException /\ __cxa_rethrow_primary_exception(e)

Spec == Init /\ [][Next]_vars

-----------------------------------------------------------------------------
\* The exceptions handled by the frames, innermost first, each once.
RECURSIVE HandledBy(_)
HandledBy(frames) ==
    IF frames = << >> THEN << >>
    ELSE LET top == frames[Len(frames)]
             rest == HandledBy(SubSeq(frames, 1, Len(frames) - 1))
         IN  IF top.at # "catch" \/ (rest # << >> /\ Head(rest) = top.ex)
             THEN rest ELSE <<top.ex>> \o rest

RECURSIVE ListFrom(_, _)
ListFrom(e, n) ==
    IF e = NoEx \/ n = 0 THEN << >>
    ELSE <<e>> \o ListFrom(exc[e].nextException, n - 1)

Abs(n) == IF n < 0 THEN -n ELSE n

\* The runtime's list of caught exceptions is exactly the handlers that are
\* active on the stack, innermost first, and an exception's handler count is
\* the number of them.  __cxa_end_catch and __cxa_rethrow take the head of the
\* list for the exception of the handler they are called from.
CaughtListIsHandlers ==
    halted = "no" =>
        /\ ListFrom(caught, Cardinality(EX) + 1) = HandledBy(stack)
        /\ \A e \in EX : exc[e].live =>
              Abs(exc[e].handlerCount)
                 = Cardinality({i \in DOMAIN stack : stack[i].at = "catch" /\ stack[i].ex = e})

\* Exceptions on their way: the one the unwinder carries and those whose
\* cleanups are running.
InFlight ==
    ({unwinding} \ {NoEx}) \cup {stack[i].ex : i \in {j \in DOMAIN stack : stack[j].at = "cleanup"}}

Handled == {stack[i].ex : i \in {j \in DOMAIN stack : stack[j].at = "catch"}}

\* An exception object lives exactly as long as it is on its way or being
\* handled, itself or by a dependent exception, or an exception_ptr points to
\* it: it is not freed under a handler or during a rethrow, and none is leaked
\* however handlers are left.
LiveWhileNeeded ==
    halted = "no" =>
        LET thrown == InFlight \cup Handled
        IN  /\ thrown \subseteq {e \in EX : exc[e].live}
            /\ {e \in EX : exc[e].live} =
                 thrown \cup {realExceptionFromException(exc, e) : e \in thrown} \cup ({saved} \ {NoEx})

\* std::uncaught_exceptions.
uncaught_exceptions == uncaught

\* std::uncaught_exceptions() is the number of exceptions on their way.
UncaughtIsInFlight == halted = "no" => uncaught_exceptions = Cardinality(InFlight)

\* What the source text of a frame says: does code at this place stop an
\* exception of this type?
SourceStops(frame, ex_type) ==
    /\ FUNCTIONS[frame.fn].lsda
    /\ \/ frame.at = "cleanup"
       \/ /\ frame.at = "body"
          /\ \E i \in DOMAIN FUNCTIONS[frame.fn].clauses :
                LET c == FUNCTIONS[frame.fn].clauses[i]
                IN  \/ c.filter = "catch" /\ c.types[1].kind = "any"
                    \/ c.filter = "catch" /\ Catchable(c.types[1], ex_type)
                    \/ c.filter = "spec"
                       /\ \A j \in DOMAIN c.types : ~Catchable(c.types[j], ex_type)

\* An exception goes to the innermost frame whose try block, by the rules of
\* the language, takes its type: the tables, the action records and the class
\* hierarchy lead to no other, and no handler on the way is missed.
NearestHandler ==
    Unwinding =>
        /\ AtHandlerFrame => SourceStops(Top, TypeOf(exc, unwinding))
        /\ ~AtHandlerFrame => ~SourceStops(Top, TypeOf(exc, unwinding))
        /\ exc[unwinding].target \in 1 .. Len(stack)

\* No two exceptions share an emergency buffer, and a buffer is in use exactly
\* while an exception lies in it.
BuffersExclusive ==
    /\ \A d, e \in EX : d # e /\ exc[d].live /\ exc[e].live /\ exc[d].place = exc[e].place
            => exc[d].place = Heap
    /\ allocated = {exc[e].place : e \in {d \in EX : exc[d].live}} \ {Heap}

\* "The number of emergency buffers held by this thread.  This is 0 in normal
\* operation" (exception.cc:165).  free_exception never counts down, so it is
\* the number of buffers the thread has ever been given.
HeldIsCounted == heldCount = Cardinality(allocated)

=============================================================================
