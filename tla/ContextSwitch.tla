--------------------------- MODULE ContextSwitch ---------------------------
(***************************************************************************)
(* How a thread leaves the processor and comes back to it: the frame that  *)
(* the constructors of Thread_i386 and Thread_x86_64 build for a thread    *)
(* that has never run, and context_switch.S, which saves one frame and     *)
(* restores another.  Nothing but the order of the pushes and pops says    *)
(* which word is which register.                                           *)
(*                                                                         *)
(* Memory is a function from addresses to words, both counted in words: of *)
(* four bytes on i386, of eight on x86_64.  Words below the stack pointer  *)
(* are dead, since there is no red zone, and are kept Undefined.  The      *)
(* switch runs under the scheduler's lock, with interrupts disabled, and   *)
(* is one step.                                                            *)
(***************************************************************************)
EXTENDS Integers, Sequences, FiniteSets

CONSTANTS LAST_THREAD, \* threads are 1 .. LAST_THREAD; 1 has the boot stack
          STACK_SIZE,  \* bound: words from one stack to the next
          DATA,        \* what a program keeps in its registers
          LOCALS,      \* words of local variables that a function may have
          MAX_CALLS    \* bound: calls within calls

VARIABLES isa,       \* "i386" or "x86_64"
          memory,    \* address -> word
          pointer,   \* thread -> what get_stack_pointer() refers to
          regs,      \* the registers of the processor
          fpu,       \* its floating point state
          current,   \* the thread that runs
          at,        \* "program", "thread_start", "vanish", "astray" or "panic"
          life,      \* thread -> "none", "new", "started" or "vanished"
          seen       \* history: thread -> what it has put where

switchVars == <<isa, memory, pointer, regs, fpu, current, at, life, seen>>

Threads == 1 .. LAST_THREAD

\* Words that are neither addresses nor data.
Undefined == -1
InitialRegisterValue == -2
ThreadStart == -3
VanishAddress == -4
CallSite == -5
Function(t) == -(10 + t)
Param(t) == -(20 + t)

\* Sixteen bytes; they also stand for the 512 of fxsave.
ALIGNMENT == IF isa = "i386" THEN 4 ELSE 2
FXSAVE_DATA_SIZE == ALIGNMENT
Aligned(a) == a % ALIGNMENT = 0

\* The order of pusha, and of the pushes in its place on x86_64.
SAVED ==
    <<"ax", "cx", "dx", "bx", "sp", "bp", "si", "di">>
    \o (IF isa = "i386" THEN << >>
        ELSE <<"r8", "r9", "r10", "r11", "r12", "r13", "r14", "r15">>)

Registers == {SAVED[n] : n \in DOMAIN SAVED}
Position(r) == CHOOSE n \in DOMAIN SAVED : SAVED[n] = r

\* The registers, apart from the frame pointer, that a call leaves as they were.
CalleeSaved ==
    IF isa = "i386" THEN {"bx", "si", "di"} ELSE {"bx", "r12", "r13", "r14", "r15"}

\* StaticStack::push4(), push8() and the processor's own, of one word after
\* another, below sp.
Pushed(m, sp, words) ==
    [a \in DOMAIN m |-> IF a \in sp - Len(words) .. sp - 1 THEN words[sp - a] ELSE m[a]]

\* What is below sp on the stack of thread t is dead.
Trimmed(m, t, sp) ==
    [a \in DOMAIN m |-> IF a \in t * STACK_SIZE .. sp - 1 THEN Undefined ELSE m[a]]

\* What a thread sees of its own: data in its registers, its stack, the calls
\* it is in, and the words it relies on.
Seen(data, sp, bp, calls, words) ==
    [data |-> data, sp |-> sp, bp |-> bp, calls |-> calls, words |-> words]

BootStack == 2 * STACK_SIZE - 4

InitSwitch ==
    /\ isa \in {"i386", "x86_64"}
    /\ memory = [a \in STACK_SIZE .. (LAST_THREAD + 1) * STACK_SIZE |-> Undefined]
    /\ pointer = [t \in Threads |-> 0]
    /\ regs = [r \in Registers |-> IF r = "sp" THEN BootStack ELSE 0]
    /\ fpu = 0
    /\ current = 1
    /\ at = "program"
    /\ life = [t \in Threads |-> IF t = 1 THEN "started" ELSE "none"]
    /\ seen = [t \in Threads |-> Seen(0, IF t = 1 THEN BootStack ELSE 0, 0, 0, << >>)]

-----------------------------------------------------------------------------
\* new Thread(function, param).

\* What Thread_i386's constructor pushes on a stack that ends at top: the frame
\* of a call thread_start(param, function) from vanish, and registers.  EBP is
\* the address of the word it is pushed to.
Thread_i386(t, top) ==
    LET ebp == top - 5
    IN  <<Function(t), Param(t), VanishAddress, ThreadStart, ebp,
          InitialRegisterValue, InitialRegisterValue, InitialRegisterValue, InitialRegisterValue,
          ebp, ebp, InitialRegisterValue, InitialRegisterValue>>

\* A faulty one, whose saved frame pointer is the stack pointer of that moment.
Thread_x86_64_Mutant(t, top) ==
    <<VanishAddress, ThreadStart, top - 2,
      InitialRegisterValue, InitialRegisterValue, InitialRegisterValue, InitialRegisterValue,
      top - 3, top - 2, Function(t), Param(t)>>
    \o [n \in 1 .. 8 |-> InitialRegisterValue]

\* The same of Thread_x86_64, where the arguments are in registers.
Thread_x86_64(t, top) ==
    LET rbp == top - 3
    IN  <<VanishAddress, ThreadStart, rbp,
          InitialRegisterValue, InitialRegisterValue, InitialRegisterValue, InitialRegisterValue,
          rbp, rbp, Function(t), Param(t)>>
        \o [n \in 1 .. 8 |-> InitialRegisterValue]

\* Where malloc() may put the end of a stack_: it aligns on four bytes, whatever
\* alignas() asks for.
Tops(t) == {(t + 1) * STACK_SIZE - n : n \in 1 .. ALIGNMENT}

\* The constructor also asserts that the saved pointer is good for fxrstor, and
\* saves the floating point state of the thread that calls it.
Create(t, top) ==
    LET words == IF isa = "i386" THEN Thread_i386(t, top) ELSE Thread_x86_64(t, top)
        sp == top - Len(words) - FXSAVE_DATA_SIZE
    IN  /\ at = "program" /\ life[t] = "none"
        /\ pointer' = [pointer EXCEPT ![t] = sp]
        /\ IF Aligned(sp)
           THEN /\ memory' = [Pushed(memory, top, words) EXCEPT ![sp] = fpu]
                /\ life' = [life EXCEPT ![t] = "new"]
                /\ UNCHANGED at
           ELSE at' = "panic" /\ UNCHANGED <<memory, life>>
        /\ UNCHANGED <<isa, regs, fpu, current, seen>>

-----------------------------------------------------------------------------
\* The threads' own code.

\* A thread computes: every register but sp and bp has new data.
Work(data) ==
    /\ at = "program"
    /\ regs' = [r \in Registers |-> IF r \in {"sp", "bp"} THEN regs[r] ELSE data]
    /\ fpu' = data
    /\ seen' = [seen EXCEPT ![current].data = data]
    /\ UNCHANGED <<isa, memory, pointer, current, at, life>>

\* A call, a prologue and local variables.
Call(locals) ==
    LET sp == regs.sp
        mine == seen[current]
        frame == <<CallSite, regs.bp>>
    IN  /\ at = "program" /\ mine.calls < MAX_CALLS
        /\ memory' = Pushed(memory, sp, frame)
        /\ regs' = [regs EXCEPT !.bp = sp - 2, !.sp = sp - 2 - locals]
        /\ seen' = [seen EXCEPT ![current] =
                      Seen(mine.data, mine.sp - 2 - locals, mine.sp - 2, mine.calls + 1,
                           [a \in DOMAIN mine.words \cup {mine.sp - 1, mine.sp - 2} |->
                              CASE a = mine.sp - 1 -> CallSite
                                [] a = mine.sp - 2 -> mine.bp
                                [] OTHER -> mine.words[a]])]
        /\ UNCHANGED <<isa, pointer, fpu, current, at, life>>

Place(word) ==
    CASE word = CallSite -> "program"
      [] word = ThreadStart -> "thread_start"
      [] word = VanishAddress -> "vanish"
      [] OTHER -> "astray"

\* leave and ret.  The first thread never returns from its outermost function.
Return ==
    LET bp == regs.bp
        mine == seen[current]
    IN  /\ at = "program"
        /\ current = 1 => mine.calls > 0
        /\ regs' = [regs EXCEPT !.sp = bp + 2, !.bp = memory[bp]]
        /\ at' = Place(memory[bp + 1])
        /\ memory' = Trimmed(memory, current, bp + 2)
        /\ seen' = [seen EXCEPT ![current] =
                      Seen(mine.data, mine.bp + 2, mine.words[mine.bp], mine.calls - 1,
                           [a \in DOMAIN mine.words \ {mine.bp, mine.bp + 1} |-> mine.words[a]])]
        /\ UNCHANGED <<isa, pointer, fpu, current, life>>

\* The arguments thread_start() finds.
Arguments ==
    IF isa = "i386" THEN <<memory[regs.sp + 1], memory[regs.sp + 2]>>
                    ELSE <<regs.di, regs.si>>

\* thread_start(): its prologue, and on in the thread's function.
Enter ==
    LET sp == regs.sp
    IN  /\ at = "thread_start"
        /\ memory' = Pushed(memory, sp, <<regs.bp>>)
        /\ regs' = [r \in Registers |-> IF r \in {"sp", "bp"} THEN sp - 1 ELSE 0]
        /\ fpu' = 0
        /\ at' = "program"
        /\ seen' = [seen EXCEPT ![current] =
                      Seen(0, sp - 1, sp - 1, 0,
                           [a \in {sp, sp - 1} |-> IF a = sp THEN VanishAddress ELSE regs.bp])]
        /\ UNCHANGED <<isa, pointer, current, life>>

-----------------------------------------------------------------------------
\* i386_context_switch() and x86_64_context_switch().

\* The caller's part: arguments are on the stack of i386.
Parameters(next) == IF isa = "i386" THEN <<pointer[next], Undefined>> ELSE << >>

\* The words pushed from base, which is on a sixteen byte boundary.  pusha saves
\* the stack pointer from before it began, pushq %rsp the one it finds.
Frame(held, base) ==
    [n \in DOMAIN SAVED |->
        IF SAVED[n] # "sp" THEN held[SAVED[n]]
        ELSE IF isa = "i386" THEN base ELSE base - (n - 1)]

\* popa leaves the stack pointer alone; popq %rsp moves it, and what comes after
\* it is popped from there.
Popped(m, sp) ==
    LET Slot(r) == sp + Len(SAVED) - Position(r)
        moved == m[Slot("sp")]
    IN  [r \in Registers |->
            IF isa = "x86_64" /\ Position(r) < Position("sp")
            THEN m[moved + Position("sp") - 1 - Position(r)]
            ELSE m[Slot(r)]]

AlignDown(a) == a - (a % ALIGNMENT)

\* switch_away(): save, switch stacks, restore.
context_switch(next) ==
    LET called == Append(Parameters(next), CallSite)
        bp == regs.sp - Len(called) - 1
        base == AlignDown(bp)
        sp == base - Len(SAVED) - FXSAVE_DATA_SIZE
        pushed == Pushed(Pushed(memory, regs.sp, Append(called, regs.bp)),
                         base, Frame([regs EXCEPT !.bp = bp], base))
        m == [pushed EXCEPT ![sp] = fpu]
        popped == Popped(m, pointer[next] + FXSAVE_DATA_SIZE)
        place == Place(m[popped.bp + 1])
        up == popped.bp + 2 + (IF place = "program" THEN Len(Parameters(next)) ELSE 0)
    IN  /\ pointer' = [pointer EXCEPT ![current] = sp]
        /\ regs' = [popped EXCEPT !.sp = up, !.bp = m[popped.bp]]
        /\ fpu' = m[pointer[next]]
        /\ at' = IF Aligned(sp) /\ Aligned(pointer[next]) THEN place ELSE "astray"
        /\ memory' = Trimmed(m, next, up)

\* yield(), or vanish() when a thread's function has returned.
Switch(next) ==
    /\ at \in {"program", "vanish"}
    /\ next # current /\ life[next] \in {"new", "started"}
    /\ context_switch(next)
    /\ life' = [life EXCEPT ![next] = "started", ![current] = IF at = "vanish" THEN "vanished" ELSE @]
    /\ current' = next
    /\ UNCHANGED <<isa, seen>>

Halted == at = "panic" /\ UNCHANGED switchVars

NextSwitch ==
    \/ \E t \in Threads : \E top \in Tops(t) : Create(t, top)
    \/ \E data \in DATA : Work(data)
    \/ \E locals \in LOCALS : Call(locals)
    \/ Return
    \/ Enter
    \/ \E next \in Threads : Switch(next)
    \/ Halted

SwitchSpec == InitSwitch /\ [][NextSwitch]_switchVars

-----------------------------------------------------------------------------
\* A thread does not notice that it was switched away from: its registers, its
\* floating point state, its stack pointer and the words of its stack are what
\* it left, and it goes on where it was (context_switch.S).  One that has not
\* run yet enters thread_start() with its own function and parameter, to return
\* to vanish() when that is done and no sooner, at every depth and alignment of
\* the stack it is switched to from (thread.hpp).
ThreadsResume ==
    /\ at # "astray"
    /\ at = "program" =>
         LET mine == seen[current] IN
         /\ regs.sp = mine.sp /\ regs.bp = mine.bp
         /\ \A r \in CalleeSaved : regs[r] = mine.data
         /\ fpu = mine.data
    /\ at = "thread_start" =>
         /\ Arguments = <<Param(current), Function(current)>>
         /\ memory[regs.sp] = VanishAddress
    /\ at = "vanish" => seen[current].calls = -1
    /\ \A t \in Threads : life[t] = "started" =>
         \A a \in DOMAIN seen[t].words : memory[a] = seen[t].words[a]

=============================================================================
