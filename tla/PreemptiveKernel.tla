-------------------------- MODULE PreemptiveKernel --------------------------
(***************************************************************************)
(* One processor, its interrupt flag, and the kernel code that shares it:  *)
(* InterruptLock, LockGuard, SchedulerLock, SchedulerMonitor, the          *)
(* interrupt dispatcher with the device handlers, and the threads.         *)
(*                                                                         *)
(* FlapjackOS excludes interrupts by counting: InterruptLock::count_ is    *)
(* global, the lock() that takes it from 0 to 1 executes cli and the       *)
(* unlock() that takes it back to 0 executes sti.  The increment and the   *)
(* cli (the decrement and the sti) are separate instructions, and so they  *)
(* are separate steps here.  The interrupt vectors are trap gates, so an   *)
(* interrupt enters its handler with interrupts still enabled, and device  *)
(* handlers end in a yield(), which is what makes the kernel preemptive.   *)
(*                                                                         *)
(* A thread's stack is a sequence of frames, newest last.  A frame is a    *)
(* procedure and the point it has reached:                                 *)
(*   code     the thread's own code, at "run"                              *)
(*   start    thread_start() of a thread that has not run yet              *)
(*   guard    code under a LockGuard on an InterruptLock                   *)
(*   isr      an interrupt wrapper and GenericInterruptDispatcher::dispatch*)
(*   add, begin, yield, vanish   the operations of SchedulerMonitor        *)
(***************************************************************************)
EXTENDS Scheduler, Integers

CONSTANT MaxFrames     \* bound on the depth of a stack, interrupts included

ASSUME MaxFramesAssumption == MaxFrames \in Nat /\ MaxFrames >= 2

VARIABLES count_,      \* InterruptLock::count_
          IF_,         \* the processor's interrupt flag (EFLAGS.IF)
          is_locked_,  \* SchedulerLock::is_locked_
          cpu,         \* the thread whose stack the processor is on
          stack,       \* stack[t], empty if the thread does not exist
          panicked,    \* the assertion that failed, or "no"
          torn         \* history: an interrupt has hit a lock() between its
                       \* increment and its cli

lockVars == <<count_, IF_, is_locked_>>
vars == <<schedVars, lockVars, cpu, stack, panicked, torn>>

-----------------------------------------------------------------------------
SchedulerProcs == {"add", "begin", "yield", "vanish"}
Procs == {"code", "start", "guard", "isr"} \cup SchedulerProcs
Points == {"run", "add", "cli", "check", "set", "body", "susp", "clear",
           "sub", "sti", "iret"}

Frame(proc, at) == [proc |-> proc, at |-> at]

Top(t) == stack[t][Len(stack[t])]
TopAt(t) == Top(t).at

\* Stack s with its newest frame moved to another point, with a new frame
\* on top, and without its newest frame.
Moved(s, at) == [s EXCEPT ![Len(s)] = Frame(s[Len(s)].proc, at)]
Pushed(s, proc) == Append(s, Frame(proc, "add"))
Popped(s) == SubSeq(s, 1, Len(s) - 1)

\* The points at which a frame's InterruptLock is counted in count_.  A
\* thread suspended in yield() has left its lock to the thread it switched to.
HoldingPoints == {"cli", "check", "set", "body", "clear", "sub"}
Holds(f) == f.at \in HoldingPoints

\* The LockGuards and explicit locks outstanding on all the stacks.
Guards ==
    {g \in Threads \X (1 .. MaxFrames) :
        g[2] <= Len(stack[g[1]]) /\ Holds(stack[g[1]][g[2]])}

\* The processor is at point `at' of a frame of one of the procedures procs.
At(procs, at) ==
    /\ panicked = "no"
    /\ Top(cpu).proc \in procs
    /\ TopAt(cpu) = at

Goto(at) == stack' = [stack EXCEPT ![cpu] = Moved(@, at)]

\* Call proc; the caller will go on at point `at' when it returns.
Call(proc, at) ==
    /\ Len(stack[cpu]) < MaxFrames
    /\ stack' = [stack EXCEPT ![cpu] = Pushed(Moved(@, at), proc)]

-----------------------------------------------------------------------------
(***************************************************************************)
(* InterruptLock and SchedulerLock, shared by every frame that locks.      *)
(***************************************************************************)

\* Where a frame goes on once its InterruptLock is taken.
AfterLock(proc) == IF proc \in SchedulerProcs THEN "check" ELSE "body"

\* What becomes of the stack once the newest frame's lock is released: an
\* interrupt wrapper goes on to its iret, thread_start() calls the thread's
\* function, anything else returns to its caller.
Released(s) ==
    CASE s[Len(s)].proc = "isr"   -> Moved(s, "iret")
      [] s[Len(s)].proc = "start" -> [s EXCEPT ![Len(s)] = Frame("code", "run")]
      [] OTHER                    -> Popped(s)

\* InterruptLock::lock(): count_.fetch_add(1), and whether it was 0.
FetchAdd ==
    /\ At(Procs, "add")
    /\ count_' = count_ + 1
    /\ Goto(IF count_ = 0 THEN "cli" ELSE AfterLock(Top(cpu).proc))
    /\ UNCHANGED <<schedVars, IF_, is_locked_, cpu, panicked, torn>>

\* InterruptLock::lock(): disable_interrupts().
DisableInterrupts ==
    /\ At(Procs, "cli")
    /\ IF_' = FALSE
    /\ Goto(AfterLock(Top(cpu).proc))
    /\ UNCHANGED <<schedVars, count_, is_locked_, cpu, panicked, torn>>

\* Faulty unlock()s: the first enables interrupts without counting the outermost
\* guard down, the second whatever the nesting, and the third compares the wrong
\* value.
FetchSub_MutantStuck ==
    /\ At(Procs, "sub")
    /\ IF count_ = 1
       THEN Goto("sti") /\ UNCHANGED count_
       ELSE stack' = [stack EXCEPT ![cpu] = Released(@)] /\ count_' = count_ - 1
    /\ UNCHANGED <<schedVars, IF_, is_locked_, cpu, panicked, torn>>

FetchSub_MutantEager ==
    /\ At(Procs, "sub")
    /\ count_' = count_ - 1
    /\ Goto("sti")
    /\ UNCHANGED <<schedVars, IF_, is_locked_, cpu, panicked, torn>>

FetchSub_MutantOffByOne ==
    /\ At(Procs, "sub")
    /\ count_' = count_ - 1
    /\ IF count_ = 0 THEN Goto("sti") ELSE stack' = [stack EXCEPT ![cpu] = Released(@)]
    /\ UNCHANGED <<schedVars, IF_, is_locked_, cpu, panicked, torn>>

\* InterruptLock::unlock(): count_.fetch_sub(1), and whether it was 1.
FetchSub ==
    /\ At(Procs, "sub")
    /\ count_' = count_ - 1
    /\ IF count_ = 1 THEN Goto("sti") ELSE stack' = [stack EXCEPT ![cpu] = Released(@)]
    /\ UNCHANGED <<schedVars, IF_, is_locked_, cpu, panicked, torn>>

\* InterruptLock::unlock(): enable_interrupts().
EnableInterrupts ==
    /\ At(Procs, "sti")
    /\ IF_' = TRUE
    /\ stack' = [stack EXCEPT ![cpu] = Released(@)]
    /\ UNCHANGED <<schedVars, count_, is_locked_, cpu, panicked, torn>>

\* SchedulerLock::lock(): the assertion, which panics when it fails.
AssertNotLocked ==
    /\ At(SchedulerProcs, "check")
    /\ IF is_locked_
       THEN panicked' = "reentrancy" /\ UNCHANGED stack
       ELSE Goto("set") /\ UNCHANGED panicked
    /\ UNCHANGED <<schedVars, lockVars, cpu, torn>>

\* SchedulerLock::lock(): is_locked_ = true.
SetLocked ==
    /\ At(SchedulerProcs, "set")
    /\ is_locked_' = TRUE
    /\ Goto("body")
    /\ UNCHANGED <<schedVars, count_, IF_, cpu, panicked, torn>>

\* A faulty unlock(), which forgets is_locked_.
ClearLocked_Mutant ==
    /\ At(SchedulerProcs \cup {"start"}, "clear")
    /\ Goto("sub")
    /\ UNCHANGED <<schedVars, lockVars, cpu, panicked, torn>>

\* SchedulerLock::unlock(): is_locked_ = false.
ClearLocked ==
    /\ At(SchedulerProcs \cup {"start"}, "clear")
    /\ is_locked_' = FALSE
    /\ Goto("sub")
    /\ UNCHANGED <<schedVars, count_, IF_, cpu, panicked, torn>>

-----------------------------------------------------------------------------
(***************************************************************************)
(* Thread code and guarded sections.                                       *)
(***************************************************************************)
sharedVars == <<schedVars, lockVars, cpu, panicked, torn>>

\* A thread enters a section guarded by an InterruptLock, from its own code
\* or from inside another such section or an interrupt handler.
EnterGuard ==
    /\ \/ At({"code"}, "run") /\ Call("guard", "run")
       \/ At({"guard", "isr"}, "body") /\ Call("guard", "body")
    /\ UNCHANGED sharedVars

\* A guarded section, or a dispatch whose interrupt is spurious or has no
\* handler, ends.
LeaveBody ==
    /\ At({"guard", "isr"}, "body")
    /\ Goto("sub")
    /\ UNCHANGED sharedVars

CallYield ==
    /\ At({"code"}, "run")
    /\ Call("yield", "run")
    /\ UNCHANGED sharedVars

\* A faulty stack set-up, under which the init thread returns into vanish().
CallVanish_Mutant ==
    /\ At({"code"}, "run")
    /\ Call("vanish", "run")
    /\ UNCHANGED sharedVars

\* A thread function returns into vanish(); the init thread's never does.
CallVanish ==
    /\ cpu \in Tasks
    /\ At({"code"}, "run")
    /\ Call("vanish", "run")
    /\ UNCHANGED sharedVars

\* Kernel::try_run() adds threads and begins scheduling.
CallAdd ==
    /\ cpu = InitThread
    /\ \E t \in Tasks : stack[t] = << >>
    /\ At({"code"}, "run")
    /\ Call("add", "run")
    /\ UNCHANGED sharedVars

CallBegin ==
    /\ cpu = InitThread
    /\ current_thread_ = NoThread
    /\ At({"code"}, "run")
    /\ Call("begin", "run")
    /\ UNCHANGED sharedVars

-----------------------------------------------------------------------------
(***************************************************************************)
(* Interrupts.                                                             *)
(***************************************************************************)

\* An interrupt arrives.  Its vector is a trap gate: IF_ stays set.
Interrupt ==
    /\ panicked = "no"
    /\ IF_
    /\ Len(stack[cpu]) < MaxFrames
    /\ stack' = [stack EXCEPT ![cpu] = Pushed(@, "isr")]
    /\ torn' = (torn \/ TopAt(cpu) = "cli")
    /\ UNCHANGED <<schedVars, lockVars, cpu, panicked>>

\* SimpleDeviceInterruptHandler::int_handler(), the device served: yield().
HandlerYield ==
    /\ At({"isr"}, "body")
    /\ Call("yield", "sub")
    /\ UNCHANGED sharedVars

\* iret restores the flags of the interrupted code, which had IF_ set.
Iret ==
    /\ At({"isr"}, "iret")
    /\ IF_' = TRUE
    /\ stack' = [stack EXCEPT ![cpu] = Popped(@)]
    /\ UNCHANGED <<schedVars, count_, is_locked_, cpu, panicked, torn>>

-----------------------------------------------------------------------------
(***************************************************************************)
(* SchedulerMonitor, with the lock taken.                                  *)
(***************************************************************************)

\* add(new Thread(...)): the new stack will return into thread_start().
AddBody ==
    /\ At({"add"}, "body")
    /\ \E t \in Tasks :
         /\ stack[t] = << >>
         /\ add(t)
         /\ stack' = [stack EXCEPT ![t] = <<Frame("start", "susp")>>,
                                   ![cpu] = Moved(@, "clear")]
    /\ UNCHANGED <<lockVars, cpu, panicked, torn>>

BeginBody ==
    /\ At({"begin"}, "body")
    /\ begin(InitThread)
    /\ Goto("clear")
    /\ UNCHANGED <<lockVars, cpu, panicked, torn>>

\* A faulty context switch, which leaves the thread it switches from where it
\* was, so that both threads release the scheduler's lock.
YieldBody_Mutant ==
    /\ At({"yield"}, "body")
    /\ yield
    /\ cpu' = current_thread_'
    /\ stack' = [stack EXCEPT ![current_thread_'] = Moved(@, "clear")]
    /\ UNCHANGED <<lockVars, panicked, torn>>

\* yield() and the context switch.  The next thread resumes in its own
\* yield() or thread_start(), which will release the lock taken here.
YieldBody ==
    /\ At({"yield"}, "body")
    /\ yield
    /\ cpu' = current_thread_'
    /\ stack' = [stack EXCEPT ![cpu] = Moved(@, "susp"),
                              ![current_thread_'] = Moved(@, "clear")]
    /\ UNCHANGED <<lockVars, panicked, torn>>

\* yield() with nobody to yield to.
YieldAlone ==
    /\ At({"yield"}, "body")
    /\ ~can_yield
    /\ Goto("clear")
    /\ UNCHANGED <<schedVars, lockVars, cpu, panicked, torn>>

\* vanish() destroys the current thread, its stack included, and switches.
VanishSwitch ==
    /\ At({"vanish"}, "body")
    /\ vanish
    /\ cpu' = current_thread_'
    /\ stack' = [stack EXCEPT ![cpu] = << >>,
                              ![current_thread_'] = Moved(@, "clear")]
    /\ UNCHANGED <<lockVars, panicked, torn>>

\* vanish() asserts that there is a current thread and another one.
VanishAssert ==
    /\ At({"vanish"}, "body")
    /\ ~can_yield
    /\ panicked' = "nobody left"
    /\ UNCHANGED <<schedVars, lockVars, cpu, stack, torn>>

VanishBody == IF can_yield THEN VanishSwitch ELSE VanishAssert

-----------------------------------------------------------------------------
(***************************************************************************)
(* The kernel starts in its constructor, after initialize_hardware() took  *)
(* the ready_ lock that become_ready() will release.                       *)
(***************************************************************************)
Init ==
    /\ SchedInit
    /\ count_ = 1
    /\ IF_ = FALSE
    /\ is_locked_ = FALSE
    /\ cpu = InitThread
    /\ stack = [t \in Threads |->
                  IF t = InitThread THEN <<Frame("code", "run"), Frame("guard", "body")>>
                                    ELSE << >>]
    /\ panicked = "no"
    /\ torn = FALSE

LockStep ==
    \/ FetchAdd \/ DisableInterrupts \/ FetchSub \/ EnableInterrupts
    \/ AssertNotLocked \/ SetLocked \/ ClearLocked

CallStep ==
    \/ EnterGuard \/ LeaveBody
    \/ CallYield \/ CallVanish \/ CallAdd \/ CallBegin \/ HandlerYield

MonitorStep ==
    \/ AddBody \/ BeginBody \/ YieldBody \/ YieldAlone
    \/ VanishBody

\* panic() never returns: it halts the processor for good.
Halt == panicked # "no" /\ UNCHANGED vars

Next == LockStep \/ CallStep \/ MonitorStep \/ Interrupt \/ Iret \/ Halt

Spec == Init /\ [][Next]_vars

-----------------------------------------------------------------------------
(***************************************************************************)
(* Safety.                                                                 *)
(***************************************************************************)
TypeOK ==
    /\ SchedTypeOK
    /\ count_ \in Nat
    /\ IF_ \in BOOLEAN
    /\ is_locked_ \in BOOLEAN
    /\ cpu \in Threads
    /\ stack \in [Threads -> Seq([proc : Procs, at : Points])]
    /\ \A t \in Threads : Len(stack[t]) <= MaxFrames
    /\ panicked \in {"no", "reentrancy", "nobody left"}
    /\ torn \in BOOLEAN

\* Every lock() is matched by one unlock(), across context switches too: a
\* lock taken in yield() or vanish() is released by the thread switched to,
\* in its own yield() or in thread_start().
CountIsGuards == count_ = Cardinality(Guards)

\* InterruptLock "will enable and disable interrupts entirely during the
\* critical section".  It does as long as no interrupt has arrived between
\* the increment and the cli of a lock(): interrupts are then off whenever
\* any guard is held, a lock() about to execute cli apart.
MaskedWhileGuarded ==
    ~torn => (count_ > 0 => ~IF_ \/ TopAt(cpu) = "cli")

\* No unlock() is lost: with no guard outstanding interrupts are on, an
\* unlock() about to execute sti apart.
EnabledWhenFree == count_ = 0 => IF_ \/ TopAt(cpu) = "sti"

\* SchedulerLock's assertion fails only if an interrupt has arrived between
\* the increment and the cli of some lock().
ReentrancyOnlyIfTorn == panicked = "reentrancy" => torn

\* vanish() always finds a thread to switch to.
VanishFindsThread == panicked # "nobody left"

\* Every thread there is is in one place: on the processor, or once in the
\* queues and suspended where the context switch left it.
ThreadPlaces ==
    /\ Distinct(Line)
    /\ Queued = {t \in Threads : stack[t] # << >>} \ {cpu}
    /\ \A t \in Queued : TopAt(t) = "susp"
    /\ stack[cpu] # << >> /\ TopAt(cpu) # "susp"
    /\ current_thread_ \in {NoThread, cpu}

\* "The lock is already taken. Reentrancy is not permitted."
\* (SchedulerLock::lock).  An interrupt that arrives between the increment
\* and the cli leaves the count above 0 and interrupts on, and nested guards
\* do not turn them off: a second one may enter the scheduler again.
NoReentrancy == panicked # "reentrancy"

-----------------------------------------------------------------------------
(***************************************************************************)
(* Liveness.  The processor executes what is on its stack: an activation   *)
(* that is again and again the newest, between interrupts, goes on, and a  *)
(* guarded section or a handler ends.  Threads cooperate: Kernel::try_run  *)
(* begins scheduling, and both it and task() yield in every iteration of   *)
(* their loops.  Nothing makes an interrupt arrive.                        *)
(***************************************************************************)
Activation(depth) ==
    /\ Len(stack[cpu]) = depth
    /\ LockStep \/ MonitorStep \/ LeaveBody \/ Iret

FairSpec ==
    /\ Spec
    /\ \A depth \in 1 .. MaxFrames : SF_vars(Activation(depth))
    /\ SF_vars(CallBegin)
    /\ SF_vars(CallYield)

\* Round robin: every thread that waits in a queue gets the processor,
\* whatever interrupts, exits and new threads there are, or the kernel
\* panics.
EveryThreadRuns ==
    \A t \in Threads : t \in Queued ~> (cpu = t \/ panicked # "no")

\* A thread preempted inside an interrupt takes the dispatcher's guard with
\* it into the queue, and interrupts stay off until it is resumed.  They do
\* come back, again and again.
InterruptsComeBack == []<>(IF_ \/ panicked # "no")

=============================================================================
