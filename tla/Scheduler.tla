----------------------------- MODULE Scheduler ------------------------------
(***************************************************************************)
(* SchedulerDetail::SchedulerUnlocked (Kernel/src/scheduler.cpp): the      *)
(* thread queues, "with no locking or synchronization at all".  Each       *)
(* operation is one action here; PreemptiveKernel extends this module with *)
(* the locks, the interrupts and the threads' stacks that surround it.     *)
(***************************************************************************)
EXTENDS Naturals, Sequences, FiniteSets

CONSTANTS Tasks,       \* threads handed to the scheduler with add()
          InitThread,  \* the kernel's init thread, handed over with begin()
          NoThread     \* a null ThreadPointer

ASSUME ThreadsAssumption ==
    /\ InitThread \notin Tasks
    /\ NoThread \notin Tasks \cup {InitThread}
    /\ IsFiniteSet(Tasks)

VARIABLES runnable_,       \* threads that still have to run in this round
          exhausted_,      \* threads that have had their turn
          current_thread_  \* the thread that has the processor, or NoThread

schedVars == <<runnable_, exhausted_, current_thread_>>

Threads == Tasks \cup {InitThread}

Elements(s) == {s[i] : i \in DOMAIN s}
Distinct(s) == \A i, j \in DOMAIN s : s[i] = s[j] => i = j

\* The threads that wait, in the order in which they will get their turn.
Line == runnable_ \o exhausted_

Queued == Elements(Line)

SchedInit ==
    /\ runnable_ = << >>
    /\ exhausted_ = << >>
    /\ current_thread_ = NoThread

-----------------------------------------------------------------------------
BothEmpty == runnable_ = << >> /\ exhausted_ = << >>

\* A faulty can_yield(), which forgets that exhausted_ threads can run too.
can_yield_Mutant == current_thread_ # NoThread /\ runnable_ # << >>

can_yield == current_thread_ # NoThread /\ ~BothEmpty

\* The two queues after swap_runnable_and_exhausted_if_necessary().
Swapped ==
    IF runnable_ = << >>
    THEN [runnable |-> exhausted_, exhausted |-> runnable_]
    ELSE [runnable |-> runnable_, exhausted |-> exhausted_]

take_current_thread_from_runnable_queue ==
    /\ current_thread_' = Head(Swapped.runnable)
    /\ runnable_' = Tail(Swapped.runnable)

add(t) ==
    /\ runnable_' = Append(runnable_, t)
    /\ UNCHANGED <<exhausted_, current_thread_>>

begin(t) ==
    /\ current_thread_' = t
    /\ UNCHANGED <<runnable_, exhausted_>>

\* A faulty one, which puts the current thread ahead of the exhausted.
move_to_next_Mutant ==
    /\ take_current_thread_from_runnable_queue
    /\ exhausted_' = <<current_thread_>> \o Swapped.exhausted

move_to_next_runnable_thread ==
    /\ take_current_thread_from_runnable_queue
    /\ exhausted_' = Append(Swapped.exhausted, current_thread_)

\* yield() when there is somebody to yield to; otherwise it does nothing.
yield ==
    /\ can_yield
    /\ move_to_next_runnable_thread

\* vanish() past its assertions: the current thread is destroyed.
vanish ==
    /\ can_yield
    /\ take_current_thread_from_runnable_queue
    /\ exhausted_' = Swapped.exhausted

-----------------------------------------------------------------------------
(***************************************************************************)
(* The scheduler on its own: the init thread adds threads that are in      *)
(* nobody's hands and begins scheduling once (Kernel::try_run adds before  *)
(* it begins); any thread yields; any thread but the init thread exits.    *)
(***************************************************************************)
AddTask(t) ==
    /\ t \notin Queued \cup {current_thread_}
    /\ current_thread_ \in {NoThread, InitThread}
    /\ add(t)

BeginScheduling ==
    /\ current_thread_ = NoThread
    /\ begin(InitThread)

Exit ==
    /\ current_thread_ \in Tasks
    /\ vanish

SchedNext ==
    \/ \E t \in Tasks : AddTask(t)
    \/ BeginScheduling
    \/ yield
    \/ Exit

SchedSpec == SchedInit /\ [][SchedNext]_schedVars

-----------------------------------------------------------------------------
(***************************************************************************)
(* Properties.                                                             *)
(***************************************************************************)
SchedTypeOK ==
    /\ runnable_ \in Seq(Threads)
    /\ exhausted_ \in Seq(Threads)
    /\ current_thread_ \in Threads \cup {NoThread}

\* A ThreadPointer is unique: the moves between the queues and
\* current_thread_ never leave a thread in two places at once.
NoThreadTwice ==
    /\ Distinct(Line)
    /\ current_thread_ \notin Queued

\* The two queues and their swap are one line: yield(), vanish(), add() and
\* begin() never make a waiting thread lose its turn to one behind it.
RR == INSTANCE RoundRobin WITH running <- current_thread_, waiting <- Line

ImplementsRoundRobin == RR!RRSpec

=============================================================================
