----------------------------- MODULE ThreadInfo -----------------------------
(***************************************************************************)
(* What the C++ runtime shares between kernel threads and the locks around *)
(* it: Mutex (Common/include/common/mutex.hpp), the pthread functions that *)
(* libcxxrt calls (pthread.cpp, sched.cpp), thread_info() of exception.cc, *)
(* which every throw and every catch calls, and the guards of function-    *)
(* local statics (guard.cc).                                               *)
(*                                                                         *)
(* The module composes them with the scheduler's promise, RoundRobin: the  *)
(* running thread takes steps, gives the processor up with yield(), or     *)
(* loses it to the timer.                                                  *)
(***************************************************************************)
EXTENDS RoundRobin, FiniteSets, SequencesExt

CONSTANTS CALLS,       \* what the threads call: "thread_info", "static"
          HALVES,      \* guards of two words (TRUE, i386) or one (FALSE, x86_64)
          TICK_STEPS,  \* bound: steps between two ticks of the timer
          MAX_THROWS   \* bound: constructors of the static that throw

VARIABLES todo,        \* thread -> the steps left of the call it is making
          value,       \* thread -> what it has read or allocated
          info,        \* thread -> every structure thread_info() returned to it
          lock_,       \* Mutex -> is it taken?
          control,     \* pthread_once's control word: has init_key run?
          values_,     \* ThreadSpecificDataStore: key -> value
          infos,       \* number of __cxa_thread_info structures allocated
          halves,      \* are the guards of this build two words?
          guard,       \* the guard of a static: its lock word ...
          init_half,   \* ... and, when there are two, its init word
          constructed, \* how often the static has been constructed
          throws,      \* how often its constructor has thrown
          ticks        \* steps left before the timer can tick

dataVars == <<lock_, control, values_, infos, info, value>>
guardVars == <<guard, init_half, constructed, throws>>
vars == <<running, waiting, todo, ticks, halves, dataVars, guardVars>>

Null == 0
Probe == -1   \* 0x42, which init_key stores to see whether it is kept

Mutexes == {"once", "store"}

-----------------------------------------------------------------------------
\* The calls, as sequences of the steps that other threads can come between.
Op(name) == <<[op |-> name]>>

LockGuard(m, body) ==
    <<[op |-> "lock", mutex |-> m]>> \o body \o <<[op |-> "unlock", mutex |-> m]>>

pthread_key_create == LockGuard("store", Op("allocate_next_key"))
pthread_getspecific == LockGuard("store", Op("get"))
pthread_setspecific(v) == LockGuard("store", <<[op |-> "set", what |-> v]>>)

init_key ==
    pthread_key_create \o pthread_setspecific("probe") \o pthread_getspecific
        \o pthread_setspecific("null")

pthread_once == LockGuard("once", Op("test control"))

thread_info == pthread_once \o pthread_getspecific \o Op("allocate")

__cxa_guard_acquire == Op("test guard")

Calls ==
    {c \in {thread_info, __cxa_guard_acquire} :
        (IF c = thread_info THEN "thread_info" ELSE "static") \in CALLS}

Init ==
    /\ running \in Threads
    /\ waiting \in SetToSeqs(Threads \ {running})
    /\ todo = [t \in Threads |-> << >>]
    /\ value = [t \in Threads |-> Null]
    /\ info = [t \in Threads |-> {}]
    /\ lock_ = [m \in Mutexes |-> FALSE]
    /\ control = FALSE
    /\ values_ = << >>
    /\ infos = 0
    /\ halves \in HALVES
    /\ guard = "INITIAL"
    /\ init_half = FALSE
    /\ constructed = 0
    /\ throws = 0
    /\ ticks = TICK_STEPS

At(name) == todo[running] # << >> /\ Head(todo[running]).op = name

Elapse ==
    /\ ticks' = IF ticks = 0 THEN 0 ELSE ticks - 1
    /\ UNCHANGED halves

\* The running thread takes its next step; rest is what it then has to do.
Step(rest) ==
    /\ todo' = [todo EXCEPT ![running] = rest]
    /\ Elapse
    /\ UNCHANGED <<running, waiting>>

Rest == Tail(todo[running])

Call(call) ==
    /\ todo[running] = << >>
    /\ Step(call)
    /\ UNCHANGED <<dataVars, guardVars>>

-----------------------------------------------------------------------------
\* Mutex and the processor.

Lock ==
    LET m == Head(todo[running]).mutex
    IN  /\ At("lock")
        /\ lock_' = [lock_ EXCEPT ![m] = TRUE]
        /\ Step(IF lock_[m] THEN Op("yield") \o todo[running] ELSE Rest)
        /\ UNCHANGED <<control, values_, infos, info, value, guardVars>>


\* "Yield when releasing the lock so that the scheduler's round robin queue can
\* ensure those waiting on this lock will eventually be serviced."
Unlock ==
    /\ At("unlock")
    /\ lock_' = [lock_ EXCEPT ![Head(todo[running]).mutex] = FALSE]
    /\ Step(Op("yield") \o Rest)
    /\ UNCHANGED <<control, values_, infos, info, value, guardVars>>

\* yield() and sched_yield(); alone, a thread keeps the processor.
Yield ==
    /\ At("yield")
    /\ todo' = [todo EXCEPT ![running] = Rest]
    /\ IF waiting # << >> THEN Rotate ELSE UNCHANGED rrVars
    /\ Elapse
    /\ UNCHANGED <<dataVars, guardVars>>

\* The timer takes the processor away.  It ticks at its own pace: a thread that
\* has been yielded to may have the processor for a single step.
Preempt ==
    /\ ticks = 0
    /\ Rotate
    /\ ticks' = TICK_STEPS
    /\ UNCHANGED <<todo, halves, dataVars, guardVars>>

-----------------------------------------------------------------------------
\* The thread-specific data, which is one value per key for all threads.

TestControl ==
    /\ At("test control")
    /\ Step(IF control THEN Rest ELSE init_key \o Op("set control") \o Rest)
    /\ UNCHANGED <<dataVars, guardVars>>

SetControl ==
    /\ At("set control")
    /\ control' = TRUE
    /\ Step(Rest)
    /\ UNCHANGED <<lock_, values_, infos, info, value, guardVars>>

\* Keys are handed out in order; the runtime's is the first.
allocate_next_key ==
    /\ At("allocate_next_key")
    /\ values_' = Append(values_, Null)
    /\ Step(Rest)
    /\ UNCHANGED <<lock_, control, infos, info, value, guardVars>>

eh_key == 1

Get ==
    /\ At("get")
    /\ eh_key \in DOMAIN values_
    /\ value' = [value EXCEPT ![running] = values_[eh_key]]
    /\ Step(Rest)
    /\ UNCHANGED <<lock_, control, values_, infos, info, guardVars>>

Set ==
    /\ At("set")
    /\ eh_key \in DOMAIN values_
    /\ values_' = [values_ EXCEPT ![eh_key] =
            CASE Head(todo[running]).what = "probe" -> Probe
              [] Head(todo[running]).what = "null" -> Null
              [] OTHER -> value[running]]
    /\ Step(Rest)
    /\ UNCHANGED <<lock_, control, infos, info, value, guardVars>>

\* thread_info() returns what it has read, or allocates a structure, stores and
\* returns that.
Allocate ==
    /\ At("allocate")
    /\ IF value[running] = Null
       THEN /\ infos' = infos + 1
            /\ value' = [value EXCEPT ![running] = infos']
            /\ Step(pthread_setspecific("value") \o Op("return"))
       ELSE /\ Step(Op("return"))
            /\ UNCHANGED <<infos, value>>
    /\ UNCHANGED <<lock_, control, values_, info, guardVars>>

ReturnInfo ==
    /\ At("return")
    /\ info' = [info EXCEPT ![running] = @ \cup {value[running]}]
    /\ Step(Rest)
    /\ UNCHANGED <<lock_, control, values_, infos, value, guardVars>>

-----------------------------------------------------------------------------
\* The guard of a static.

INIT_PART == IF halves THEN init_half ELSE guard = "INITIALISED"

\* __cxa_guard_acquire's first look, which takes no lock.
TestGuard ==
    /\ At("test guard")
    /\ Step(IF INIT_PART THEN Op("use") ELSE Op("swap"))
    /\ UNCHANGED <<dataVars, guardVars>>

\* A faulty acquire, which does not look again once it has the lock.
CompareAndSwap_Mutant ==
    /\ At("swap")
    /\ guard' = IF guard = "INITIAL" THEN "LOCKED" ELSE guard
    /\ Step(CASE guard = "INITIAL" -> Op("construct")
              [] guard = "INITIALISED" -> Op("use")
              [] guard = "LOCKED" -> IF halves THEN Op("look again") ELSE Op("yield") \o Op("swap"))
    /\ UNCHANGED <<dataVars, init_half, constructed, throws>>

\* One round of its loop.  With two words the init word is looked at again,
\* after the lock is obtained or before another round.
CompareAndSwap ==
    /\ At("swap")
    /\ guard' = IF guard = "INITIAL" THEN "LOCKED" ELSE guard
    /\ Step(CASE guard = "INITIAL" -> IF halves THEN Op("locked") ELSE Op("construct")
              [] guard = "INITIALISED" -> Op("use")
              [] guard = "LOCKED" -> IF halves THEN Op("look again") ELSE Op("yield") \o Op("swap"))
    /\ UNCHANGED <<dataVars, init_half, constructed, throws>>

LookWhenLocked ==
    /\ At("locked")
    /\ guard' = IF init_half THEN "INITIAL" ELSE guard
    /\ Step(IF init_half THEN Op("use") ELSE Op("construct"))
    /\ UNCHANGED <<dataVars, init_half, constructed, throws>>

LookAgain ==
    /\ At("look again")
    /\ Step(IF init_half THEN Op("use") ELSE Op("yield") \o Op("swap"))
    /\ UNCHANGED <<dataVars, guardVars>>

\* The constructor returns, and __cxa_guard_release marks the static as
\* initialised.  With two words the lock is let go in a second step.
__cxa_guard_release ==
    /\ At("construct")
    /\ constructed' = constructed + 1
    /\ IF halves
       THEN /\ init_half' = TRUE
            /\ Step(Op("unlock guard") \o Op("use"))
            /\ UNCHANGED guard
       ELSE /\ guard' = "INITIALISED"
            /\ Step(Op("use"))
            /\ UNCHANGED init_half
    /\ UNCHANGED <<dataVars, throws>>

UnlockGuard ==
    /\ At("unlock guard")
    /\ guard' = "INITIAL"
    /\ Step(Rest)
    /\ UNCHANGED <<dataVars, init_half, constructed, throws>>

\* The constructor throws: somebody else may try.
__cxa_guard_abort ==
    /\ At("construct")
    /\ throws < MAX_THROWS
    /\ throws' = throws + 1
    /\ guard' = "INITIAL"
    /\ Step(Rest)
    /\ UNCHANGED <<dataVars, init_half, constructed>>

Use ==
    /\ At("use")
    /\ Step(Rest)
    /\ UNCHANGED <<dataVars, guardVars>>

-----------------------------------------------------------------------------
Run ==
    \/ \E call \in Calls : Call(call)
    \/ Lock \/ Unlock \/ Yield
    \/ TestControl \/ SetControl \/ allocate_next_key \/ Get \/ Set
    \/ Allocate \/ ReturnInfo
    \/ TestGuard \/ CompareAndSwap \/ LookWhenLocked \/ LookAgain
    \/ __cxa_guard_release \/ UnlockGuard \/ __cxa_guard_abort \/ Use

Next == Run \/ Preempt

\* The processor does not stop, and neither does the timer.
Spec == Init /\ [][Next]_vars /\ WF_vars(Run) /\ WF_vars(Preempt)

-----------------------------------------------------------------------------
\* t is between its lock() and its unlock() of m.
Inside(t, m) ==
    LET mine == SelectSeq(todo[t], LAMBDA o : o.op \in {"lock", "unlock"} /\ o.mutex = m)
    IN  mine # << >> /\ Head(mine).op = "unlock"

\* A Mutex is taken exactly while one thread is inside it, whatever the timer
\* does between exchange, store and yield.
MutexExcludes ==
    \A m \in Mutexes :
        /\ Cardinality({t \in Threads : Inside(t, m)}) <= 1
        /\ lock_[m] <=> \E t \in Threads : Inside(t, m)

\* pthread_once runs init_key once, and nobody gets past it to use the key
\* before init_key is done.
KeyOnce ==
    /\ Len(values_) <= 1
    /\ \A t \in Threads :
          todo[t] # << >> /\ Head(todo[t]).op \in {"get", "set", "allocate", "return"}
            /\ ~Inside(t, "once")
          => control /\ eh_key \in DOMAIN values_ /\ values_[eh_key] # Probe

\* "ensure that two threads attempting to initialize the same static do not
\* call the constructor twice": one constructor at a time, one that succeeds,
\* and no use of the static before it.
ConstructedOnce ==
    /\ constructed <= 1
    /\ Cardinality({t \in Threads : todo[t] # << >> /\ Head(todo[t]).op = "construct"}) <= 1 - constructed
    /\ (\E t \in Threads : \E i \in DOMAIN todo[t] : todo[t][i].op = "use") => constructed = 1


\* "Per-thread info required by the runtime" (exception.cc:150): no two threads
\* are given the same structure.  The store has one value per key, so they are.
InfoPerThread ==
    \A s, t \in Threads : s # t => info[s] \cap info[t] = {}

=============================================================================
