----------------------------- MODULE MCRuntime ------------------------------
(***************************************************************************)
(* The C++ runtime for TLC.  A behaviour has one subject: threads that     *)
(* share the runtime's data, a thread that throws and catches, a lookup in *)
(* the bytes of an exception table, or smart pointers.                     *)
(***************************************************************************)
EXTENDS MCEhTables, Ownership

CONSTANTS Threads, NoThread, CALLS, HALVES, TICK_STEPS, MAX_THROWS

VARIABLES subject, running, waiting, todo, value, info, lock_, control, values_, infos, halves,
          guard, init_half, constructed, throws, ticks

T == INSTANCE ThreadInfo

\* The initial states in which a part is of no interest.
NoCall == [f |-> "plain"]
NoLookup == [stage |-> "none"]
OneThread == CHOOSE t \in Threads : TRUE
OneHalf == CHOOSE h \in HALVES : TRUE

\* A function with no handler, one with an exception specification and one that
\* takes everything.
OUTERMOST == {"destroys", "nothrow", "catchall"}

MCInit ==
    /\ subject \in {"threads", "exceptions", "tables", "pointers"}
    /\ running \in IF subject = "threads" THEN Threads ELSE {OneThread}
    /\ halves \in IF subject = "threads" THEN HALVES ELSE {OneHalf}
    /\ T!Init
    /\ OwnershipInit
    /\ stack \in IF subject = "exceptions" THEN {<<Frame(f)>> : f \in OUTERMOST} ELSE {<<Frame("plain")>>}
    /\ Init
    /\ IF subject = "tables" THEN LookupInit ELSE call = NoCall /\ lookup = NoLookup

threadVars == <<running, waiting, todo, value, info, lock_, control, values_, infos, halves,
                guard, init_half, constructed, throws, ticks>>

runtimeVars == <<subject, call, lookup, vars, threadVars, memory>>

UseThreads == subject = "threads" /\ T!Run /\ UNCHANGED <<subject, call, lookup, vars, memory>>

Tick == subject = "threads" /\ T!Preempt /\ UNCHANGED <<subject, call, lookup, vars, memory>>

UseExceptions == subject = "exceptions" /\ Next /\ UNCHANGED <<subject, call, lookup, threadVars, memory>>

UseTables == subject = "tables" /\ TablesNext /\ UNCHANGED <<subject, vars, threadVars, memory>>

UsePointers ==
    subject = "pointers" /\ OwnershipNext /\ UNCHANGED <<subject, call, lookup, vars, threadVars>>

MCNext == UseThreads \/ Tick \/ UseExceptions \/ UseTables \/ UsePointers

MCSpec == MCInit /\ [][MCNext]_runtimeVars /\ WF_runtimeVars(UseThreads) /\ WF_runtimeVars(Tick)

-----------------------------------------------------------------------------
\* A Mutex is taken exactly while one thread is inside it (mutex.hpp),
\* pthread_once runs init_key once, before anybody uses the key (pthread.cpp),
\* and a static is constructed once, and not used before (guard.cc).
InitialisedOnce == subject = "threads" => T!MutexExcludes /\ T!KeyOnce /\ T!ConstructedOnce


\* No two threads are given the same "Per-thread info" (exception.cc:150).
InfoPerThread == T!InfoPerThread

\* An exception object lives, and has its emergency buffer for itself, exactly
\* as long as it is on its way or being handled, and uncaught_exceptions() is
\* the number of those on their way (exception.cc).
ExceptionsLive ==
    subject = "exceptions" => LiveWhileNeeded /\ UncaughtIsInFlight /\ BuffersExclusive

\* The runtime's list of caught exceptions is exactly the handlers that are
\* active on the stack, innermost first, with their counts (exception.cc).
CaughtAreHandled == subject = "exceptions" => CaughtListIsHandlers

\* An exception goes to the innermost frame whose try block, by the rules of
\* the language, takes its type (exception.cc, typeinfo.cc).
NearestHandlerTakes == subject = "exceptions" => NearestHandler

\* The bytes of an exception table say what the table says (dwarf_eh.h).
TablesRead == subject = "tables" => TablesSayTheSame /\ NumbersSayTheSame

=============================================================================
