------------------------------ MODULE MCMachine -----------------------------
(***************************************************************************)
(* The kernel on its machine, for TLC: the boot with its descriptor tables *)
(* and panics, the entries of the tables one field at a time, the keyboard *)
(* from the wire to its reader, the clock, and threads that are switched   *)
(* between.  A behaviour is one of them.                                   *)
(***************************************************************************)
EXTENDS KernelBoot, PITTimer

CONSTANTS KEYS, CODE, ESCAPED, SHIFTS, CAPACITY, MAX_TYPED,
          LAST_THREAD, STACK_SIZE, DATA, LOCALS, MAX_CALLS

VARIABLES subject,
          kind, words, meant,
          wire, port, full, irq0, isr, phase, state, i, key_state_, events_, reader, event,
          typed, returned, split, dropped,
          isa, memory, pointer, regs, fpu, current, at, life, seen

Entries == INSTANCE ProcessorTables

Keys == INSTANCE Keyboard

Stacks == INSTANCE ContextSwitch

\* Vectors of every kind, and a TSS that needs bits of every part of a base
\* address.
MCVectors == {0, 7, 14, 15, 16, 19, 20, 32, 33, 200}
MCTssAddrs == [i386 |-> {{5, 15, 20, 31}, 4 .. 31}, x86_64 |-> {{5, 10, 24} \cup (31 .. 63), {5, 13, 20} \cup (31 .. 63)}]
MCIStack == {12, 31}

\* A key, one with the same code after the prefix, a shift, and one that the
\* tables do not hold.
MCKeys == {"8", "up", "shift", "odd"}

MCCode == [k \in MCKeys |-> CASE k \in {"8", "up"} -> "48" [] k = "shift" -> "2A" [] k = "odd" -> "unknown"]

entryVars == <<kind, words, meant>>

keyVars == <<wire, port, full, irq0, isr, phase, state, i, key_state_, events_, reader, event,
             typed, returned, split, dropped>>

stackVars == <<isa, memory, pointer, regs, fpu, current, at, life, seen>>

machineVars == <<subject, vars, entryVars, keyVars, clockVars, stackVars>>

\* What is not used has one of its initial values.
OneKernel == arch = "i386" /\ tss_at = {5, 15, 20, 31} /\ cr0 = {0, 16, 31} /\ cpuid = {"fpu"}
OneEntry == kind = "i386 gate"
OneClock == start = [ticks |-> 0, seconds |-> 0, leap |-> 0]

MCInit ==
    /\ subject \in {"boot", "entries", "keyboard", "clock", "threads"}
    /\ Init /\ (subject = "boot" \/ OneKernel)
    /\ Entries!InitEntry /\ (subject = "entries" \/ OneEntry)
    /\ Keys!Init
    /\ ClockInit /\ (subject = "clock" \/ OneClock)
    /\ Stacks!InitSwitch /\ (subject = "threads" \/ isa = "i386")

OfBoot == subject = "boot" /\ UNCHANGED <<subject, entryVars, keyVars, clockVars, stackVars>>
Execute == OfBoot /\ (Boot \/ Run)
Panics == OfBoot /\ Panicking
Interrupted == OfBoot /\ (Fault \/ DeviceInterrupt \/ Halted)

SetEntry == subject = "entries" /\ Entries!NextEntry /\ UNCHANGED <<subject, vars, keyVars, clockVars, stackVars>>

OfKeyboard == subject = "keyboard" /\ UNCHANGED <<subject, vars, entryVars, clockVars, stackVars>>
KeyTick == OfKeyboard /\ Keys!Tick
KeyTimer == OfKeyboard /\ Keys!TimerInterrupt
KeyDriver == OfKeyboard /\ Keys!Driver
KeyReader == OfKeyboard /\ Keys!GetEvent
KeyHardware == OfKeyboard /\ (Keys!Type \/ Keys!Arrive \/ Keys!OtherInterrupt)

ClockInterrupt == subject = "clock" /\ ClockNext /\ UNCHANGED <<subject, vars, entryVars, keyVars, stackVars>>
SwitchStacks == subject = "threads" /\ Stacks!NextSwitch /\ UNCHANGED <<subject, vars, entryVars, keyVars, clockVars>>
ClockBound == subject = "clock" /\ fires = MAX_FIRES /\ UNCHANGED machineVars

MCNext ==
    \/ Execute \/ Panics \/ Interrupted
    \/ SetEntry
    \/ KeyTick \/ KeyTimer \/ KeyDriver \/ KeyReader \/ KeyHardware
    \/ ClockInterrupt \/ ClockBound
    \/ SwitchStacks

\* The fairness of KernelBoot's and of Keyboard's Spec.
MCSpec ==
    /\ MCInit /\ [][MCNext]_machineVars
    /\ WF_machineVars(Execute) /\ WF_machineVars(Panics)
    /\ WF_machineVars(KeyTick) /\ SF_machineVars(KeyTimer)
    /\ WF_machineVars(KeyDriver) /\ WF_machineVars(KeyReader)

-----------------------------------------------------------------------------

\* A thread comes back from switch_away() with its registers, its stack and its
\* floating point state as it left them; a new one enters thread_start() with
\* its own function and parameter, to return to vanish() (context_switch.S,
\* thread.hpp).
ThreadsResume == subject = "threads" => Stacks!ThreadsResume

\* A panic always ends with the processor halted or reset, also when an
\* exception interrupts it or there are no symbols yet (panic.cpp).
EveryPanicHalts == subject = "boot" => PanicHalts

\* The reader is given the strokes in the order they were typed, each once and
\* with the right key, state and case, however late the bytes arrive between
\* the handler's reads of the port (ps2_keyboard_device.cpp); and no line is
\* left in service on either interrupt controller (pic.cpp).
KeysAsTyped == subject = "keyboard" => Keys!KeysAsTyped /\ Keys!NothingLeftInService

\* Every event that is queued is returned, although get_event() may fall asleep
\* after the interrupt that queued it: the next tick wakes it.
EveryEventReturned == subject = "keyboard" => Keys!EveryEventReturned

=============================================================================
