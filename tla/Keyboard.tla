------------------------------ MODULE Keyboard ------------------------------
(***************************************************************************)
(* The PS/2 keyboard from the wire to the reader: the scan codes that the  *)
(* keyboard sends, the 8042's one-byte output buffer, the 8259 interrupt   *)
(* controllers, the dispatcher, the driver's state machine, its queue of   *)
(* events, and PS2KeyboardDevice::get_event(), which sleeps with hlt.      *)
(*                                                                         *)
(* The driver's reads of the data port and the arrival of bytes interleave *)
(* freely: a read before the next byte has arrived returns the last one    *)
(* again.                                                                  *)
(***************************************************************************)
EXTENDS Integers, Sequences, SequencesExt, FiniteSets

CONSTANTS KEYS,       \* the keys that are typed
          CODE,       \* the scan code of each key: [KEYS -> code]
          ESCAPED,    \* the keys whose codes follow the prefix 0xE0
          SHIFTS,     \* the shift keys
          CAPACITY,   \* the capacity of events_, 32 in the code
          MAX_TYPED   \* a bound on the keys typed

MAX_SCANCODE_BYTES == 6

VARIABLES wire,       \* bytes the keyboard has yet to send
          port,       \* the byte in the 8042's output buffer
          full,       \* and whether it is new: IRQ 1 is raised
          irq0,       \* the timer has raised IRQ 0
          isr,        \* the in-service bits of both PICs
          phase,      \* "idle", or "reading" while the handler reads the port
          state,      \* KeyboardDriverState, a local of on_interrupt()
          i,          \* its loop counter
          key_state_, \* the keys that are pressed
          events_,    \* the queue of events
          reader,     \* where get_event() is: check, found, halting, asleep
          event,      \* its event, <<>> if none
          typed,      \* history: the key strokes
          returned,   \* history: what get_event() returned
          split,      \* history: a prefix and its code were read by two interrupts
          dropped     \* history: an event was dropped

hardware == <<wire, port, full, irq0>>
handler == <<phase, state, i>>
consumer == <<reader, event, returned>>
history == <<typed, split, dropped>>
vars == <<hardware, isr, handler, key_state_, events_, consumer, history>>

-----------------------------------------------------------------------------
(***************************************************************************)
(* The hardware.  A stroke is sent as its code, after 0xE0 for an escaped  *)
(* key.  A code the tables do not hold is "unknown".                       *)
(***************************************************************************)
PRESSED == "pressed"
RELEASED == "released"

\* 0xE0, which is no key's own.
PREFIX == <<"E0", "prefix">>

Scancodes(key, s) ==
    IF key \in ESCAPED THEN <<PREFIX, <<CODE[key], s>>>> ELSE <<<<CODE[key], s>>>>

Type ==
    /\ Len(typed) < MAX_TYPED
    /\ \E key \in KEYS :
        LET s == IF \E n \in DOMAIN typed :
                        /\ typed[n] = <<key, PRESSED>>
                        /\ \A m \in n .. Len(typed) : typed[m] # <<key, RELEASED>>
                 THEN RELEASED ELSE PRESSED
        IN  /\ wire' = wire \o Scancodes(key, s)
            /\ typed' = Append(typed, <<key, s>>)
    /\ UNCHANGED <<port, full, irq0, isr, handler, key_state_, events_, consumer, split, dropped>>

Arrive ==
    /\ wire # <<>> /\ ~full
    /\ port' = Head(wire) /\ wire' = Tail(wire) /\ full' = TRUE
    /\ UNCHANGED <<irq0, isr, handler, key_state_, events_, consumer, history>>

Tick ==
    /\ ~irq0 /\ irq0' = TRUE
    /\ UNCHANGED <<wire, port, full, isr, handler, key_state_, events_, consumer, history>>

\* An end-of-interrupt command retires the in-service line of highest
\* priority of a controller: 0 to 7 on the master, 8 to 15 on the slave.
EndOfInterrupt(lines, inService) ==
    LET mine == inService \cap lines
    IN  IF mine = {} THEN inService
        ELSE inService \ {CHOOSE l \in mine : \A m \in mine : l <= m}

\* A controller raises a line unless one of the same or a higher priority is
\* in service on the master; the slave is its line 2.
CanRaise(line) ==
    LET priority(l) == IF l >= 8 THEN 2 ELSE l
    IN  \A l \in isr : priority(l) > priority(line)

Serviced(line) == isr \cup (IF line >= 8 THEN {2, line} ELSE {line})

-----------------------------------------------------------------------------
(***************************************************************************)
(* The interrupt controller and the dispatcher.  Interrupts are masked by  *)
(* the dispatcher's guard until the handler returns.                       *)
(***************************************************************************)

\* ProgrammableInterruptController::clear(): the irq is interrupt_number - 0x20.
PIC_clear(irq, inService) ==
    IF irq = 7 /\ 7 \notin inService THEN [spurious |-> TRUE, isr |-> inService]
    ELSE [spurious |-> FALSE,
          isr |-> EndOfInterrupt(0 .. 7,
                     IF irq >= 8 THEN EndOfInterrupt(8 .. 15, inService) ELSE inService)]

\* An interrupt ends the hlt of a sleeping reader.
Woken(r) == CASE r = "asleep" -> "woken" [] OTHER -> r

\* dispatch() of the timer's interrupt.
TimerInterrupt ==
    /\ phase = "idle" /\ irq0 /\ CanRaise(0)
    /\ irq0' = FALSE
    /\ isr' = PIC_clear(0, Serviced(0)).isr
    /\ reader' = Woken(reader)
    /\ UNCHANGED <<wire, port, full, handler, key_state_, events_, event, returned, history>>

\* dispatch() of a line without a handler: a disk on the slave, or IRQ 7,
\* which is spurious when it is not in service.
OtherInterrupt ==
    \E line \in {7, 14} : \E spurious \in BOOLEAN :
        /\ phase = "idle" /\ CanRaise(line)
        /\ spurious => line = 7
        /\ isr' = PIC_clear(line, IF spurious THEN isr ELSE Serviced(line)).isr
        /\ reader' = Woken(reader)
        /\ UNCHANGED <<hardware, handler, key_state_, events_, event, returned, history>>

\* dispatch() of the keyboard's interrupt, up to the first read.
KeyboardInterrupt ==
    /\ phase = "idle" /\ full /\ CanRaise(1)
    /\ isr' = PIC_clear(1, Serviced(1)).isr
    /\ phase' = "reading" /\ state' = "IDLE" /\ i' = 0
    /\ UNCHANGED <<hardware, key_state_, events_, consumer, history>>

-----------------------------------------------------------------------------
(***************************************************************************)
(* The driver.                                                             *)
(***************************************************************************)

\* The key whose code was read: the tables for escaped and plain codes.
Decoded(escape, byte) ==
    {key \in KEYS : CODE[key] = byte[1] /\ CODE[key] # "unknown" /\ (key \in ESCAPED) = escape}

KeyState(key, s) ==
    IF s = PRESSED THEN key_state_ \cup {key} ELSE key_state_ \ {key}

\* A faulty on_interrupt(): the shift keys are looked at before the stroke.
Event_Mutant(key, s) ==
    [key |-> key, state |-> s, upper |-> key_state_ \cap SHIFTS # {}]

\* The event of a stroke, with the character of the table that shift selects.
Event(key, s) ==
    [key |-> key, state |-> s, upper |-> KeyState(key, s) \cap SHIFTS # {}]

\* The handler returns.  An escape it had seen is forgotten.
ReturnFromInterrupt ==
    /\ phase' = "idle"
    /\ reader' = Woken(reader)
    /\ UNCHANGED <<event, returned>>

\* step_state_machine() reads the prefix.
ReadEscape ==
    /\ phase = "reading" /\ port = PREFIX
    /\ full' = FALSE
    /\ state' = "PROCESSING_ESCAPE_CODE"
    /\ i' = i + 1
    /\ IF i + 1 < MAX_SCANCODE_BYTES
       THEN UNCHANGED <<phase, consumer, split>>
       ELSE ReturnFromInterrupt /\ split' = TRUE
    /\ UNCHANGED <<wire, port, irq0, isr, key_state_, events_, typed, dropped>>

\* step_state_machine() finds a key, and on_interrupt() queues the event;
\* RingBuffer::push_back() does nothing when the queue is full.
ReadKey ==
    /\ phase = "reading" /\ port # PREFIX
    /\ \E key \in Decoded(state = "PROCESSING_ESCAPE_CODE", port) :
        /\ key_state_' = KeyState(key, port[2])
        /\ IF Len(events_) < CAPACITY
           THEN events_' = Append(events_, Event(key, port[2])) /\ UNCHANGED dropped
           ELSE dropped' = TRUE /\ UNCHANGED events_
    /\ full' = FALSE
    /\ ReturnFromInterrupt
    /\ UNCHANGED <<wire, port, irq0, isr, state, i, typed, split>>

\* step_state_machine() does not know the code: clear_input() reads the port
\* six times, and discards the bytes that arrive meanwhile.
ReadUnknown ==
    /\ phase = "reading" /\ port # PREFIX
    /\ Decoded(state = "PROCESSING_ESCAPE_CODE", port) = {}
    /\ \E n \in 0 .. (IF Len(wire) < MAX_SCANCODE_BYTES THEN Len(wire) ELSE MAX_SCANCODE_BYTES) :
        /\ wire' = SubSeq(wire, n + 1, Len(wire))
        /\ port' = IF n = 0 THEN port ELSE wire[n]
        /\ split' = (split \/ n > 0 \/ state # "IDLE")
    /\ full' = FALSE
    /\ i' = i + 1
    /\ IF i + 1 < MAX_SCANCODE_BYTES THEN UNCHANGED <<phase, consumer>> ELSE ReturnFromInterrupt
    /\ UNCHANGED <<irq0, isr, state, key_state_, events_, typed, dropped>>

\* get_event(): the guarded look at the queue.
CheckQueue ==
    /\ phase = "idle" /\ reader = "check"
    /\ IF events_ = <<>> THEN event' = <<>> /\ UNCHANGED events_
       ELSE event' = <<Head(events_)>> /\ events_' = Tail(events_)
    /\ reader' = "halting"
    /\ UNCHANGED <<hardware, isr, handler, key_state_, returned, history>>

\* hlt(), also when there is an event.
Hlt ==
    /\ phase = "idle" /\ reader = "halting"
    /\ reader' = "asleep"
    /\ UNCHANGED <<hardware, isr, handler, key_state_, events_, event, returned, history>>

\* A faulty get_event(): it does not look again.
AfterHlt_Mutant ==
    /\ phase = "idle" /\ reader = "woken"
    /\ reader' = IF event = <<>> THEN "halting" ELSE "check"
    /\ returned' = returned \o event
    /\ event' = <<>>
    /\ UNCHANGED <<hardware, isr, handler, key_state_, events_, history>>

\* get_event() returns, or looks again.
AfterHlt ==
    /\ phase = "idle" /\ reader = "woken"
    /\ reader' = "check"
    /\ returned' = returned \o event
    /\ event' = <<>>
    /\ UNCHANGED <<hardware, isr, handler, key_state_, events_, history>>

-----------------------------------------------------------------------------
Init ==
    /\ wire = <<>> /\ port = PREFIX /\ full = FALSE /\ irq0 = FALSE /\ isr = {}
    /\ phase = "idle" /\ state = "IDLE" /\ i = 0
    /\ key_state_ = {} /\ events_ = <<>>
    /\ reader = "check" /\ event = <<>> /\ returned = <<>>
    /\ typed = <<>> /\ split = FALSE /\ dropped = FALSE

Driver == KeyboardInterrupt \/ ReadEscape \/ ReadKey \/ ReadUnknown
GetEvent == CheckQueue \/ Hlt \/ AfterHlt
Next == Type \/ Arrive \/ Tick \/ TimerInterrupt \/ OtherInterrupt \/ Driver \/ GetEvent

\* The timer ticks for ever, the controllers raise what is pending, and the
\* processor executes the reader and the handlers.
Spec ==
    /\ Init /\ [][Next]_vars
    /\ WF_vars(Tick) /\ SF_vars(TimerInterrupt) /\ WF_vars(Driver) /\ WF_vars(GetEvent)

-----------------------------------------------------------------------------
\* What the strokes typed mean: each with the case of the shift keys then held.
Meant(n) ==
    LET held == {key \in SHIFTS : \E m \in 1 .. n :
                    /\ typed[m] = <<key, PRESSED>>
                    /\ \A l \in m .. n : typed[l] # <<key, RELEASED>>}
    IN  [key |-> typed[n][1], state |-> typed[n][2], upper |-> held # {}]

\* The reader is given the strokes in the order they were typed, each once and
\* with the right key, state and case, unless the queue overflowed or a prefix
\* and its code were read by two interrupts (or discarded with an unknown code):
\* however late the bytes arrive between the handler's reads of the port.
KeysAsTyped ==
    ~split /\ ~dropped =>
        LET known == SelectSeq([n \in DOMAIN typed |-> Meant(n)], LAMBDA e : CODE[e.key] # "unknown")
            seen == returned \o event \o events_
        IN  IsPrefix(seen, known)

\* Between interrupts no line is left in service on either controller, so none
\* of a lower priority is shut out: also after a spurious IRQ 7, which must not
\* be acknowledged, and after a line of the slave, which needs two commands.
NothingLeftInService == phase = "idle" => isr = {}

\* Every event that is queued is returned to the reader, although get_event()
\* may fall asleep after the interrupt that queued it: the next tick wakes it.
EveryEventReturned ==
    \A n \in 1 .. MAX_TYPED :
        Len(returned \o event \o events_) = n ~> Len(returned) >= n
=============================================================================
