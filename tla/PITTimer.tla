------------------------------ MODULE PITTimer ------------------------------
(***************************************************************************)
(* The clock of PITTimerDevice: ticks of the timer's crystal and seconds,  *)
(* advanced by every interrupt, with a few leap ticks after every          *)
(* interval.  The constructor does not initialise the three counters: they *)
(* start with what the heap held.                                          *)
(***************************************************************************)
EXTENDS Integers

CONSTANTS CLOCK_FREQUENCY, TIMER_RATE, LEAP_INTERVAL, LEAP_TICKS,
          START_TICKS,   \* the values clock_ticks_ may start with
          START_LEAPS,   \* the values leap_counter_ may start with
          MAX_FIRES      \* a bound on the interrupts

\* The constants are unsigned in the code, the frequency is not zero, and the
\* sums stay below the width of unsigned.
ASSUME Unsigned ==
    /\ CLOCK_FREQUENCY \in Nat \ {0}
    /\ TIMER_RATE \in Nat /\ LEAP_INTERVAL \in Nat /\ LEAP_TICKS \in Nat
    /\ START_TICKS \subseteq Nat /\ START_LEAPS \subseteq Nat
    /\ MAX_FIRES \in Nat

VARIABLES clock_ticks_, clock_seconds_, leap_counter_,
          start,         \* history: the values of the counters at first
          fires          \* history: the interrupts so far

clockVars == <<clock_ticks_, clock_seconds_, leap_counter_, start, fires>>

ClockInit ==
    /\ clock_ticks_ \in START_TICKS
    /\ clock_seconds_ \in {0, 7}
    /\ leap_counter_ \in START_LEAPS
    /\ start = [ticks |-> clock_ticks_, seconds |-> clock_seconds_, leap |-> leap_counter_]
    /\ fires = 0

\* A faulty handler: a leap ends the interrupt.
on_interrupt_Mutant ==
    /\ fires < MAX_FIRES /\ fires' = fires + 1
    /\ LET leap == leap_counter_ + 1 > LEAP_INTERVAL
           ticks == clock_ticks_ + (IF leap THEN LEAP_TICKS ELSE TIMER_RATE)
       IN  /\ leap_counter_' = IF leap THEN 0 ELSE leap_counter_ + 1
           /\ clock_ticks_' = IF ticks > CLOCK_FREQUENCY THEN ticks % CLOCK_FREQUENCY ELSE ticks
           /\ clock_seconds_' = clock_seconds_ + (IF ticks > CLOCK_FREQUENCY THEN ticks \div CLOCK_FREQUENCY ELSE 0)
    /\ UNCHANGED start

on_interrupt ==
    /\ fires < MAX_FIRES /\ fires' = fires + 1
    /\ LET leap == leap_counter_ + 1 > LEAP_INTERVAL
           ticks == clock_ticks_ + (IF leap THEN LEAP_TICKS ELSE 0) + TIMER_RATE
       IN  /\ leap_counter_' = IF leap THEN 0 ELSE leap_counter_ + 1
           /\ clock_ticks_' = IF ticks > CLOCK_FREQUENCY THEN ticks % CLOCK_FREQUENCY ELSE ticks
           /\ clock_seconds_' = clock_seconds_ + (IF ticks > CLOCK_FREQUENCY THEN ticks \div CLOCK_FREQUENCY ELSE 0)
    /\ UNCHANGED start

ClockNext == on_interrupt
ClockSpec == ClockInit /\ [][ClockNext]_clockVars

\* The leaps after n interrupts: one after every LEAP_INTERVAL + 1 of them, the
\* first as soon as the uninitialised counter allows.
Leaps(n) ==
    IF start.leap > LEAP_INTERVAL
    THEN (IF n = 0 THEN 0 ELSE 1 + (n - 1) \div (LEAP_INTERVAL + 1))
    ELSE (start.leap + n) \div (LEAP_INTERVAL + 1)

\* The clock neither loses nor gains a tick, wherever its uninitialised
\* counters start: it is ahead of them by the rate times the interrupts and the
\* leap ticks, and the ticks shown never exceed a second.
ClockKeepsTime ==
    /\ clock_ticks_ + CLOCK_FREQUENCY * (clock_seconds_ - start.seconds)
         = start.ticks + TIMER_RATE * fires + LEAP_TICKS * Leaps(fires)
    /\ fires > 0 => clock_ticks_ <= CLOCK_FREQUENCY
=============================================================================
