--------------------------- MODULE PITTimerProofs ---------------------------
(***************************************************************************)
(* The clock keeps time for every frequency, rate and leap interval.       *)
(***************************************************************************)
EXTENDS PITTimer, TLAPS

\* What leap_counter_ is after n interrupts.
LeapCounter(n) ==
    IF start.leap > LEAP_INTERVAL
    THEN (IF n = 0 THEN start.leap ELSE (n - 1) % (LEAP_INTERVAL + 1))
    ELSE (start.leap + n) % (LEAP_INTERVAL + 1)

ClockInv ==
    /\ clock_ticks_ \in Nat /\ clock_seconds_ \in Nat /\ leap_counter_ \in Nat /\ fires \in Nat
    /\ start \in [ticks : Nat, seconds : Nat, leap : Nat]
    /\ leap_counter_ = LeapCounter(fires)
    /\ ClockKeepsTime

-----------------------------------------------------------------------------
\* Counting on by one: the remainder goes up, or the quotient does.
LEMMA DivModStep ==
    ASSUME NEW d \in Nat \ {0}, NEW n \in Nat
    PROVE  /\ n % d \in 0 .. d - 1 /\ n \div d \in Nat
           /\ (n % d) + 1 < d => (n + 1) % d = (n % d) + 1 /\ (n + 1) \div d = n \div d
           /\ (n % d) + 1 = d => (n + 1) % d = 0 /\ (n + 1) \div d = (n \div d) + 1
  OBVIOUS

\* What a step of the leap counter does to the leaps.
LeapsOn(interval, n) ==
    LET d == interval + 1
        leap == (n % d) + 1 > interval
    IN  /\ (IF leap THEN 0 ELSE (n % d) + 1) \in Nat
        /\ (IF leap THEN 0 ELSE (n % d) + 1) = (n + 1) % d
        /\ n \div d \in Nat
        /\ (n + 1) \div d = (n \div d) + (IF leap THEN 1 ELSE 0)

LEMMA LeapArithmetic ==
    ASSUME NEW interval \in Nat, NEW n \in Nat
    PROVE  LeapsOn(interval, n)
<1> DEFINE d == interval + 1
           c == n % d
           q == n \div d
           c2 == (n + 1) % d
           q2 == (n + 1) \div d
<1>1. d \in Nat \ {0}
  OBVIOUS
<1> HIDE DEF d
<1>2. /\ c \in 0 .. d - 1 /\ q \in Nat
      /\ c + 1 < d => c2 = c + 1 /\ q2 = q
      /\ c + 1 = d => c2 = 0 /\ q2 = q + 1
  BY <1>1, DivModStep, Zenon
<1> HIDE DEF c, q, c2, q2
<1>3. /\ (IF c + 1 > interval THEN 0 ELSE c + 1) \in Nat
      /\ (IF c + 1 > interval THEN 0 ELSE c + 1) = c2
      /\ q \in Nat /\ q2 = q + (IF c + 1 > interval THEN 1 ELSE 0)
  BY <1>1, <1>2 DEF d
<1> QED
  BY <1>3, Zenon DEF d, c, q, c2, q2, LeapsOn

\* A number is its quotient and its remainder.
LEMMA DivModParts ==
    ASSUME NEW d \in Nat \ {0}, NEW n \in Nat
    PROVE  n \div d \in Nat /\ n % d \in 0 .. d - 1 /\ n = d * (n \div d) + (n % d)
  OBVIOUS

\* The leap counter and the number of leaps follow from the interrupts so far.
LEMMA LeapStep ==
    ASSUME ClockInv, on_interrupt
    PROVE  /\ leap_counter_' \in Nat /\ leap_counter_' = LeapCounter(fires)'
           /\ Leaps(fires) \in Nat
           /\ Leaps(fires)' = Leaps(fires) + (IF leap_counter_ + 1 > LEAP_INTERVAL THEN 1 ELSE 0)
<1> DEFINE d == LEAP_INTERVAL + 1
<1>1. /\ d \in Nat \ {0} /\ fires \in Nat /\ start.leap \in Nat /\ leap_counter_ \in Nat
      /\ LEAP_INTERVAL \in Nat /\ leap_counter_ = LeapCounter(fires)
      /\ fires' = fires + 1 /\ start' = start
      /\ leap_counter_' = IF leap_counter_ + 1 > LEAP_INTERVAL THEN 0 ELSE leap_counter_ + 1
  BY Unsigned DEF ClockInv, on_interrupt
<1>2. CASE start.leap > LEAP_INTERVAL /\ fires = 0
  <2>1. 0 % d = 0 /\ 0 \div d = 0
    BY <1>1
  <2> QED
    BY <1>1, <1>2, <2>1 DEF LeapCounter, Leaps
<1>3. CASE start.leap > LEAP_INTERVAL /\ fires # 0
  <2> DEFINE n == fires - 1
             q == n \div d
             q2 == (n + 1) \div d
             c2 == (n + 1) % d
  <2>1. n \in Nat /\ fires = n + 1
    BY <1>1, <1>3
  <2>2. leap_counter_ = n % d /\ Leaps(fires) = 1 + q
    BY <1>1, <1>3, <2>1 DEF LeapCounter, Leaps
  <2>3. LeapCounter(fires)' = c2 /\ Leaps(fires)' = 1 + q2
    BY <1>1, <1>3, <2>1 DEF LeapCounter, Leaps
  <2>4. LeapsOn(LEAP_INTERVAL, n)
    BY <1>1, <2>1, LeapArithmetic, Zenon
  <2>5. /\ leap_counter_' \in Nat /\ leap_counter_' = c2 /\ q \in Nat
        /\ q2 = q + (IF leap_counter_ + 1 > LEAP_INTERVAL THEN 1 ELSE 0)
    BY <1>1, <2>2, <2>4, Zenon DEF LeapsOn
  <2> HIDE DEF q, q2, c2
  <2> QED
    BY <2>2, <2>3, <2>5
<1>4. CASE ~(start.leap > LEAP_INTERVAL)
  <2> DEFINE n == start.leap + fires
             q == n \div d
             q2 == (n + 1) \div d
             c2 == (n + 1) % d
  <2>1. n \in Nat /\ start.leap + (fires + 1) = n + 1
    BY <1>1
  <2>2. leap_counter_ = n % d /\ Leaps(fires) = q
    BY <1>1, <1>4 DEF LeapCounter, Leaps
  <2>3. LeapCounter(fires)' = c2 /\ Leaps(fires)' = q2
    BY <1>1, <1>4, <2>1 DEF LeapCounter, Leaps
  <2>4. LeapsOn(LEAP_INTERVAL, n)
    BY <1>1, <2>1, LeapArithmetic, Zenon
  <2>5. /\ leap_counter_' \in Nat /\ leap_counter_' = c2 /\ q \in Nat
        /\ q2 = q + (IF leap_counter_ + 1 > LEAP_INTERVAL THEN 1 ELSE 0)
    BY <1>1, <2>2, <2>4, Zenon DEF LeapsOn
  <2> HIDE DEF q, q2, c2
  <2> QED
    BY <2>2, <2>3, <2>5
<1> QED
  BY <1>2, <1>3, <1>4

\* Turning whole seconds of ticks into seconds keeps their sum.
Low(ticks, d) == IF ticks > d THEN ticks % d ELSE ticks
High(seconds, ticks, d) == seconds + (IF ticks > d THEN ticks \div d ELSE 0)
Carried(low, high, ticks, d, seconds) ==
    low \in 0 .. d /\ high \in Nat /\ low + d * high = ticks + d * seconds

LEMMA CarryStep ==
    ASSUME NEW ticks \in Nat, NEW d \in Nat \ {0}, NEW seconds \in Nat
    PROVE  Carried(Low(ticks, d), High(seconds, ticks, d), ticks, d, seconds)
<1> DEFINE q == ticks \div d
           r == ticks % d
<1>1. q \in Nat /\ r \in 0 .. d - 1 /\ ticks = d * q + r
  BY DivModParts
<1>2. CASE ticks > d
  <2>1. Low(ticks, d) = r /\ High(seconds, ticks, d) = seconds + q
    BY <1>2 DEF Low, High
  <2> HIDE DEF q, r
  <2>2. d * (seconds + q) = d * seconds + d * q /\ d * q \in Nat /\ d * seconds \in Nat
    BY <1>1
  <2> QED
    BY <1>1, <2>1, <2>2 DEF Carried
<1>3. CASE ~(ticks > d)
  <2>1. Low(ticks, d) = ticks /\ High(seconds, ticks, d) = seconds
    BY <1>3 DEF Low, High
  <2> QED
    BY <1>3, <2>1 DEF Carried
<1> QED
  BY <1>2, <1>3

Distributes(a, b, c) == a * (b - c) = a * b - a * c /\ a * b \in Nat /\ a * c \in Nat

LEMMA Distribute ==
    ASSUME NEW a \in Nat, NEW b \in Nat, NEW c \in Nat
    PROVE  Distributes(a, b, c)
  BY DEF Distributes

\* The sums on both sides of ClockKeepsTime grow by the same.
Balanced(before, after, zero, shown, next, first, rated, leapt, rate, extra) ==
    /\ shown + (before - zero) = first + rated + leapt
    /\ next + after = shown + extra + rate + before
    => next + (after - zero) = first + (rated + rate) + (leapt + extra)

LEMMA Balance ==
    ASSUME NEW before \in Int, NEW after \in Int, NEW zero \in Int, NEW shown \in Int,
           NEW next \in Int, NEW first \in Int, NEW rated \in Int, NEW leapt \in Int,
           NEW rate \in Int, NEW extra \in Int
    PROVE  Balanced(before, after, zero, shown, next, first, rated, leapt, rate, extra)
  BY DEF Balanced

LEMMA ClockStep ==
    ASSUME ClockInv, on_interrupt
    PROVE  ClockInv'
<1> DEFINE leap == leap_counter_ + 1 > LEAP_INTERVAL
           extra == IF leap THEN LEAP_TICKS ELSE 0
           ticks == clock_ticks_ + extra + TIMER_RATE
           f == CLOCK_FREQUENCY
<1>1. /\ fires' = fires + 1 /\ start' = start
      /\ clock_ticks_' = IF ticks > f THEN ticks % f ELSE ticks
      /\ clock_seconds_' = clock_seconds_ + (IF ticks > f THEN ticks \div f ELSE 0)
  BY DEF on_interrupt
<1>2. /\ leap_counter_' \in Nat /\ leap_counter_' = LeapCounter(fires)'
      /\ Leaps(fires) \in Nat /\ Leaps(fires)' = Leaps(fires) + (IF leap THEN 1 ELSE 0)
  BY LeapStep
<1>3. /\ ticks \in Nat /\ f \in Nat \ {0} /\ clock_seconds_ \in Nat /\ fires \in Nat
      /\ start \in [ticks : Nat, seconds : Nat, leap : Nat]
      /\ start.seconds \in Nat /\ start.ticks \in Nat /\ TIMER_RATE \in Nat /\ LEAP_TICKS \in Nat
      /\ clock_ticks_ \in Nat /\ extra \in Nat
  BY Unsigned DEF ClockInv
<1> HIDE DEF f, ticks
<1>4. /\ clock_ticks_' \in 0 .. f /\ clock_seconds_' \in Nat
      /\ clock_ticks_' + f * clock_seconds_' = ticks + f * clock_seconds_
  <2>1. Carried(Low(ticks, f), High(clock_seconds_, ticks, f), ticks, f, clock_seconds_)
    BY <1>3, CarryStep, Zenon
  <2>2. clock_ticks_' = Low(ticks, f) /\ clock_seconds_' = High(clock_seconds_, ticks, f)
    BY <1>1, Zenon DEF Low, High
  <2> QED
    BY <2>1, <2>2, Zenon DEF Carried
<1>5. ClockKeepsTime'
  <2> DEFINE before == f * clock_seconds_
             after == f * clock_seconds_'
             zero == f * start.seconds
             rated == TIMER_RATE * fires
             leapt == LEAP_TICKS * Leaps(fires)
  <2>1. /\ f * (clock_seconds_ - start.seconds) = before - zero
        /\ f * (clock_seconds_' - start.seconds) = after - zero
        /\ before \in Nat /\ after \in Nat /\ zero \in Nat
    <3> f \in Nat
      BY <1>3
    <3>1. Distributes(f, clock_seconds_, start.seconds) /\ Distributes(f, clock_seconds_', start.seconds)
      BY <1>3, <1>4, Distribute, Zenon
    <3> QED
      BY <3>1, Zenon DEF Distributes
  <2>2. TIMER_RATE * (fires + 1) = rated + TIMER_RATE /\ rated \in Nat
    BY <1>3
  <2>3. LEAP_TICKS * Leaps(fires)' = leapt + extra /\ leapt \in Nat
    BY <1>2, <1>3
  <2>4. clock_ticks_ + (before - zero) = start.ticks + rated + leapt
    BY <2>1 DEF ClockInv, ClockKeepsTime, f
  <2>5. clock_ticks_' + after = clock_ticks_ + extra + TIMER_RATE + before
    BY <1>4 DEF ticks
  <2> HIDE DEF before, after, zero, rated, leapt, extra
  <2>6. clock_ticks_' + (after - zero) = start.ticks + (rated + TIMER_RATE) + (leapt + extra)
    <3>1. /\ before \in Int /\ after \in Int /\ zero \in Int /\ clock_ticks_ \in Int
          /\ clock_ticks_' \in Int /\ start.ticks \in Int /\ rated \in Int /\ leapt \in Int
          /\ TIMER_RATE \in Int /\ extra \in Int
      BY <1>3, <1>4, <2>1, <2>2, <2>3
    <3>2. Balanced(before, after, zero, clock_ticks_, clock_ticks_', start.ticks, rated, leapt,
                   TIMER_RATE, extra)
      BY <3>1, Balance, Zenon
    <3> QED
      BY <3>2, <2>4, <2>5, Zenon DEF Balanced
  <2>7. clock_ticks_' + f * (clock_seconds_' - start.seconds)
          = start.ticks + TIMER_RATE * (fires + 1) + LEAP_TICKS * Leaps(fires)'
    BY <2>1, <2>2, <2>3, <2>6
  <2> QED
    BY <1>1, <1>4, <2>7 DEF ClockKeepsTime, f
<1> QED
  BY <1>1, <1>2, <1>3, <1>4, <1>5 DEF ClockInv

\* Whatever the frequency, the rate, the leap interval and what the counters
\* start with, on_interrupt() neither loses nor gains a tick, and shows no more
\* than a second of them.
THEOREM ClockIsRight ==
    ClockSpec => []ClockKeepsTime
<1>1. ASSUME ClockInit
      PROVE  ClockInv
  <2>1. /\ clock_ticks_ \in Nat /\ clock_seconds_ \in Nat /\ leap_counter_ \in Nat /\ fires = 0
        /\ start.ticks = clock_ticks_ /\ start.seconds = clock_seconds_ /\ start.leap = leap_counter_
        /\ start \in [ticks : Nat, seconds : Nat, leap : Nat]
        /\ CLOCK_FREQUENCY \in Nat /\ TIMER_RATE \in Nat /\ LEAP_TICKS \in Nat /\ LEAP_INTERVAL \in Nat
    BY <1>1, Unsigned DEF ClockInit
  <2>2. leap_counter_ <= LEAP_INTERVAL =>
          leap_counter_ % (LEAP_INTERVAL + 1) = leap_counter_ /\ leap_counter_ \div (LEAP_INTERVAL + 1) = 0
    BY <2>1
  <2>3. leap_counter_ = LeapCounter(fires) /\ Leaps(fires) = 0
    BY <2>1, <2>2 DEF LeapCounter, Leaps
  <2>4. ClockKeepsTime
    BY <2>1, <2>3 DEF ClockKeepsTime
  <2> QED
    BY <2>1, <2>3, <2>4 DEF ClockInv
<1>2. ASSUME ClockInv, [ClockNext]_clockVars
      PROVE  ClockInv'
  <2>1. CASE on_interrupt
    BY <1>2, <2>1, ClockStep
  <2>2. CASE UNCHANGED clockVars
    BY <1>2, <2>2 DEF clockVars, ClockInv, ClockKeepsTime, Leaps, LeapCounter
  <2> QED
    BY <1>2, <2>1, <2>2 DEF ClockNext
<1>3. ClockInv => ClockKeepsTime
  BY DEF ClockInv
<1> QED
  BY <1>1, <1>2, <1>3, PTL DEF ClockSpec
=============================================================================
