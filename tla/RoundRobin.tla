----------------------------- MODULE RoundRobin -----------------------------
(***************************************************************************)
(* What FlapjackOS promises its threads: one thread runs, the others wait  *)
(* in a single line, and the line only ever moves forward.  A thread that  *)
(* gives up the processor goes to the end of the line.  A new thread may   *)
(* be let in anywhere (the implementation lets it in behind the threads    *)
(* that have not run in this round and ahead of those that have).          *)
(*                                                                         *)
(* Scheduler and PreemptiveKernel are shown to implement this module.      *)
(***************************************************************************)
EXTENDS Naturals, Sequences

CONSTANTS Threads,   \* every thread there may be
          NoThread   \* nobody: scheduling has not begun

VARIABLES running,   \* the thread that has the processor
          waiting    \* the line

rrVars == <<running, waiting>>

\* Line s with t let in just after its i-th member.
LetIn(s, i, t) == SubSeq(s, 1, i) \o <<t>> \o SubSeq(s, i + 1, Len(s))

InLine == {waiting[i] : i \in DOMAIN waiting}

RRInit ==
    /\ running = NoThread
    /\ waiting = << >>

\* Scheduling begins with the thread that is already executing.
Start(t) ==
    /\ running = NoThread
    /\ t \notin InLine
    /\ running' = t
    /\ UNCHANGED waiting

\* A new thread enters the line just after its i-th member.
Admit(t, i) ==
    /\ t \notin InLine
    /\ t # running
    /\ waiting' = LetIn(waiting, i, t)
    /\ UNCHANGED running

\* The running thread goes to the end of the line, the first in line runs.
Rotate ==
    /\ running # NoThread
    /\ waiting # << >>
    /\ running' = Head(waiting)
    /\ waiting' = Append(Tail(waiting), running)

\* The running thread is gone, the first in line runs.
Leave ==
    /\ running # NoThread
    /\ waiting # << >>
    /\ running' = Head(waiting)
    /\ waiting' = Tail(waiting)

RRNext ==
    \/ \E t \in Threads : Start(t)
    \/ \E t \in Threads, i \in 0 .. Len(waiting) : Admit(t, i)
    \/ Rotate
    \/ Leave

RRSpec == RRInit /\ [][RRNext]_rrVars

=============================================================================
