----------------------- MODULE KernelStackProofs -----------------------
(***************************************************************************)
(* Threads and their stacks in PreemptiveKernel, for any finite set of     *)
(* tasks and any bound on the depth of the stacks: which frames can lie on *)
(* which, and that every thread is in one place.                           *)
(***************************************************************************)
EXTENDS PreemptiveKernel, SchedulerProofs

-----------------------------------------------------------------------------
(***************************************************************************)
(* The inductive invariant.                                                *)
(***************************************************************************)
Frames == [proc : Procs, at : Points]

\* The points a frame of each procedure can be at.
Legal(f) ==
    /\ f.proc = "code" <=> f.at = "run"
    /\ f.proc = "start" => f.at \in {"susp", "clear", "sub", "sti"}
    /\ f.at = "susp" => f.proc \in {"start", "yield"}
    /\ f.at \in {"check", "set"} => f.proc \in SchedulerProcs
    /\ f.at = "clear" => f.proc \in SchedulerProcs \cup {"start"}
    /\ f.at = "iret" => f.proc = "isr"

\* Frame g can be just below frame f: it called f, or was interrupted by it.
MayBeBelow(g, f) ==
    /\ f.proc \notin {"code", "start"}
    /\ g.at # "susp"
    /\ f.proc = "guard" => g.at = "run" \/ (g.proc \in {"guard", "isr"} /\ g.at = "body")
    /\ f.proc = "yield" => g.at = "run" \/ (g.proc = "isr" /\ g.at = "sub")
    /\ f.proc \in {"add", "begin", "vanish"} => g.at = "run"

\* Which threads call what.
MayBeOf(t, f) ==
    /\ f.proc \in {"add", "begin"} => t = InitThread
    /\ f.proc = "vanish" => t \in Tasks

WellFormed(t, s) ==
    /\ s # << >> => s[1].proc \in {"code", "start"}
    /\ \A i \in 1 .. Len(s) : Legal(s[i]) /\ MayBeOf(t, s[i])
    /\ \A i \in 2 .. Len(s) : MayBeBelow(s[i - 1], s[i])

Shape == \A t \in Threads : WellFormed(t, stack[t])

\* A begin() on its way to its body is the first one.
BeforeBody == {"add", "cli", "check", "set", "body"}
BeginOnce(s) ==
    \A i \in 1 .. Len(s) :
        s[i].proc = "begin" /\ s[i].at \in BeforeBody => current_thread_ = NoThread

\* The init thread is always there, and the only one that runs until begin().
InitStays ==
    /\ stack[InitThread] # << >>
    /\ current_thread_ = NoThread => cpu = InitThread
    /\ BeginOnce(stack[InitThread])

\* The invariant.
StackTypeOK ==
    /\ SchedTypeOK
    /\ cpu \in Threads
    /\ stack \in [Threads -> Seq(Frames)]
    /\ \A t \in Threads : Len(stack[t]) <= MaxFrames

StackInv == StackTypeOK /\ Shape /\ ThreadPlaces /\ InitStays

-----------------------------------------------------------------------------
(***************************************************************************)
(* Stacks, frame by frame.                                                 *)
(***************************************************************************)

\* Moving the newest frame of a stack changes its point and nothing else.
LEMMA MovedFacts ==
    ASSUME NEW s \in Seq(Frames), s # << >>, NEW at \in Points
    PROVE  /\ Moved(s, at) \in Seq(Frames)
           /\ Moved(s, at) # << >>
           /\ Len(Moved(s, at)) = Len(s)
           /\ Len(s) \in Nat /\ Len(s) >= 1 /\ s[Len(s)] \in Frames
           /\ \A i \in 1 .. Len(s) : i # Len(s) => Moved(s, at)[i] = s[i]
           /\ Moved(s, at)[Len(s)] = Frame(s[Len(s)].proc, at)
<1>1. Len(s) \in Nat /\ Len(s) >= 1 /\ DOMAIN s = 1 .. Len(s) /\ s[Len(s)] \in Frames
  BY LenProperties, EmptySeq, ElementOfSeq
<1>2. Frame(s[Len(s)].proc, at) \in Frames
  BY <1>1, Zenon DEF Frame, Frames
<1>3. /\ Moved(s, at) \in Seq(Frames)
      /\ Len(Moved(s, at)) = Len(s)
      /\ \A i \in 1 .. Len(s) : i # Len(s) => Moved(s, at)[i] = s[i]
      /\ Moved(s, at)[Len(s)] = Frame(s[Len(s)].proc, at)
  <2> DEFINE f == Frame(s[Len(s)].proc, at)
  <2>1. f \in Frames /\ Moved(s, at) = [s EXCEPT ![Len(s)] = f] /\ Len(s) \in 1 .. Len(s)
    BY <1>1, <1>2 DEF Moved
  <2> HIDE DEF f
  <2>2. /\ [s EXCEPT ![Len(s)] = f] \in Seq(Frames)
        /\ Len([s EXCEPT ![Len(s)] = f]) = Len(s)
        /\ \A j \in 1 .. Len(s) :
              [s EXCEPT ![Len(s)] = f][j] = IF j = Len(s) THEN f ELSE s[j]
    BY <2>1, ExceptSeq
  <2>3. Moved(s, at)[Len(s)] = f
    BY <2>1, <2>2, Zenon
  <2> QED
    BY <2>1, <2>2, <2>3, Zenon DEF f
<1>4. Moved(s, at) # << >>
  BY <1>1, <1>3, EmptySeq, Zenon
<1> QED
  BY <1>1, <1>3, <1>4, Zenon

\* A call or an interrupt adds one frame.
LEMMA PushedFacts ==
    ASSUME NEW s \in Seq(Frames), NEW proc \in Procs
    PROVE  /\ Pushed(s, proc) \in Seq(Frames)
           /\ Pushed(s, proc) # << >>
           /\ Len(s) \in Nat
           /\ Len(Pushed(s, proc)) = Len(s) + 1
           /\ \A i \in 1 .. Len(s) : Pushed(s, proc)[i] = s[i]
           /\ Pushed(s, proc)[Len(s) + 1] = Frame(proc, "add")
<1>1. Frame(proc, "add") \in Frames
  BY Zenon DEF Frame, Frames, Points
<1> DEFINE f == Frame(proc, "add")
<1> HIDE DEF f
<1>2. /\ Append(s, f) \in Seq(Frames)
      /\ Append(s, f) # << >>
      /\ Len(Append(s, f)) = Len(s) + 1
      /\ \A i \in 1 .. Len(s) : Append(s, f)[i] = s[i]
      /\ Append(s, f)[Len(s) + 1] = f
  BY <1>1, AppendProperties DEF f
<1> QED
  BY <1>2, LenProperties, Zenon DEF Pushed, f

\* A return removes one frame.
LEMMA PoppedFacts ==
    ASSUME NEW s \in Seq(Frames), s # << >>
    PROVE  /\ Popped(s) \in Seq(Frames)
           /\ Len(s) \in Nat /\ Len(s) >= 1
           /\ Len(Popped(s)) = Len(s) - 1
           /\ \A i \in 1 .. Len(s) - 1 : Popped(s)[i] = s[i]
<1>1. Len(s) \in Nat /\ Len(s) >= 1
  BY LenProperties, EmptySeq
<1>2. \A i \in 1 .. Len(s) - 1 : s[i] \in Frames
  BY <1>1, ElementOfSeq
<1> DEFINE n == Len(s) - 1
<1>3. n \in Int /\ Popped(s) = SubSeq(s, 1, n) /\ n >= 0
  BY <1>1 DEF Popped
<1>4. \A i \in 1 .. n : s[i] \in Frames
  BY <1>2, Zenon
<1> HIDE DEF n
<1>5. /\ SubSeq(s, 1, n) \in Seq(Frames)
      /\ Len(SubSeq(s, 1, n)) = IF 1 <= n THEN n - 1 + 1 ELSE 0
      /\ \A i \in 1 .. n - 1 + 1 : SubSeq(s, 1, n)[i] = s[1 + i - 1]
  BY <1>3, <1>4, SubSeqProperties
<1>6. Len(SubSeq(s, 1, n)) = n
  BY <1>3, <1>5
<1>7. ASSUME NEW i \in 1 .. n
      PROVE  SubSeq(s, 1, n)[i] = s[i]
  <2>1. i \in 1 .. n - 1 + 1 /\ 1 + i - 1 = i
    BY <1>3
  <2> QED
    BY <2>1, <1>5, Zenon
<1> QED
  BY <1>1, <1>3, <1>5, <1>6, <1>7, Zenon DEF n

\* Moving the newest frame to a point that is legal for it keeps a stack well
\* formed.
LEMMA MovedWellFormed ==
    ASSUME NEW t, NEW s \in Seq(Frames), s # << >>, WellFormed(t, s),
           NEW at \in Points, Legal(Frame(s[Len(s)].proc, at))
    PROVE  WellFormed(t, Moved(s, at))
<1> DEFINE r == Moved(s, at)
           n == Len(s)
           f == Frame(s[n].proc, at)
<1>1. /\ r # << >> /\ Len(r) = n /\ n \in Nat /\ n >= 1
      /\ \A i \in 1 .. n : i # n => r[i] = s[i]
      /\ r[n] = f
  BY MovedFacts, Zenon
<1>2. f.proc = s[n].proc /\ f.at = at
  BY Zenon DEF Frame
<1> HIDE DEF r, n, f
<1>3. r[1].proc \in {"code", "start"}
  BY <1>1, <1>2 DEF WellFormed, n
<1>4. \A i \in 1 .. n : Legal(r[i]) /\ MayBeOf(t, r[i])
  BY <1>1, <1>2, Zenon DEF WellFormed, n, f, MayBeOf
<1>5. ASSUME NEW i \in 2 .. n PROVE MayBeBelow(r[i - 1], r[i])
  <2>1. i - 1 \in 1 .. n /\ i - 1 # n /\ i \in 1 .. n
    BY <1>1
  <2>2. r[i - 1] = s[i - 1] /\ r[i].proc = s[i].proc
    BY <2>1, <1>1, <1>2, Zenon
  <2> QED
    BY <2>2 DEF WellFormed, MayBeBelow, n
<1> QED
  BY <1>1, <1>3, <1>4, <1>5, Zenon DEF WellFormed, r

\* So does calling or being interrupted where that may happen.
LEMMA PushedWellFormed ==
    ASSUME NEW t, NEW s \in Seq(Frames), s # << >>, WellFormed(t, s),
           NEW proc \in Procs, MayBeOf(t, Frame(proc, "add")),
           MayBeBelow(s[Len(s)], Frame(proc, "add"))
    PROVE  WellFormed(t, Pushed(s, proc))
<1> DEFINE r == Pushed(s, proc)
           n == Len(s)
           f == Frame(proc, "add")
<1>1. /\ r # << >> /\ Len(r) = n + 1 /\ n \in Nat
      /\ \A i \in 1 .. n : r[i] = s[i]
      /\ r[n + 1] = f
  BY PushedFacts, Zenon
<1>2. n >= 1
  BY <1>1, EmptySeq
<1>3. Legal(f)
  BY Zenon DEF Frame, Legal, MayBeBelow
<1> HIDE DEF r, n, f
<1>4. r[1].proc \in {"code", "start"}
  BY <1>1, <1>2 DEF WellFormed
<1>5. \A i \in 1 .. n + 1 : Legal(r[i]) /\ MayBeOf(t, r[i])
  BY <1>1, <1>2, <1>3 DEF WellFormed, n, f
<1>6. ASSUME NEW i \in 2 .. n + 1 PROVE MayBeBelow(r[i - 1], r[i])
  <2>1. CASE i = n + 1
    <3>1. i - 1 = n /\ n \in 1 .. n
      BY <2>1, <1>1, <1>2
    <3>2. r[i - 1] = s[n] /\ r[i] = f
      BY <2>1, <3>1, <1>1, Zenon
    <3> QED
      BY <3>2, Zenon DEF n, f
  <2>2. CASE i # n + 1
    <3>1. i - 1 \in 1 .. n /\ i \in 2 .. n /\ i \in 1 .. n
      BY <2>2, <1>1
    <3>2. r[i - 1] = s[i - 1] /\ r[i] = s[i]
      BY <3>1, <1>1, Zenon
    <3> QED
      BY <3>1, <3>2, Zenon DEF WellFormed, n
  <2> QED
    BY <2>1, <2>2, Zenon
<1> QED
  BY <1>1, <1>4, <1>5, <1>6, Zenon DEF WellFormed, r

\* So does returning.
LEMMA PoppedWellFormed ==
    ASSUME NEW t, NEW s \in Seq(Frames), s # << >>, WellFormed(t, s)
    PROVE  WellFormed(t, Popped(s))
<1> DEFINE r == Popped(s)
           n == Len(s)
<1>1. /\ r \in Seq(Frames) /\ Len(r) = n - 1 /\ n \in Nat /\ n >= 1
      /\ \A i \in 1 .. n - 1 : r[i] = s[i]
  BY PoppedFacts, Zenon
<1> HIDE DEF r, n
<1>2. r # << >> => r[1].proc \in {"code", "start"}
  <2> SUFFICES ASSUME r # << >> PROVE r[1].proc \in {"code", "start"}
    BY Zenon
  <2>1. Len(r) >= 1
    BY <1>1, EmptySeq, LenProperties
  <2>2. 1 \in 1 .. n - 1
    BY <2>1, <1>1
  <2> QED
    BY <2>2, <1>1, Zenon DEF WellFormed
<1>3. \A i \in 1 .. n - 1 : Legal(r[i]) /\ MayBeOf(t, r[i])
  BY <1>1 DEF WellFormed, n
<1>4. ASSUME NEW i \in 2 .. n - 1 PROVE MayBeBelow(r[i - 1], r[i])
  <2>1. i - 1 \in 1 .. n - 1 /\ i \in 1 .. n - 1 /\ i \in 2 .. n
    BY <1>1
  <2> QED
    BY <2>1, <1>1, Zenon DEF WellFormed, n
<1> QED
  BY <1>1, <1>2, <1>3, <1>4, Zenon DEF WellFormed, r

-----------------------------------------------------------------------------
(***************************************************************************)
(* Threads and stacks: steps that stay on the processor's stack.           *)
(***************************************************************************)

\* The processor's stack may become any well-formed one whose newest frame
\* is not suspended.
LEMMA StackOfCpu ==
    ASSUME StackInv, UNCHANGED <<schedVars, cpu>>,
           NEW s \in Seq(Frames), s # << >>, Len(s) <= MaxFrames,
           stack' = [stack EXCEPT ![cpu] = s],
           WellFormed(cpu, s), s[Len(s)].at # "susp",
           cpu = InitThread => BeginOnce(s)
    PROVE  StackInv'
<1> USE DEF StackInv, StackTypeOK
<1>1. /\ stack' \in [Threads -> Seq(Frames)] /\ cpu' = cpu /\ cpu \in Threads
      /\ stack'[cpu] = s /\ \A t \in Threads : t # cpu => stack'[t] = stack[t]
      /\ UNCHANGED <<Line, Queued, current_thread_, runnable_, exhausted_>>
  BY Zenon DEF schedVars, Line, Queued
<1>2. StackTypeOK'
  BY <1>1, Zenon DEF SchedTypeOK
<1>3. Shape'
  BY <1>1, Zenon DEF Shape
<1>4. ThreadPlaces'
  <2>1. {t \in Threads : stack'[t] # << >>} = {t \in Threads : stack[t] # << >>}
    BY <1>1, Zenon DEF ThreadPlaces
  <2>2. \A t \in Queued : t \in Threads /\ t # cpu
    BY Zenon DEF ThreadPlaces
  <2>3. \A t \in Queued : TopAt(t)' = "susp"
    BY <1>1, <2>2, Zenon DEF ThreadPlaces, TopAt, Top
  <2>4. TopAt(cpu)' # "susp"
    BY <1>1, Zenon DEF TopAt, Top
  <2> QED
    BY <1>1, <2>1, <2>3, <2>4, Zenon DEF ThreadPlaces
<1>5. InitStays'
  <2>1. InitThread \in Threads
    BY Zenon DEF Threads
  <2>2. CASE cpu = InitThread
    BY <1>1, <2>2, Zenon DEF InitStays, BeginOnce
  <2>3. CASE cpu # InitThread
    BY <1>1, <2>1, <2>3, Zenon DEF InitStays, BeginOnce
  <2> QED
    BY <2>2, <2>3, Zenon
<1> QED
  BY <1>2, <1>3, <1>4, <1>5, Zenon

\* What the invariant says of the processor's own stack.
LEMMA CpuStack ==
    ASSUME StackInv
    PROVE  /\ cpu \in Threads /\ InitThread \in Threads
           /\ stack[cpu] \in Seq(Frames) /\ stack[cpu] # << >>
           /\ Len(stack[cpu]) \in Nat /\ Len(stack[cpu]) >= 1 /\ Len(stack[cpu]) <= MaxFrames
           /\ WellFormed(cpu, stack[cpu])
           /\ cpu = InitThread => BeginOnce(stack[cpu])
           /\ Top(cpu) \in Frames /\ Legal(Top(cpu)) /\ MayBeOf(cpu, Top(cpu))
           /\ TopAt(cpu) = Top(cpu).at
<1> USE DEF StackInv, StackTypeOK
<1>1. cpu \in Threads /\ stack[cpu] \in Seq(Frames) /\ stack[cpu] # << >>
  BY Zenon DEF ThreadPlaces
<1>2. Len(stack[cpu]) \in Nat /\ Len(stack[cpu]) >= 1 /\ Len(stack[cpu]) <= MaxFrames
  BY <1>1, LenProperties, EmptySeq
<1>3. Top(cpu) \in Frames
  BY <1>1, <1>2, ElementOfSeq DEF Top
<1>4. WellFormed(cpu, stack[cpu])
  BY <1>1, Zenon DEF Shape
<1>5. Legal(Top(cpu)) /\ MayBeOf(cpu, Top(cpu))
  BY <1>2, <1>4 DEF WellFormed, Top
<1> QED
  BY <1>1, <1>2, <1>3, <1>4, <1>5, Zenon DEF InitStays, Threads, TopAt

\* Going to another point.
LEMMA GotoStackInv ==
    ASSUME StackInv, UNCHANGED <<schedVars, cpu>>,
           NEW at \in Points, at # "susp", Goto(at), Legal(Frame(Top(cpu).proc, at)),
           Top(cpu).proc = "begin" /\ at \in BeforeBody => TopAt(cpu) \in BeforeBody
    PROVE  StackInv'
<1> DEFINE s == stack[cpu]
           r == Moved(s, at)
<1>1. /\ s \in Seq(Frames) /\ s # << >> /\ Len(s) <= MaxFrames /\ WellFormed(cpu, s)
      /\ cpu = InitThread => BeginOnce(s)
      /\ Top(cpu) = s[Len(s)] /\ TopAt(cpu) = s[Len(s)].at
  BY CpuStack, Zenon DEF Top, TopAt
<1>2. stack' = [stack EXCEPT ![cpu] = r]
  BY Zenon DEF Goto
<1> HIDE DEF s
<1>3. /\ r \in Seq(Frames) /\ r # << >> /\ Len(r) = Len(s)
      /\ Len(s) \in Nat /\ Len(s) >= 1
      /\ \A i \in 1 .. Len(s) : i # Len(s) => r[i] = s[i]
      /\ r[Len(s)] = Frame(s[Len(s)].proc, at)
  BY <1>1, MovedFacts, Zenon
<1>4. WellFormed(cpu, r)
  BY <1>1, MovedWellFormed, Zenon
<1> HIDE DEF r
<1>5. r[Len(r)].at # "susp"
  BY <1>3 DEF Frame
<1>6. cpu = InitThread => BeginOnce(r)
  <2> SUFFICES ASSUME cpu = InitThread, NEW i \in 1 .. Len(r),
                      r[i].proc = "begin", r[i].at \in BeforeBody
               PROVE  current_thread_ = NoThread
    BY Zenon DEF BeginOnce
  <2>1. s[i].proc = "begin" /\ s[i].at \in BeforeBody
    <3>1. CASE i = Len(s)
      <4>1. s[i].proc = "begin" /\ at \in BeforeBody
        BY <1>3, <3>1 DEF Frame
      <4> QED
        BY <1>1, <3>1, <4>1, Zenon
    <3>2. CASE i # Len(s)
      BY <1>3, <3>2, Zenon
    <3> QED
      BY <3>1, <3>2, Zenon
  <2> QED
    BY <2>1, <1>1, <1>3, Zenon DEF BeginOnce
<1> QED
  BY <1>1, <1>2, <1>3, <1>4, <1>5, <1>6, StackOfCpu, Zenon

\* Calling a procedure.
LEMMA CallStackInv ==
    ASSUME StackInv, UNCHANGED <<schedVars, cpu>>,
           NEW at \in Points, NEW proc \in Procs, Call(proc, at),
           Top(cpu).proc # "begin", Legal(Frame(Top(cpu).proc, at)),
           MayBeOf(cpu, Frame(proc, "add")),
           MayBeBelow(Frame(Top(cpu).proc, at), Frame(proc, "add")),
           proc = "begin" => current_thread_ = NoThread
    PROVE  StackInv'
<1> DEFINE s == stack[cpu]
           m == Moved(s, at)
           r == Pushed(m, proc)
<1>1. /\ s \in Seq(Frames) /\ s # << >> /\ Len(s) < MaxFrames /\ WellFormed(cpu, s)
      /\ cpu = InitThread => BeginOnce(s)
      /\ Top(cpu) = s[Len(s)]
  BY CpuStack, Zenon DEF Top, Call
<1>2. stack' = [stack EXCEPT ![cpu] = r]
  BY Zenon DEF Call
<1> HIDE DEF s
<1>3. /\ m \in Seq(Frames) /\ m # << >> /\ Len(m) = Len(s)
      /\ Len(s) \in Nat /\ Len(s) >= 1
      /\ \A i \in 1 .. Len(s) : i # Len(s) => m[i] = s[i]
      /\ m[Len(s)] = Frame(s[Len(s)].proc, at)
  BY <1>1, MovedFacts, Zenon
<1>4. WellFormed(cpu, m)
  BY <1>1, MovedWellFormed, Zenon
<1> HIDE DEF m
<1>5. /\ r \in Seq(Frames) /\ r # << >> /\ Len(r) = Len(m) + 1
      /\ \A i \in 1 .. Len(m) : r[i] = m[i]
      /\ r[Len(m) + 1] = Frame(proc, "add")
  BY <1>3, PushedFacts, Zenon
<1>6. WellFormed(cpu, r)
  BY <1>1, <1>3, <1>4, PushedWellFormed, Zenon
<1> HIDE DEF r
<1>7. r[Len(r)].at # "susp" /\ Len(r) <= MaxFrames
  <2>1. r[Len(r)].at # "susp"
    BY <1>5 DEF Frame
  <2> QED
    BY <2>1, <1>1, <1>3, <1>5, MaxFramesAssumption
<1>8. cpu = InitThread => BeginOnce(r)
  <2> SUFFICES ASSUME cpu = InitThread, NEW i \in 1 .. Len(r),
                      r[i].proc = "begin", r[i].at \in BeforeBody
               PROVE  current_thread_ = NoThread
    BY Zenon DEF BeginOnce
  <2>1. CASE i = Len(m) + 1
    BY <1>5, <2>1 DEF Frame
  <2>2. CASE i = Len(m)
    <3>1. r[i] = Frame(s[Len(s)].proc, at)
      BY <1>3, <1>5, <2>2
    <3> QED
      BY <3>1, <1>1 DEF Frame
  <2>3. CASE i # Len(m) /\ i # Len(m) + 1
    <3>1. i \in 1 .. Len(s) /\ r[i] = s[i]
      BY <1>3, <1>5, <2>3
    <3> QED
      BY <3>1, <1>1, Zenon DEF BeginOnce
  <2> QED
    BY <2>1, <2>2, <2>3, Zenon
<1> QED
  BY <1>2, <1>5, <1>6, <1>7, <1>8, StackOfCpu, Zenon

\* Being interrupted: whatever is not suspended may be.
LEMMA InterruptStackInv ==
    ASSUME StackInv, Interrupt
    PROVE  StackInv'
<1> DEFINE s == stack[cpu]
           r == Pushed(s, "isr")
<1>1. /\ s \in Seq(Frames) /\ s # << >> /\ Len(s) < MaxFrames /\ WellFormed(cpu, s)
      /\ cpu = InitThread => BeginOnce(s)
  BY CpuStack, Zenon DEF Interrupt
<1>2. stack' = [stack EXCEPT ![cpu] = r] /\ UNCHANGED <<schedVars, cpu>>
  BY Zenon DEF Interrupt
<1>3. s[Len(s)].at # "susp"
  BY Zenon DEF StackInv, ThreadPlaces, TopAt, Top
<1> HIDE DEF s
<1>4. /\ r \in Seq(Frames) /\ r # << >> /\ Len(r) = Len(s) + 1 /\ Len(s) \in Nat
      /\ \A i \in 1 .. Len(s) : r[i] = s[i]
      /\ r[Len(s) + 1] = Frame("isr", "add")
  BY <1>1, PushedFacts, Zenon DEF Procs
<1>5. WellFormed(cpu, r)
  <2>1. MayBeOf(cpu, Frame("isr", "add")) /\ MayBeBelow(s[Len(s)], Frame("isr", "add"))
    BY <1>3, Zenon DEF MayBeOf, MayBeBelow, Frame
  <2> QED
    BY <1>1, <2>1, PushedWellFormed, Zenon DEF Procs
<1> HIDE DEF r
<1>6. r[Len(r)].at # "susp" /\ r[Len(r)].proc # "begin"
  BY <1>4 DEF Frame
<1>7. Len(r) <= MaxFrames
  BY <1>1, <1>4, MaxFramesAssumption
<1>8. cpu = InitThread => BeginOnce(r)
  BY <1>1, <1>4, <1>6 DEF BeginOnce
<1> QED
  BY <1>2, <1>4, <1>5, <1>6, <1>7, <1>8, StackOfCpu, Zenon

\* Only thread code and thread_start() are at the bottom of a stack, so that
\* anything else can return.
LEMMA Returnable ==
    ASSUME StackInv, Top(cpu).proc \notin {"code", "start"}
    PROVE  Len(stack[cpu]) >= 2 /\ stack[cpu][Len(stack[cpu]) - 1].at # "susp"
<1> DEFINE n == Len(stack[cpu])
<1>1. n \in Nat /\ n >= 1 /\ WellFormed(cpu, stack[cpu]) /\ stack[cpu] # << >>
      /\ Top(cpu) = stack[cpu][n]
  BY CpuStack, Zenon DEF Top
<1> HIDE DEF n
<1>2. n # 1
  BY <1>1, Zenon DEF WellFormed
<1>3. n \in 2 .. n
  BY <1>1, <1>2
<1>4. MayBeBelow(stack[cpu][n - 1], stack[cpu][n])
  BY <1>1, <1>3, Zenon DEF WellFormed, n
<1>5. n >= 2
  BY <1>3
<1> QED
  BY <1>4, <1>5, Zenon DEF MayBeBelow, n

\* thread_start() is nowhere else.
LEMMA StartAtBottom ==
    ASSUME StackInv, Top(cpu).proc \in {"code", "start"}
    PROVE  Len(stack[cpu]) = 1
<1> DEFINE n == Len(stack[cpu])
<1>1. n \in Nat /\ n >= 1 /\ WellFormed(cpu, stack[cpu]) /\ Top(cpu) = stack[cpu][n]
  BY CpuStack, Zenon DEF Top
<1>2. SUFFICES ASSUME n # 1 PROVE FALSE
  BY Zenon
<1> HIDE DEF n
<1>3. n \in 2 .. n
  BY <1>1, <1>2
<1>4. MayBeBelow(stack[cpu][n - 1], stack[cpu][n])
  BY <1>1, <1>3, Zenon DEF WellFormed, n
<1> QED
  BY <1>1, <1>4, Zenon DEF MayBeBelow

\* Returning.
LEMMA PopStackInv ==
    ASSUME StackInv, UNCHANGED <<schedVars, cpu>>,
           stack' = [stack EXCEPT ![cpu] = Popped(@)],
           Top(cpu).proc \notin {"code", "start"}
    PROVE  StackInv'
<1> DEFINE s == stack[cpu]
           r == Popped(s)
<1>1. /\ s \in Seq(Frames) /\ s # << >> /\ Len(s) <= MaxFrames /\ WellFormed(cpu, s)
      /\ cpu = InitThread => BeginOnce(s)
      /\ Len(s) \in Nat /\ Len(s) >= 2 /\ s[Len(s) - 1].at # "susp"
  BY CpuStack, Returnable, Zenon
<1>2. stack' = [stack EXCEPT ![cpu] = r]
  BY Zenon
<1> HIDE DEF s
<1>3. r \in Seq(Frames) /\ Len(r) = Len(s) - 1 /\ \A i \in 1 .. Len(s) - 1 : r[i] = s[i]
  BY <1>1, PoppedFacts, Zenon
<1>4. WellFormed(cpu, r)
  BY <1>1, PoppedWellFormed, Zenon
<1> HIDE DEF r
<1>5. r # << >> /\ Len(r) <= MaxFrames
  BY <1>1, <1>3, EmptySeq, MaxFramesAssumption
<1>6. r[Len(r)].at # "susp"
  BY <1>1, <1>3
<1>7. cpu = InitThread => BeginOnce(r)
  BY <1>1, <1>3 DEF BeginOnce
<1> QED
  BY <1>2, <1>3, <1>4, <1>5, <1>6, <1>7, StackOfCpu, Zenon

\* Releasing a lock, at the end of unlock().
LEMMA ReleaseStackInv ==
    ASSUME StackInv, UNCHANGED <<schedVars, cpu>>,
           stack' = [stack EXCEPT ![cpu] = Released(@)],
           TopAt(cpu) \in {"sub", "sti"}
    PROVE  StackInv'
<1>1. /\ cpu \in Threads /\ stack[cpu] \in Seq(Frames) /\ stack[cpu] # << >>
      /\ Len(stack[cpu]) \in Nat /\ Legal(Top(cpu)) /\ TopAt(cpu) = Top(cpu).at
      /\ Top(cpu) = stack[cpu][Len(stack[cpu])]
  BY CpuStack, Zenon DEF Top
<1>2. CASE Top(cpu).proc = "isr"
  <2>1. Goto("iret")
    BY <1>1, <1>2, Zenon DEF Released, Goto
  <2>2. Legal(Frame(Top(cpu).proc, "iret"))
    BY <1>2, Zenon DEF Legal, Frame
  <2> QED
    BY <1>2, <2>1, <2>2, GotoStackInv, Zenon DEF Points, BeforeBody
<1>3. CASE Top(cpu).proc = "start"
  <2> DEFINE f == Frame("code", "run")
             r == [stack[cpu] EXCEPT ![Len(stack[cpu])] = f]
  <2>1. Len(stack[cpu]) = 1
    BY <1>3, StartAtBottom, Zenon
  <2>2. stack' = [stack EXCEPT ![cpu] = r]
    BY <1>1, <1>3, Zenon DEF Released
  <2>3. f \in Frames /\ f.proc = "code" /\ f.at = "run" /\ Legal(f) /\ MayBeOf(cpu, f)
    BY Zenon DEF f, Frame, Frames, Procs, Points, Legal, MayBeOf
  <2> HIDE DEF f
  <2>4. r \in Seq(Frames) /\ Len(r) = 1 /\ r[1] = f
    BY <1>1, <2>1, <2>3, ExceptSeq
  <2> HIDE DEF r
  <2>5. r # << >> /\ Len(r) <= MaxFrames
    BY <2>4, EmptySeq, MaxFramesAssumption
  <2>6. WellFormed(cpu, r) /\ BeginOnce(r) /\ r[Len(r)].at # "susp"
    BY <2>3, <2>4 DEF WellFormed, BeginOnce
  <2> QED
    BY <2>2, <2>4, <2>5, <2>6, StackOfCpu, Zenon
<1>4. CASE Top(cpu).proc \notin {"isr", "start"}
  <2>1. stack' = [stack EXCEPT ![cpu] = Popped(@)]
    BY <1>1, <1>4, Zenon DEF Released
  <2>2. Top(cpu).proc # "code"
    BY <1>1, Zenon DEF Legal
  <2> QED
    BY <1>4, <2>1, <2>2, PopStackInv, Zenon
<1> QED
  BY <1>2, <1>3, <1>4, Zenon

-----------------------------------------------------------------------------
(***************************************************************************)
(* Threads and stacks: the operations of the monitor.                      *)
(***************************************************************************)

\* No begin() is on its way to its body.
Settled(s) == \A i \in 1 .. Len(s) : ~(s[i].proc = "begin" /\ s[i].at \in BeforeBody)

\* A stack stays settled when its newest frame moves past its body.
LEMMA MovedSettled ==
    ASSUME NEW s \in Seq(Frames), s # << >>, Settled(s),
           NEW at \in Points, at \notin BeforeBody
    PROVE  Settled(Moved(s, at))
<1> DEFINE r == Moved(s, at)
<1>1. /\ Len(r) = Len(s) /\ Len(s) \in Nat
      /\ \A i \in 1 .. Len(s) : i # Len(s) => r[i] = s[i]
      /\ r[Len(s)] = Frame(s[Len(s)].proc, at)
  BY MovedFacts, Zenon
<1> HIDE DEF r
<1>2. r[Len(s)].at \notin BeforeBody
  BY <1>1 DEF Frame
<1> QED
  BY <1>1, <1>2, Zenon DEF Settled, r

\* A thread waiting in the line: it is not the processor's, and its newest
\* frame is suspended in yield() or in thread_start().
LEMMA WaitingStack ==
    ASSUME StackInv, NEW t \in Queued
    PROVE  /\ t \in Threads /\ t # cpu
           /\ stack[t] \in Seq(Frames) /\ stack[t] # << >> /\ WellFormed(t, stack[t])
           /\ Len(stack[t]) \in Nat /\ Len(stack[t]) >= 1
           /\ stack[t][Len(stack[t])].at = "susp"
           /\ stack[t][Len(stack[t])].proc \in {"start", "yield"}
<1>1. t \in Threads /\ t # cpu /\ stack[t] # << >> /\ stack[t][Len(stack[t])].at = "susp"
  BY Zenon DEF StackInv, ThreadPlaces, TopAt, Top
<1>2. stack[t] \in Seq(Frames) /\ WellFormed(t, stack[t])
  BY <1>1, Zenon DEF StackInv, StackTypeOK, Shape
<1>3. Len(stack[t]) \in Nat /\ Len(stack[t]) >= 1
  BY <1>1, <1>2, LenProperties, EmptySeq
<1>4. Legal(stack[t][Len(stack[t])])
  BY <1>2, <1>3 DEF WellFormed
<1> QED
  BY <1>1, <1>2, <1>3, <1>4, Zenon DEF Legal

\* The line under the invariant.
LEMMA LineFacts ==
    ASSUME StackInv
    PROVE  /\ Line \in Seq(Threads) /\ Distinct(Line) /\ Elements(Line) = Queued
           /\ SchedTypeOK /\ cpu \notin Queued
           /\ NoThread \notin Threads /\ Tasks \subseteq Threads
           /\ current_thread_ # NoThread => current_thread_ = cpu
  BY SwappedLine, ThreadsAssumption, Zenon
  DEF StackInv, StackTypeOK, ThreadPlaces, Queued, Threads

\* Switching away from the processor's thread, to the first in line: s is
\* what becomes of the stack switched away from.
LEMMA SwitchStackInv ==
    ASSUME StackInv, current_thread_ = cpu, NEW s \in Seq(Frames), Len(s) <= MaxFrames,
           Line # << >>, current_thread_' = Head(Line), cpu' = Head(Line), SchedTypeOK',
           stack' = [stack EXCEPT ![cpu] = s, ![Head(Line)] = Moved(@, "clear")],
           WellFormed(cpu, s), Settled(s),
           \/ s = << >> /\ cpu # InitThread /\ Line' = Tail(Line)
           \/ s # << >> /\ s[Len(s)].at = "susp" /\ Line' = Append(Tail(Line), cpu)
    PROVE  StackInv'
<1> DEFINE next == Head(Line)
           r == Moved(stack[next], "clear")
<1>1. /\ Line \in Seq(Threads) /\ Distinct(Line) /\ Elements(Line) = Queued
      /\ cpu \in Threads /\ cpu \notin Queued /\ NoThread \notin Threads
      /\ InitThread \in Threads
  BY LineFacts, CpuStack, Zenon
<1>2. /\ Distinct(Tail(Line)) /\ next \notin Elements(Tail(Line))
      /\ Elements(Line) = Elements(Tail(Line)) \cup {next}
      /\ Tail(Line) \in Seq(Threads)
  BY <1>1, TailDistinct, HeadTailProperties, Zenon
<1>3. /\ next \in Queued /\ next \in Threads /\ next # cpu
      /\ stack[next] \in Seq(Frames) /\ stack[next] # << >> /\ WellFormed(next, stack[next])
      /\ stack[next][Len(stack[next])].proc \in {"start", "yield"}
      /\ Len(stack[next]) \in Nat /\ Len(stack[next]) >= 1
  BY <1>1, <1>2, WaitingStack, Zenon
<1> HIDE DEF next
<1>4. /\ stack \in [Threads -> Seq(Frames)]
      /\ stack' \in [Threads -> Seq(Frames)]
      /\ stack'[cpu] = s /\ stack'[next] = r
      /\ \A t \in Threads : t # cpu /\ t # next => stack'[t] = stack[t]
      /\ r \in Seq(Frames) /\ r # << >> /\ Len(r) = Len(stack[next])
      /\ r[Len(r)].at = "clear"
  <2>1. /\ r \in Seq(Frames) /\ r # << >> /\ Len(r) = Len(stack[next])
        /\ r[Len(stack[next])] = Frame(stack[next][Len(stack[next])].proc, "clear")
    BY <1>3, MovedFacts, Zenon DEF Points
  <2>2. r[Len(r)].at = "clear"
    BY <2>1 DEF Frame
  <2> HIDE DEF r
  <2>3. stack \in [Threads -> Seq(Frames)] /\ stack' = [stack EXCEPT ![cpu] = s, ![next] = r]
    BY <1>3, Zenon DEF next, r, StackInv, StackTypeOK
  <2> QED
    BY <1>1, <1>3, <2>1, <2>2, <2>3, Zenon
<1>5. WellFormed(next, r)
  <2>1. Legal(Frame(stack[next][Len(stack[next])].proc, "clear"))
    BY <1>3, Zenon DEF Legal, Frame, SchedulerProcs
  <2> QED
    BY <1>3, <2>1, MovedWellFormed, Zenon DEF Points
<1>6. next = InitThread => Settled(r)
  <2> SUFFICES ASSUME next = InitThread PROVE Settled(r)
    BY Zenon
  <2>1. Settled(stack[next])
    BY <1>1, Zenon DEF StackInv, InitStays, BeginOnce, Settled
  <2> QED
    BY <1>3, <2>1, MovedSettled, Zenon DEF Points, BeforeBody
<1> HIDE DEF r
<1>7. StackTypeOK'
  BY <1>1, <1>3, <1>4, Zenon DEF StackInv, StackTypeOK, next
<1>8. Shape'
  BY <1>4, <1>5, Zenon DEF Shape, StackInv
<1>9. ThreadPlaces'
  <2>1. /\ Distinct(Line')
        /\ Elements(Line') = (Queued \ {next}) \cup (IF s = << >> THEN {} ELSE {cpu})
    <3>1. CASE s = << >>
      BY <1>1, <1>2, <3>1, Zenon
    <3>2. CASE s # << >>
      <4> DEFINE l == Tail(Line)
      <4>1. l \in Seq(Threads) /\ Distinct(l) /\ cpu \notin Elements(l)
        BY <1>1, <1>2, Zenon
      <4> HIDE DEF l
      <4>2. Distinct(Append(l, cpu)) /\ Elements(Append(l, cpu)) = Elements(l) \cup {cpu}
        BY <1>1, <4>1, AppendDistinct
      <4>3. Line' = Append(l, cpu) /\ Elements(l) = Queued \ {next}
        BY <1>1, <1>2, <3>2, Zenon DEF l
      <4> QED
        BY <3>2, <4>2, <4>3, Zenon
    <3> QED
      BY <3>1, <3>2, Zenon
  <2>2. Queued = {t \in Threads : stack[t] # << >>} \ {cpu} /\ cpu' = next
    BY Zenon DEF StackInv, ThreadPlaces, next
  <2>3. Queued' = {t \in Threads : stack'[t] # << >>} \ {cpu'}
    <3>1. Queued' = (Queued \ {next}) \cup (IF s = << >> THEN {} ELSE {cpu})
      BY <2>1, Zenon DEF Queued
    <3> QED
      BY <1>1, <1>3, <1>4, <2>2, <3>1, SMTT(30)
  <2>4. ASSUME NEW t \in Queued' PROVE TopAt(t)' = "susp"
    <3>1. CASE t = cpu
      <4>1. s # << >> /\ s[Len(s)].at = "susp"
        BY <1>4, <2>3, <3>1, Zenon
      <4> QED
        BY <1>4, <3>1, <4>1, Zenon DEF TopAt, Top
    <3>2. CASE t # cpu
      <4>1. t \in Queued /\ t # next /\ t \in Threads
        BY <2>1, <2>2, <2>3, <3>2, Zenon DEF Queued
      <4>2. stack[t][Len(stack[t])].at = "susp"
        BY <4>1, WaitingStack, Zenon
      <4> QED
        BY <1>4, <3>2, <4>1, <4>2, Zenon DEF TopAt, Top
    <3> QED
      BY <3>1, <3>2, Zenon
  <2>5. stack'[cpu'] # << >> /\ TopAt(cpu)' # "susp"
    BY <1>4, <2>2, Zenon DEF TopAt, Top
  <2> QED
    BY <2>1, <2>2, <2>3, <2>4, <2>5, Zenon DEF ThreadPlaces, next
<1>10. InitStays'
  <2>1. current_thread_' # NoThread
    BY <1>1, <1>3, Zenon DEF next
  <2>2. Settled(stack'[InitThread]) /\ stack'[InitThread] # << >>
    <3>1. Settled(stack[InitThread]) /\ stack[InitThread] # << >>
      BY <1>1, Zenon DEF StackInv, InitStays, BeginOnce, Settled
    <3> QED
      BY <1>1, <1>3, <1>4, <1>6, <3>1, Zenon
  <2> QED
    BY <2>1, <2>2, Zenon DEF InitStays, BeginOnce, Settled
<1> QED
  BY <1>7, <1>8, <1>9, <1>10, Zenon DEF StackInv

\* yield() switches to the first in line.
LEMMA YieldStackInv ==
    ASSUME StackInv, YieldBody
    PROVE  /\ StackInv'
           /\ current_thread_ = cpu /\ cpu' \in Queued
           /\ stack' = [stack EXCEPT ![cpu] = Moved(@, "susp"), ![cpu'] = Moved(@, "clear")]
<1> DEFINE s == Moved(stack[cpu], "susp")
<1>1. /\ stack[cpu] \in Seq(Frames) /\ stack[cpu] # << >> /\ WellFormed(cpu, stack[cpu])
      /\ Len(stack[cpu]) <= MaxFrames
      /\ cpu = InitThread => BeginOnce(stack[cpu])
      /\ MayBeOf(cpu, Top(cpu)) /\ cpu \in Threads
  BY CpuStack, Zenon
<1>2. SchedTypeOK /\ Line \in Seq(Threads) /\ Elements(Line) = Queued /\ Distinct(Line)
  BY LineFacts, Zenon
<1>3. yield /\ Top(cpu).proc = "yield" /\ cpu' = current_thread_'
  BY Zenon DEF YieldBody, At
<1>4. /\ Line # << >> /\ current_thread_' = Head(Line)
      /\ Line' = Append(Tail(Line), current_thread_) /\ SchedTypeOK'
  BY <1>2, <1>3, YieldLine, Zenon
<1>5. current_thread_ = cpu /\ current_thread_ # NoThread
  BY <1>3, LineFacts, Zenon DEF yield, can_yield
<1>6. Head(Line) \in Queued
  BY <1>2, <1>4, TailDistinct
<1>7. s \in Seq(Frames) /\ s # << >> /\ Len(s) = Len(stack[cpu])
      /\ s[Len(stack[cpu])] = Frame(Top(cpu).proc, "susp")
  BY <1>1, MovedFacts, Zenon DEF Points, Top
<1>8. s[Len(s)].at = "susp"
  BY <1>7 DEF Frame
<1>9. WellFormed(cpu, s)
  <2>1. Legal(Frame(stack[cpu][Len(stack[cpu])].proc, "susp"))
    BY <1>3, Zenon DEF Legal, Frame, Top
  <2> QED
    BY <1>1, <2>1, MovedWellFormed, Zenon DEF Points
<1>10. Settled(s)
  <2>1. Settled(stack[cpu])
    <3>1. CASE cpu = InitThread
      BY <1>1, <1>5, <3>1, Zenon DEF BeginOnce, Settled
    <3>2. CASE cpu # InitThread
      BY <1>1, <3>2, Zenon DEF WellFormed, MayBeOf, Settled
    <3> QED
      BY <3>1, <3>2, Zenon
  <2> QED
    BY <1>1, <2>1, MovedSettled, Zenon DEF Points, BeforeBody
<1>11. stack' = [stack EXCEPT ![cpu] = s, ![Head(Line)] = Moved(@, "clear")]
  BY <1>4, Zenon DEF YieldBody
<1> HIDE DEF s
<1>12. StackInv'
  BY <1>1, <1>3, <1>4, <1>5, <1>7, <1>8, <1>9, <1>10, <1>11, SwitchStackInv, Zenon
<1> QED
  BY <1>3, <1>4, <1>5, <1>6, <1>11, <1>12, Zenon DEF s

\* vanish() switches to the first in line and leaves nothing behind.
LEMMA VanishStackInv ==
    ASSUME StackInv, VanishSwitch
    PROVE  /\ StackInv'
           /\ current_thread_ = cpu /\ cpu' \in Queued /\ cpu \in Tasks
           /\ stack' = [stack EXCEPT ![cpu] = << >>, ![cpu'] = Moved(@, "clear")]
<1>1. MayBeOf(cpu, Top(cpu)) /\ cpu \in Threads
  BY CpuStack, Zenon
<1>2. SchedTypeOK /\ Line \in Seq(Threads) /\ Elements(Line) = Queued /\ Distinct(Line)
  BY LineFacts, Zenon
<1>3. vanish /\ Top(cpu).proc = "vanish" /\ cpu' = current_thread_'
  BY Zenon DEF VanishSwitch, At
<1>4. cpu \in Tasks /\ cpu # InitThread
  BY <1>1, <1>3, ThreadsAssumption, Zenon DEF MayBeOf
<1>5. /\ Line # << >> /\ current_thread_' = Head(Line)
      /\ Line' = Tail(Line) /\ SchedTypeOK'
  BY <1>2, <1>3, VanishLine, Zenon
<1>6. current_thread_ = cpu
  BY <1>3, LineFacts, Zenon DEF vanish, can_yield
<1>7. Head(Line) \in Queued
  BY <1>2, <1>5, TailDistinct
<1>8. << >> \in Seq(Frames) /\ Len(<< >>) <= MaxFrames
  BY EmptySeq, MaxFramesAssumption
<1>9. WellFormed(cpu, << >>) /\ Settled(<< >>)
  BY DEF WellFormed, Settled
<1>10. stack' = [stack EXCEPT ![cpu] = << >>, ![Head(Line)] = Moved(@, "clear")]
  BY <1>5, Zenon DEF VanishSwitch
<1>11. StackInv'
  BY <1>3, <1>4, <1>5, <1>6, <1>8, <1>9, <1>10, SwitchStackInv, Zenon
<1> QED
  BY <1>3, <1>4, <1>5, <1>6, <1>7, <1>10, <1>11, Zenon

\* begin() makes the init thread the current one.
LEMMA BeginStackInv ==
    ASSUME StackInv, BeginBody
    PROVE  StackInv' /\ current_thread_ = NoThread /\ cpu = InitThread
<1> DEFINE n == Len(stack[cpu])
           r == Moved(stack[cpu], "clear")
<1>1. /\ cpu \in Threads /\ stack[cpu] \in Seq(Frames) /\ stack[cpu] # << >>
      /\ n \in Nat /\ n >= 1 /\ n <= MaxFrames /\ WellFormed(cpu, stack[cpu])
      /\ cpu = InitThread => BeginOnce(stack[cpu])
      /\ MayBeOf(cpu, Top(cpu)) /\ Top(cpu) = stack[cpu][n]
  BY CpuStack, Zenon DEF Top
<1>2. /\ Top(cpu).proc = "begin" /\ Top(cpu).at = "body"
      /\ current_thread_' = InitThread /\ UNCHANGED <<runnable_, exhausted_, cpu>>
      /\ stack' = [stack EXCEPT ![cpu] = r]
  BY Zenon DEF BeginBody, At, TopAt, begin, Goto
<1>3. cpu = InitThread
  BY <1>1, <1>2, Zenon DEF MayBeOf
<1>4. current_thread_ = NoThread
  BY <1>1, <1>2, <1>3 DEF BeginOnce, BeforeBody
<1> HIDE DEF n, r
<1>5. n = 2 /\ stack[cpu][1].proc # "begin"
  <2>1. n \in 2 .. n
    BY <1>1, <1>2, SMTT(30) DEF WellFormed
  <2>2. stack[cpu][n - 1].at = "run" /\ stack[cpu][n - 1].proc = "code"
    <3>1. n - 1 \in 1 .. Len(stack[cpu]) /\ n \in 2 .. Len(stack[cpu])
      BY <2>1, <1>1 DEF n
    <3> QED
      BY <3>1, <1>1, <1>2 DEF WellFormed, MayBeBelow, Legal
  <2>3. n - 1 = 1
    <3> SUFFICES ASSUME n - 1 # 1 PROVE FALSE
      BY Zenon
    <3>1. n - 1 \in 2 .. n
      BY <1>1, <2>1
    <3>2. \A i \in 2 .. n : stack[cpu][i].proc # "code"
      BY <1>1, Zenon DEF WellFormed, MayBeBelow, n
    <3> QED
      BY <3>1, <3>2, <2>2, Zenon
  <2> QED
    BY <2>2, <2>3, <1>1
<1>6. /\ r \in Seq(Frames) /\ r # << >> /\ Len(r) = n /\ r[1] = stack[cpu][1]
      /\ r[n] = Frame("begin", "clear")
  <2>1. /\ r \in Seq(Frames) /\ r # << >> /\ Len(r) = n
        /\ \A i \in 1 .. n : i # n => r[i] = stack[cpu][i]
        /\ r[n] = Frame("begin", "clear")
    <3>1. "clear" \in Points
      BY Zenon DEF Points
    <3>2. /\ r \in Seq(Frames) /\ r # << >> /\ Len(r) = n
          /\ \A i \in 1 .. n : i # n => r[i] = stack[cpu][i]
          /\ r[n] = Frame(stack[cpu][n].proc, "clear")
      BY <1>1, <3>1, MovedFacts, Zenon DEF r, n
    <3> QED
      BY <1>1, <1>2, <3>2, Zenon
  <2> QED
    BY <2>1, <1>5
<1>7. WellFormed(cpu, r)
  <2>1. Legal(Frame(stack[cpu][n].proc, "clear"))
    BY <1>1, <1>2, Zenon DEF Legal, Frame, SchedulerProcs
  <2> QED
    BY <1>1, <2>1, MovedWellFormed, Zenon DEF r, n, Points
<1>8. r[2].at = "clear"
  BY <1>5, <1>6 DEF Frame
<1>9. Settled(r)
  BY <1>5, <1>6, <1>8 DEF Settled, BeforeBody
<1>10. /\ stack' \in [Threads -> Seq(Frames)] /\ stack'[cpu] = r
       /\ \A t \in Threads : t # cpu => stack'[t] = stack[t]
       /\ UNCHANGED <<Line, Queued>>
  BY <1>1, <1>2, <1>6, Zenon DEF StackInv, StackTypeOK, Line, Queued
<1>11. StackTypeOK'
  BY <1>1, <1>2, <1>3, <1>6, <1>10, Zenon DEF StackInv, StackTypeOK, SchedTypeOK
<1>12. Shape'
  BY <1>2, <1>7, <1>10, Zenon DEF StackInv, Shape
<1>13. ThreadPlaces'
  <2>1. {t \in Threads : stack'[t] # << >>} = {t \in Threads : stack[t] # << >>}
    BY <1>1, <1>6, <1>10, Zenon
  <2>2. \A t \in Queued : TopAt(t)' = "susp"
    BY <1>10, WaitingStack, Zenon DEF TopAt, Top
  <2>3. TopAt(cpu)' # "susp"
    BY <1>2, <1>5, <1>6, <1>8, <1>10, Zenon DEF TopAt, Top
  <2> QED
    BY <1>2, <1>3, <1>6, <1>10, <2>1, <2>2, <2>3, Zenon DEF StackInv, ThreadPlaces
<1>14. InitStays'
  BY <1>2, <1>3, <1>6, <1>9, <1>10 DEF InitStays, BeginOnce, Settled
<1> QED
  BY <1>3, <1>4, <1>11, <1>12, <1>13, <1>14, Zenon DEF StackInv

\* add() queues a new thread, suspended in its thread_start().
LEMMA AddStackInv ==
    ASSUME StackInv, AddBody
    PROVE  /\ StackInv'
           /\ cpu = InitThread /\ cpu' = cpu /\ current_thread_' = current_thread_
           /\ \E t \in Tasks :
                /\ stack[t] = << >> /\ t # cpu /\ t \notin Queued /\ add(t)
                /\ stack' = [stack EXCEPT ![t] = <<Frame("start", "susp")>>,
                                          ![cpu] = Moved(@, "clear")]
<1> PICK t \in Tasks : /\ stack[t] = << >>
                       /\ add(t)
                       /\ stack' = [stack EXCEPT ![t] = <<Frame("start", "susp")>>,
                                                 ![cpu] = Moved(@, "clear")]
  BY Zenon DEF AddBody
<1> DEFINE n == Len(stack[cpu])
           r == Moved(stack[cpu], "clear")
           f == Frame("start", "susp")
<1>1. /\ cpu \in Threads /\ stack[cpu] \in Seq(Frames) /\ stack[cpu] # << >>
      /\ n \in Nat /\ n >= 1 /\ n <= MaxFrames /\ WellFormed(cpu, stack[cpu])
      /\ MayBeOf(cpu, Top(cpu)) /\ Top(cpu) = stack[cpu][n]
  BY CpuStack, Zenon DEF Top
<1>2. Top(cpu).proc = "add" /\ cpu' = cpu
  BY Zenon DEF AddBody, At
<1>3. cpu = InitThread
  BY <1>1, <1>2, Zenon DEF MayBeOf
<1>4. t \in Threads /\ t # cpu /\ t \notin Queued /\ t # InitThread
  BY <1>1, <1>3, LineFacts, Zenon DEF StackInv, ThreadPlaces
<1>5. /\ r \in Seq(Frames) /\ r # << >> /\ Len(r) = n
      /\ r[n] = Frame(stack[cpu][n].proc, "clear")
  BY <1>1, MovedFacts, Zenon DEF Points
<1>6. r[Len(r)].at = "clear"
  BY <1>5 DEF Frame
<1>7. WellFormed(cpu, r)
  <2>1. Legal(Frame(stack[cpu][n].proc, "clear"))
    BY <1>1, <1>2, Zenon DEF Legal, Frame, SchedulerProcs
  <2> QED
    BY <1>1, <2>1, MovedWellFormed, Zenon DEF Points
<1>8. f \in Frames /\ f.proc = "start" /\ f.at = "susp" /\ Legal(f) /\ MayBeOf(t, f)
  BY Zenon DEF Frame, Frames, Procs, Points, Legal, MayBeOf
<1> HIDE DEF n, r, f
<1> DEFINE new == <<f>>
<1>9. new \in Seq(Frames) /\ new # << >> /\ Len(new) = 1 /\ new[1] = f
  BY <1>8
<1> HIDE DEF new
<1>10. WellFormed(t, new)
  BY <1>8, <1>9 DEF WellFormed
<1>11. /\ stack' \in [Threads -> Seq(Frames)] /\ stack'[cpu] = r /\ stack'[t] = new
       /\ \A u \in Threads : u # cpu /\ u # t => stack'[u] = stack[u]
  <2>1. stack' = [stack EXCEPT ![t] = new, ![cpu] = r]
    BY <1>4, Zenon DEF f, r, new
  <2> QED
    BY <1>1, <1>4, <1>5, <1>9, <2>1, Zenon DEF StackInv, StackTypeOK
<1>12. /\ Line' = Append(runnable_, t) \o exhausted_ /\ SchedTypeOK'
       /\ current_thread_' = current_thread_
  BY <1>4, LineFacts, AddLine, Zenon DEF add
<1>13. Distinct(Line') /\ Queued' = Queued \cup {t}
  <2>1. /\ Distinct(runnable_ \o exhausted_) /\ t \notin Elements(runnable_ \o exhausted_)
        /\ Elements(runnable_ \o exhausted_) = Queued
        /\ runnable_ \in Seq(Threads) /\ exhausted_ \in Seq(Threads)
    BY <1>4, LineFacts, Zenon DEF Line, SchedTypeOK
  <2>2. /\ Distinct(Append(runnable_, t) \o exhausted_)
        /\ Elements(Append(runnable_, t) \o exhausted_) = Queued \cup {t}
    BY <1>4, <2>1, InsertDistinct
  <2> QED
    BY <1>12, <2>2, Zenon DEF Queued
<1>14. StackTypeOK'
  <2>1. \A u \in Threads : Len(stack'[u]) <= MaxFrames
    <3>1. Len(new) <= MaxFrames /\ Len(r) <= MaxFrames
      BY <1>1, <1>5, <1>9, MaxFramesAssumption
    <3>2. \A u \in Threads : Len(stack[u]) <= MaxFrames
      BY Zenon DEF StackInv, StackTypeOK
    <3> QED
      BY <1>11, <3>1, <3>2, Zenon
  <2> QED
    BY <1>1, <1>2, <1>11, <1>12, <2>1, Zenon DEF StackTypeOK
<1>15. Shape'
  BY <1>2, <1>7, <1>10, <1>11, Zenon DEF StackInv, Shape
<1>16. ThreadPlaces'
  <2>1. Queued' = {u \in Threads : stack'[u] # << >>} \ {cpu'}
    BY <1>1, <1>2, <1>4, <1>5, <1>9, <1>11, <1>13, Zenon DEF StackInv, ThreadPlaces
  <2>2. ASSUME NEW u \in Queued' PROVE TopAt(u)' = "susp"
    <3>1. CASE u = t
      BY <1>8, <1>9, <1>11, <3>1, Zenon DEF TopAt, Top
    <3>2. CASE u # t
      <4>1. u \in Queued
        BY <1>13, <3>2, Zenon
      <4>2. u \in Threads /\ u # cpu /\ stack[u][Len(stack[u])].at = "susp"
        BY <4>1, WaitingStack, Zenon
      <4> QED
        BY <1>11, <3>2, <4>2, Zenon DEF TopAt, Top
    <3> QED
      BY <3>1, <3>2, Zenon
  <2>3. stack'[cpu'] # << >> /\ TopAt(cpu)' # "susp"
    BY <1>2, <1>5, <1>6, <1>11, Zenon DEF TopAt, Top
  <2> QED
    BY <1>2, <1>12, <1>13, <2>1, <2>2, <2>3, Zenon DEF StackInv, ThreadPlaces
<1>17. InitStays'
  <2>1. /\ Len(r) = n /\ \A i \in 1 .. n : r[i].proc = "begin" => r[i] = stack[cpu][i]
    <3>1. \A i \in 1 .. n : i # n => r[i] = stack[cpu][i]
      BY <1>1, MovedFacts, Zenon DEF r, n, Points
    <3>2. r[n].proc = "add"
      BY <1>1, <1>2, <1>5, SMTT(30) DEF Frame
    <3> QED
      BY <1>5, <3>1, <3>2, Zenon
  <2>2. BeginOnce(stack[cpu])
    BY <1>3, CpuStack, Zenon
  <2>3. \A i \in 1 .. Len(r) :
          r[i].proc = "begin" /\ r[i].at \in BeforeBody => current_thread_ = NoThread
    BY <2>1, <2>2, Zenon DEF BeginOnce, n
  <2> QED
    BY <1>2, <1>3, <1>5, <1>11, <1>12, <2>3 DEF InitStays, BeginOnce
<1> QED
  BY <1>2, <1>3, <1>4, <1>12, <1>14, <1>15, <1>16, <1>17, Zenon DEF StackInv

-----------------------------------------------------------------------------
(***************************************************************************)
(* Threads and stacks: every step.                                         *)
(***************************************************************************)

\* The stacks the kernel starts with are well formed.
LEMMA StackInvInit == Init => StackInv
<1> SUFFICES ASSUME Init PROVE StackInv
  BY Zenon
<1> DEFINE s == <<Frame("code", "run"), Frame("guard", "body")>>
<1>1. /\ s \in Seq(Frames) /\ s # << >> /\ Len(s) = 2
      /\ s[1] = Frame("code", "run") /\ s[2] = Frame("guard", "body")
  BY DEF Frame, Frames, Procs, Points
<1>2. WellFormed(InitThread, s) /\ BeginOnce(s) /\ s[Len(s)].at # "susp"
  BY <1>1 DEF WellFormed, BeginOnce, Frame, Legal, MayBeOf, MayBeBelow
<1>3. WellFormed(InitThread, << >>) /\ \A t : WellFormed(t, << >>)
  BY DEF WellFormed
<1> HIDE DEF s
<1>4. /\ InitThread \in Threads /\ cpu = InitThread
      /\ stack = [t \in Threads |-> IF t = InitThread THEN s ELSE << >>]
      /\ current_thread_ = NoThread
  BY Zenon DEF Init, SchedInit, Threads, s
<1>5. stack \in [Threads -> Seq(Frames)]
  BY <1>1, <1>4, EmptySeq, Zenon
<1>6. Line = << >> /\ Distinct(Line) /\ Queued = {} /\ SchedTypeOK
  BY SchedInvInit, ConcatEmptySeq, EmptySeq
  DEF Init, SchedInit, SchedInv, NoThreadTwice, Line, Queued, Elements
<1>7. StackTypeOK
  <2>1. Len(s) <= MaxFrames /\ Len(<< >>) <= MaxFrames
    BY <1>1, EmptySeq, MaxFramesAssumption
  <2> QED
    BY <1>4, <1>5, <1>6, <2>1, Zenon DEF StackTypeOK
<1>8. Shape
  BY <1>2, <1>3, <1>4, Zenon DEF Shape
<1>9. ThreadPlaces
  BY <1>1, <1>2, <1>4, <1>6, Zenon DEF ThreadPlaces, TopAt, Top
<1>10. InitStays
  BY <1>1, <1>2, <1>4, Zenon DEF InitStays
<1> QED
  BY <1>7, <1>8, <1>9, <1>10, Zenon DEF StackInv

\* The steps of the locks.
LEMMA LockStackInv ==
    ASSUME StackInv, LockStep
    PROVE  StackInv'
<1>1. Legal(Top(cpu)) /\ TopAt(cpu) = Top(cpu).at /\ Top(cpu).proc \in Procs
  BY CpuStack, Zenon DEF Frames
<1> USE DEF At, Points, Procs, SchedulerProcs, BeforeBody, Legal, Frame
<1>2. CASE FetchAdd
  <2> DEFINE at == IF count_ = 0 THEN "cli" ELSE AfterLock(Top(cpu).proc)
  <2>1. at \in Points /\ at # "susp" /\ Legal(Frame(Top(cpu).proc, at))
    BY <1>1, <1>2, Zenon DEF FetchAdd, AfterLock
  <2>2. Goto(at) /\ UNCHANGED <<schedVars, cpu>> /\ TopAt(cpu) \in BeforeBody
    BY <1>2, Zenon DEF FetchAdd
  <2> HIDE DEF at
  <2> QED
    BY <2>1, <2>2, GotoStackInv, Zenon
<1>3. CASE DisableInterrupts
  <2> DEFINE at == AfterLock(Top(cpu).proc)
  <2>1. at \in Points /\ at # "susp" /\ Legal(Frame(Top(cpu).proc, at))
    BY <1>1, <1>3, Zenon DEF DisableInterrupts, AfterLock
  <2>2. Goto(at) /\ UNCHANGED <<schedVars, cpu>> /\ TopAt(cpu) \in BeforeBody
    BY <1>3, Zenon DEF DisableInterrupts
  <2> HIDE DEF at
  <2> QED
    BY <2>1, <2>2, GotoStackInv, Zenon
<1>4. CASE FetchSub
  <2>1. CASE count_ = 1
    <3>1. Goto("sti") /\ Legal(Frame(Top(cpu).proc, "sti")) /\ UNCHANGED <<schedVars, cpu>>
      BY <1>1, <1>4, <2>1, Zenon DEF FetchSub
    <3> QED
      BY <3>1, GotoStackInv, Zenon
  <2>2. CASE count_ # 1
    BY <1>4, <2>2, ReleaseStackInv, Zenon DEF FetchSub
  <2> QED
    BY <2>1, <2>2, Zenon
<1>5. CASE EnableInterrupts
  BY <1>5, ReleaseStackInv, Zenon DEF EnableInterrupts
<1>6. CASE AssertNotLocked
  <2>1. CASE is_locked_
    BY <1>6, <2>1, Zenon DEF AssertNotLocked, StackInv, StackTypeOK, SchedTypeOK, Shape, ThreadPlaces,
       InitStays, BeginOnce, TopAt, Top, Line, Queued, schedVars
  <2>2. CASE ~is_locked_
    <3>1. Goto("set") /\ Legal(Frame(Top(cpu).proc, "set")) /\ UNCHANGED <<schedVars, cpu>>
      BY <1>6, <2>2, Zenon DEF AssertNotLocked
    <3>2. TopAt(cpu) \in BeforeBody
      BY <1>6, Zenon DEF AssertNotLocked
    <3> QED
      BY <3>1, <3>2, GotoStackInv, Zenon
  <2> QED
    BY <2>1, <2>2, Zenon
<1>7. CASE SetLocked
  <2>1. /\ Goto("body") /\ Legal(Frame(Top(cpu).proc, "body")) /\ UNCHANGED <<schedVars, cpu>>
        /\ TopAt(cpu) \in BeforeBody
    BY <1>7, Zenon DEF SetLocked
  <2> QED
    BY <2>1, GotoStackInv, Zenon
<1>8. CASE ClearLocked
  <2>1. Goto("sub") /\ Legal(Frame(Top(cpu).proc, "sub")) /\ UNCHANGED <<schedVars, cpu>>
    BY <1>8, Zenon DEF ClearLocked
  <2> QED
    BY <2>1, GotoStackInv, Zenon
<1> QED
  BY <1>2, <1>3, <1>4, <1>5, <1>6, <1>7, <1>8, Zenon DEF LockStep

\* Calls, and the end of a guarded section.
LEMMA CallStepStackInv ==
    ASSUME StackInv, CallStep
    PROVE  StackInv'
<1>1. /\ UNCHANGED <<schedVars, cpu>> /\ TopAt(cpu) = Top(cpu).at
      /\ Top(cpu).proc \in {"code", "guard", "isr"}
      /\ CallVanish => cpu \in Tasks
  BY CpuStack, Zenon DEF CallStep, EnterGuard, LeaveBody, CallYield, CallVanish, CallAdd, CallBegin,
     HandlerYield, sharedVars, At
<1> USE DEF At, Points, Procs, SchedulerProcs, Legal, Frame
<1>2. CASE LeaveBody
  <2>1. Goto("sub") /\ Legal(Frame(Top(cpu).proc, "sub"))
    BY <1>2, Zenon DEF LeaveBody
  <2> QED
    BY <1>1, <2>1, GotoStackInv, Zenon
<1>3. CASE EnterGuard
  <2>1. CASE At({"code"}, "run") /\ Call("guard", "run")
    BY <1>1, <2>1, CallStackInv, Zenon DEF MayBeOf, MayBeBelow
  <2>2. CASE At({"guard", "isr"}, "body") /\ Call("guard", "body")
    BY <1>1, <2>2, CallStackInv, Zenon DEF MayBeOf, MayBeBelow
  <2> QED
    BY <1>3, <2>1, <2>2, Zenon DEF EnterGuard
<1>4. CASE CallYield
  BY <1>1, <1>4, CallStackInv, Zenon DEF CallYield, MayBeOf, MayBeBelow
<1>5. CASE CallVanish
  BY <1>1, <1>5, CallStackInv, Zenon DEF CallVanish, MayBeOf, MayBeBelow
<1>6. CASE CallAdd
  BY <1>1, <1>6, CallStackInv, Zenon DEF CallAdd, MayBeOf, MayBeBelow
<1>7. CASE CallBegin
  BY <1>1, <1>7, CallStackInv, Zenon DEF CallBegin, MayBeOf, MayBeBelow
<1>8. CASE HandlerYield
  BY <1>1, <1>8, CallStackInv, Zenon DEF HandlerYield, MayBeOf, MayBeBelow
<1> QED
  BY <1>2, <1>3, <1>4, <1>5, <1>6, <1>7, <1>8, Zenon DEF CallStep

\* A step that changes neither the scheduler, nor the stacks, nor the
\* processor.
LEMMA UnchangedStackInv ==
    ASSUME StackInv, UNCHANGED <<schedVars, cpu, stack>>
    PROVE  StackInv'
BY Zenon DEF StackInv, StackTypeOK, SchedTypeOK, Shape, ThreadPlaces,
   InitStays, BeginOnce, TopAt, Top, Line, Queued, schedVars

\* The scheduler's operations.
LEMMA MonitorStackInv ==
    ASSUME StackInv, MonitorStep
    PROVE  StackInv'
<1>1. CASE YieldAlone
  <2>1. Goto("clear") /\ Legal(Frame(Top(cpu).proc, "clear")) /\ UNCHANGED <<schedVars, cpu>>
    BY <1>1, Zenon DEF YieldAlone, At, Legal, Frame, SchedulerProcs
  <2> QED
    BY <2>1, GotoStackInv, Zenon DEF Points, BeforeBody
<1>2. CASE VanishAssert
  BY <1>2, UnchangedStackInv, Zenon DEF VanishAssert
<1> QED
  BY <1>1, <1>2, AddStackInv, BeginStackInv, YieldStackInv, VanishStackInv, Zenon DEF MonitorStep, VanishBody

\* The invariant of threads and stacks is inductive.
LEMMA StackInvNext ==
    ASSUME StackInv, [Next]_vars
    PROVE  StackInv'
<1>1. CASE Iret
  <2>1. /\ Top(cpu).proc \notin {"code", "start"}
        /\ stack' = [stack EXCEPT ![cpu] = Popped(@)] /\ UNCHANGED <<schedVars, cpu>>
    BY <1>1, Zenon DEF Iret, At
  <2> QED
    BY <2>1, PopStackInv, Zenon
<1>2. CASE Halt \/ UNCHANGED vars
  BY <1>2, UnchangedStackInv, Zenon DEF Halt, vars
<1> QED
  BY <1>1, <1>2, LockStackInv, CallStepStackInv, MonitorStackInv, InterruptStackInv, Zenon DEF Next

\* Threads and stacks, in every state the kernel reaches.
THEOREM StacksAreWellFormed == Spec => []StackInv
BY StackInvInit, StackInvNext, PTL DEF Spec

\* ThreadPlaces, for any number of tasks and any depth of stack: no thread is
\* lost or queued twice by any interleaving of yield(), vanish(), add() and
\* interrupts, and whoever is switched to is suspended in a context switch.
THEOREM ThreadsHaveOnePlace == Spec => []ThreadPlaces
BY StacksAreWellFormed, PTL DEF StackInv

=============================================================================
