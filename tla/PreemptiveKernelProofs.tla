----------------------- MODULE PreemptiveKernelProofs -----------------------
(***************************************************************************)
(* The safety properties of PreemptiveKernel, for any finite set of tasks  *)
(* and any bound on the depth of the stacks, and that the kernel with its  *)
(* locks and interrupts still implements Scheduler and RoundRobin.         *)
(***************************************************************************)
EXTENDS KernelStackProofs, FiniteSetTheorems

-----------------------------------------------------------------------------
(***************************************************************************)
(* The inductive invariant.                                                *)
(***************************************************************************)

\* While no interrupt has torn a lock(), at most one interrupt handler holds
\* its guard, and it may have been preempted; all other guards are held by
\* the running thread, and above that handler if it is on its stack.
OneHandler ==
    /\ \A g, h \in Guards :
         stack[g[1]][g[2]].proc = "isr" /\ stack[h[1]][h[2]].proc = "isr" => g = h
    /\ \A g \in Guards : stack[g[1]][g[2]].proc # "isr" => g[1] = cpu
    /\ \A g \in Guards : \A i \in 1 .. Len(stack[g[1]]) :
         i > g[2] => stack[g[1]][i].proc # "isr"

\* An unlock() executes sti, and an interrupt returns, when nothing is held;
\* and a handler starts so.
FreeAtEdges ==
    /\ TopAt(cpu) \in {"sti", "iret"} => count_ = 0
    /\ Top(cpu).proc = "isr" /\ TopAt(cpu) = "add" => count_ = 0

\* The scheduler is locked only while one of its operations has the
\* processor.
LockedInside ==
    is_locked_ => /\ Top(cpu).proc \in SchedulerProcs \cup {"start"}
                  /\ TopAt(cpu) \in {"body", "clear"}

LockTypeOK ==
    /\ count_ \in Nat
    /\ IF_ \in BOOLEAN
    /\ is_locked_ \in BOOLEAN
    /\ panicked \in {"no", "reentrancy", "nobody left"}
    /\ torn \in BOOLEAN

Inv ==
    /\ StackInv
    /\ LockTypeOK
    /\ CountIsGuards
    /\ EnabledWhenFree
    /\ VanishFindsThread
    /\ ReentrancyOnlyIfTorn
    /\ MaskedWhileGuarded
    /\ ~torn => OneHandler /\ FreeAtEdges /\ LockedInside

-----------------------------------------------------------------------------
(***************************************************************************)
(* What a step does to the set of guards.                                  *)
(***************************************************************************)

\* The guard of the frame the processor is in.
TopGuard == <<cpu, Len(stack[cpu])>>

\* The frame <<t, i>> of the stacks st is there and holds.
HoldsIn(st, t, i) == t \in Threads /\ i \in 1 .. Len(st[t]) /\ Holds(st[t][i])

\* The guards are the frames that hold.
LEMMA GuardsOfStacks ==
    ASSUME NEW st \in [Threads -> Seq(Frames)], \A t \in Threads : Len(st[t]) <= MaxFrames,
           NEW G, G = {g \in Threads \X (1 .. MaxFrames) :
                         g[2] <= Len(st[g[1]]) /\ Holds(st[g[1]][g[2]])}
    PROVE  /\ IsFiniteSet(G)
           /\ \A t, i : <<t, i>> \in G <=> HoldsIn(st, t, i)
           /\ \A g \in G : g = <<g[1], g[2]>>
<1>1. IsFiniteSet(Threads) /\ IsFiniteSet(1 .. MaxFrames)
  BY ThreadsAssumption, MaxFramesAssumption, FS_AddElement, FS_Interval DEF Threads
<1>2. IsFiniteSet(Threads \X (1 .. MaxFrames))
  BY <1>1, FS_Product, Zenon
<1>3. IsFiniteSet(G)
  BY <1>2, FS_Subset, Zenon
<1>4. ASSUME NEW t, NEW i
      PROVE  <<t, i>> \in G <=> HoldsIn(st, t, i)
  <2>1. t \in Threads => Len(st[t]) \in Nat /\ Len(st[t]) <= MaxFrames
    BY LenProperties, Zenon
  <2> QED
    BY <2>1, MaxFramesAssumption DEF HoldsIn
<1>5. \A g \in G : g = <<g[1], g[2]>>
  OBVIOUS
<1> QED
  BY <1>3, <1>4, <1>5, Zenon

LEMMA GuardsAre ==
    ASSUME StackInv
    PROVE  /\ IsFiniteSet(Guards)
           /\ \A t, i : <<t, i>> \in Guards <=> HoldsIn(stack, t, i)
           /\ \A g \in Guards : g = <<g[1], g[2]>>
BY GuardsOfStacks, Zenon DEF StackInv, StackTypeOK, Guards

LEMMA GuardsWillBe ==
    ASSUME StackInv'
    PROVE  /\ IsFiniteSet(Guards')
           /\ \A t, i : <<t, i>> \in Guards' <=> HoldsIn(stack', t, i)
           /\ \A g \in Guards' : g = <<g[1], g[2]>>
BY GuardsOfStacks, Zenon DEF StackInv, StackTypeOK, Guards

\* Two sets of guards with the same members are the same.
LEMMA SameGuards ==
    ASSUME NEW G, NEW H, \A g \in G \cup H : g = <<g[1], g[2]>>,
           \A t, i : <<t, i>> \in G <=> <<t, i>> \in H
    PROVE  G = H
OBVIOUS

\* The stack of the running thread becomes r, whose frames below the newest
\* one are the old ones and where at most that one holds above them.
CpuStackBecomes(r) ==
    /\ cpu' = cpu
    /\ stack' = [stack EXCEPT ![cpu] = r]
    /\ r \in Seq(Frames)
    /\ Len(r) >= Len(stack[cpu]) - 1
    /\ \A i \in 1 .. Len(stack[cpu]) - 1 : r[i] = stack[cpu][i]
    /\ \A i \in 1 .. Len(r) : i > Len(stack[cpu]) => ~Holds(r[i])

HoldsAt(r, n) == n <= Len(r) /\ Holds(r[n])

LEMMA CpuGuards ==
    ASSUME StackInv, StackInv', NEW r, CpuStackBecomes(r)
    PROVE  Guards' = IF HoldsAt(r, Len(stack[cpu]))
                     THEN Guards \cup {TopGuard} ELSE Guards \ {TopGuard}
<1> DEFINE n == Len(stack[cpu])
           G == IF HoldsAt(r, n) THEN Guards \cup {TopGuard} ELSE Guards \ {TopGuard}
<1>1. /\ cpu \in Threads /\ stack \in [Threads -> Seq(Frames)]
      /\ n \in Nat /\ n >= 1 /\ Len(r) \in Nat
  BY CpuStack, LenProperties, Zenon DEF StackInv, StackTypeOK, CpuStackBecomes
<1>2. stack'[cpu] = r /\ \A t \in Threads : t # cpu => stack'[t] = stack[t]
  BY <1>1, Zenon DEF CpuStackBecomes
<1>3. TopGuard = <<cpu, n>>
  BY Zenon DEF TopGuard
<1>4. /\ Len(r) >= n - 1 /\ \A i \in 1 .. n - 1 : r[i] = stack[cpu][i]
      /\ \A i \in 1 .. Len(r) : i > n => ~Holds(r[i])
  BY Zenon DEF CpuStackBecomes
<1>5. \A g \in Guards' \cup G : g = <<g[1], g[2]>>
  BY <1>3, GuardsAre, GuardsWillBe
<1>6. ASSUME NEW t, NEW i
      PROVE  <<t, i>> \in Guards' <=> <<t, i>> \in G
  <2>1. <<t, i>> \in Guards' <=> HoldsIn(stack', t, i)
    BY GuardsWillBe, Zenon
  <2>2. <<t, i>> \in Guards <=> HoldsIn(stack, t, i)
    BY GuardsAre, Zenon
  <2>3. CASE t # cpu
    BY <1>2, <1>3, <2>1, <2>2, <2>3, Zenon DEF HoldsIn
  <2>4. CASE t = cpu /\ i = n
    BY <1>1, <1>2, <1>3, <2>1, <2>4, SMTT(30) DEF HoldsIn, HoldsAt
  <2>5. CASE t = cpu /\ i # n
    <3>1. HoldsIn(stack', t, i) <=> i \in 1 .. Len(r) /\ Holds(r[i])
      BY <1>1, <1>2, <2>5, Zenon DEF HoldsIn
    <3>2. HoldsIn(stack, t, i) <=> i \in 1 .. n /\ Holds(stack[cpu][i])
      BY <1>1, <2>5, Zenon DEF HoldsIn
    <3> HIDE DEF n
    <3>3. i \in 1 .. Len(r) /\ Holds(r[i]) <=> i \in 1 .. n /\ Holds(stack[cpu][i])
      BY <1>1, <1>4, <2>5
    <3> QED
      BY <1>3, <2>1, <2>2, <2>5, <3>1, <3>2, <3>3, Zenon
  <2> QED
    BY <2>3, <2>4, <2>5, Zenon
<1> QED
  BY <1>5, <1>6, SameGuards, Zenon

\* An interrupt's guard stays the only one of its kind as long as no handler
\* is pushed, and none takes its lock while anything is held.
LEMMA CpuOneHandler ==
    ASSUME StackInv, StackInv', OneHandler, NEW r, CpuStackBecomes(r),
           Len(stack[cpu]) <= Len(r) =>
               (r[Len(stack[cpu])].proc = "isr" <=> Top(cpu).proc = "isr"),
           \A i \in 1 .. Len(r) : i > Len(stack[cpu]) => r[i].proc # "isr",
           HoldsAt(r, Len(stack[cpu])) /\ Top(cpu).proc = "isr" =>
               TopGuard \in Guards \/ Guards = {}
    PROVE  OneHandler'
<1> DEFINE n == Len(stack[cpu])
<1>1. /\ cpu \in Threads /\ stack \in [Threads -> Seq(Frames)] /\ TopGuard = <<cpu, n>>
      /\ n \in Nat /\ n >= 1 /\ Len(r) \in Nat /\ Top(cpu) = stack[cpu][n]
  BY CpuStack, LenProperties, Zenon DEF StackInv, StackTypeOK, CpuStackBecomes, TopGuard, Top
<1>2. stack'[cpu] = r /\ cpu' = cpu /\ \A t \in Threads : t # cpu => stack'[t] = stack[t]
  BY <1>1, Zenon DEF CpuStackBecomes
<1>3. /\ Len(r) >= n - 1 /\ \A i \in 1 .. n - 1 : r[i] = stack[cpu][i]
      /\ n <= Len(r) => (r[n].proc = "isr" <=> stack[cpu][n].proc = "isr")
      /\ \A i \in 1 .. Len(r) : i > n => ~Holds(r[i]) /\ r[i].proc # "isr"
  BY <1>1, Zenon DEF CpuStackBecomes
<1>4. Guards' \subseteq Guards \cup {TopGuard}
  BY CpuGuards, Zenon
<1>5. /\ TopGuard \in Guards' => HoldsAt(r, n)
      /\ \A g \in Guards' : /\ g[1] \in Threads /\ g = <<g[1], g[2]>>
                            /\ g[2] \in 1 .. Len(stack'[g[1]])
      /\ \A g \in Guards : /\ g[1] \in Threads /\ g = <<g[1], g[2]>>
                           /\ g[2] \in 1 .. Len(stack[g[1]])
  <2>1. TopGuard \in Guards' => HoldsAt(r, n)
    BY <1>1, CpuGuards, Zenon
  <2>2. ASSUME NEW g \in Guards' PROVE g = <<g[1], g[2]>> /\ HoldsIn(stack', g[1], g[2])
    BY GuardsWillBe, Zenon
  <2>3. ASSUME NEW g \in Guards PROVE g = <<g[1], g[2]>> /\ HoldsIn(stack, g[1], g[2])
    BY GuardsAre, Zenon
  <2> QED
    BY <2>1, <2>2, <2>3, Zenon DEF HoldsIn
<1> HIDE DEF n
<1>6. ASSUME NEW g \in Guards'
      PROVE  stack'[g[1]][g[2]].proc = "isr" <=> stack[g[1]][g[2]].proc = "isr"
  <2>1. CASE g[1] # cpu
    BY <1>2, <1>5, <2>1, Zenon
  <2>2. CASE g[1] = cpu
    <3>1. g[2] \in 1 .. Len(r) /\ g[2] <= n
      <4>1. HoldsIn(stack', g[1], g[2])
        BY GuardsWillBe, Zenon
      <4> QED
        BY <1>1, <1>2, <1>3, <2>2, <4>1 DEF HoldsIn
    <3> QED
      BY <1>1, <1>2, <1>3, <2>2, <3>1, SMTT(30)
  <2> QED
    BY <2>1, <2>2, Zenon
<1>7. TopGuard[1] = cpu /\ TopGuard[2] = n
  BY <1>1, Zenon
<1>8. ASSUME NEW g \in Guards', NEW h \in Guards',
             stack'[g[1]][g[2]].proc = "isr", stack'[h[1]][h[2]].proc = "isr"
      PROVE  g = h
  <2>1. stack[g[1]][g[2]].proc = "isr" /\ stack[h[1]][h[2]].proc = "isr"
    BY <1>6, <1>8, Zenon
  <2>2. g \in Guards /\ h \in Guards => g = h
    BY <2>1, Zenon DEF OneHandler
  <2>3. TopGuard \in Guards' /\ Top(cpu).proc = "isr" => TopGuard \in Guards \/ Guards = {}
    BY <1>5, Zenon DEF n
  <2>4. TopGuard \in {g, h} => Top(cpu).proc = "isr"
    BY <1>1, <1>7, <2>1, Zenon
  <2>5. g \notin Guards \/ h \notin Guards => Guards = {}
    BY <1>4, <2>3, <2>4, Zenon
  <2> QED
    BY <1>4, <2>2, <2>5, Zenon
<1>9. ASSUME NEW g \in Guards', stack'[g[1]][g[2]].proc # "isr"
      PROVE  g[1] = cpu'
  BY <1>2, <1>4, <1>6, <1>9, <1>7, ZenonT(30) DEF OneHandler
<1>10. ASSUME NEW g \in Guards', NEW i \in 1 .. Len(stack'[g[1]]), i > g[2]
      PROVE  stack'[g[1]][i].proc # "isr"
  <2>1. CASE g[1] # cpu
    BY <1>1, <1>2, <1>4, <1>5, <1>10, <2>1, SMTT(30) DEF OneHandler
  <2>2. CASE g[1] = cpu /\ i > n
    BY <1>2, <1>3, <2>2, Zenon
  <2>3. CASE g[1] = cpu /\ i <= n
    <3>1. g # TopGuard /\ g \in Guards /\ i \in 1 .. n /\ i \in 1 .. Len(r) /\ n = Len(stack[cpu])
      BY <1>1, <1>2, <1>4, <1>5, <1>10, <2>3, SMTT(30) DEF n
    <3>2. stack[cpu][i].proc # "isr"
      BY <1>10, <2>3, <3>1, Zenon DEF OneHandler
    <3>3. r[i].proc # "isr"
      BY <1>1, <1>3, <3>1, <3>2, SMTT(30)
    <3> QED
      BY <1>2, <2>3, <3>3, Zenon
  <2> QED
    BY <1>1, <1>5, <1>10, <2>1, <2>2, <2>3, SMTT(30)
<1> QED
  BY <1>8, <1>9, <1>10, Zenon DEF OneHandler

\* Nothing is held.
LEMMA NoGuards ==
    ASSUME Guards' = {}
    PROVE  OneHandler'
BY Zenon DEF OneHandler

-----------------------------------------------------------------------------
(***************************************************************************)
(* The guards, effect by effect.                                           *)
(***************************************************************************)
LEMMA TopGuardHolds ==
    ASSUME StackInv
    PROVE  TopGuard \in Guards <=> TopAt(cpu) \in HoldingPoints
<1>1. cpu \in Threads /\ Len(stack[cpu]) \in 1 .. Len(stack[cpu])
  BY CpuStack
<1>2. TopGuard \in Guards <=> HoldsIn(stack, cpu, Len(stack[cpu]))
  BY GuardsAre, Zenon DEF TopGuard
<1> QED
  BY <1>1, <1>2, Zenon DEF HoldsIn, Holds, TopAt, Top

\* The running frame moves.
LEMMA GotoEffect ==
    ASSUME StackInv, StackInv', cpu' = cpu, NEW at \in Points, Goto(at)
    PROVE  /\ Top(cpu)' = Frame(Top(cpu).proc, at) /\ TopAt(cpu)' = at
           /\ Guards' = IF at \in HoldingPoints THEN Guards \cup {TopGuard}
                                                ELSE Guards \ {TopGuard}
           /\ \/ ~OneHandler
              \/ at \in HoldingPoints /\ Top(cpu).proc = "isr" /\ TopGuard \notin Guards /\ Guards # {}
              \/ OneHandler'
<1> DEFINE s == stack[cpu]
           r == Moved(s, at)
<1>1. s \in Seq(Frames) /\ s # << >> /\ cpu \in Threads /\ Top(cpu) = s[Len(s)]
  BY CpuStack, Zenon DEF Top
<1>2. stack' = [stack EXCEPT ![cpu] = r]
  BY Zenon DEF Goto
<1> HIDE DEF s
<1>3. /\ r \in Seq(Frames) /\ Len(r) = Len(s) /\ Len(s) \in Nat /\ Len(s) >= 1
      /\ \A i \in 1 .. Len(s) : i # Len(s) => r[i] = s[i]
      /\ r[Len(s)] = Frame(s[Len(s)].proc, at)
  BY <1>1, MovedFacts, Zenon
<1> HIDE DEF r
<1>4. stack'[cpu] = r
  BY <1>1, <1>2, Zenon DEF StackInv, StackTypeOK
<1>5. CpuStackBecomes(r)
  BY <1>2, <1>3 DEF CpuStackBecomes, s
<1>6. HoldsAt(r, Len(s)) <=> at \in HoldingPoints
  BY <1>3 DEF HoldsAt, Holds, Frame
<1>7. Guards' = IF HoldsAt(r, Len(s)) THEN Guards \cup {TopGuard} ELSE Guards \ {TopGuard}
  BY <1>5, CpuGuards, Zenon DEF s
<1>8. Top(cpu)' = Frame(Top(cpu).proc, at) /\ TopAt(cpu)' = at
  BY <1>1, <1>3, <1>4, SMTT(30) DEF Top, TopAt, Frame
<1>9. \/ OneHandler' \/ ~OneHandler
      \/ at \in HoldingPoints /\ Top(cpu).proc = "isr" /\ TopGuard \notin Guards /\ Guards # {}
  <2>1. r[Len(s)].proc = "isr" <=> Top(cpu).proc = "isr"
    BY <1>1, <1>3 DEF Frame
  <2>2. \A i \in 1 .. Len(r) : i > Len(s) => r[i].proc # "isr"
    BY <1>3
  <2> SUFFICES ASSUME OneHandler, HoldsAt(r, Len(s)) /\ Top(cpu).proc = "isr" =>
                                       TopGuard \in Guards \/ Guards = {}
               PROVE  OneHandler'
    BY <1>6, Zenon
  <2> QED
    BY <1>5, <2>1, <2>2, CpuOneHandler, Zenon DEF s
<1> QED
  BY <1>6, <1>7, <1>8, <1>9, Zenon

\* The running frame calls.
LEMMA CallEffect ==
    ASSUME StackInv, StackInv', cpu' = cpu, NEW at \in Points, NEW proc \in Procs \ {"isr"},
           Call(proc, at), at \in HoldingPoints <=> TopAt(cpu) \in HoldingPoints
    PROVE  /\ Top(cpu)' = Frame(proc, "add") /\ TopAt(cpu)' = "add"
           /\ Guards' = Guards
           /\ OneHandler => OneHandler'
<1> DEFINE s == stack[cpu]
           m == Moved(s, at)
           r == Pushed(m, proc)
<1>1. s \in Seq(Frames) /\ s # << >> /\ cpu \in Threads /\ Top(cpu) = s[Len(s)]
  BY CpuStack, Zenon DEF Top
<1>2. stack' = [stack EXCEPT ![cpu] = r]
  BY Zenon DEF Call
<1> HIDE DEF s
<1>3. /\ m \in Seq(Frames) /\ Len(m) = Len(s) /\ Len(s) \in Nat /\ Len(s) >= 1
      /\ \A i \in 1 .. Len(s) : i # Len(s) => m[i] = s[i]
      /\ m[Len(s)] = Frame(s[Len(s)].proc, at)
  BY <1>1, MovedFacts, Zenon
<1> HIDE DEF m
<1>4. /\ r \in Seq(Frames) /\ Len(r) = Len(s) + 1
      /\ \A i \in 1 .. Len(s) : r[i] = m[i]
      /\ r[Len(s) + 1] = Frame(proc, "add")
  BY <1>3, PushedFacts
<1> HIDE DEF r
<1>5. stack'[cpu] = r
  BY <1>1, <1>2, Zenon DEF StackInv, StackTypeOK
<1>6. \A i \in 1 .. Len(r) : i > Len(s) => i = Len(s) + 1
  BY <1>3, <1>4
<1>7. CpuStackBecomes(r)
  <2>1. \A i \in 1 .. Len(r) : i > Len(s) => ~Holds(r[i])
    BY <1>4, <1>6, SMTT(30) DEF Holds, HoldingPoints, Frame
  <2>2. Len(r) >= Len(s) - 1 /\ \A i \in 1 .. Len(s) - 1 : r[i] = s[i]
    BY <1>3, <1>4
  <2> QED
    BY <1>2, <1>4, <2>1, <2>2, Zenon DEF CpuStackBecomes, s
<1>8. HoldsAt(r, Len(s)) <=> TopGuard \in Guards
  <2>1. r[Len(s)].at = at /\ Len(s) <= Len(r)
    BY <1>3, <1>4 DEF Frame
  <2> QED
    BY <2>1, TopGuardHolds, Zenon DEF HoldsAt, Holds
<1>9. Guards' = Guards
  <2>1. Guards' = IF HoldsAt(r, Len(s)) THEN Guards \cup {TopGuard} ELSE Guards \ {TopGuard}
    BY <1>7, CpuGuards, Zenon DEF s
  <2> QED
    BY <1>8, <2>1, Zenon
<1>10. Top(cpu)' = Frame(proc, "add") /\ TopAt(cpu)' = "add"
  BY <1>3, <1>4, <1>5, SMTT(30) DEF Top, TopAt, Frame
<1>11. OneHandler => OneHandler'
  <2>1. r[Len(s)].proc = "isr" <=> Top(cpu).proc = "isr"
    BY <1>1, <1>3, <1>4, SMTT(30) DEF Frame
  <2>2. \A i \in 1 .. Len(r) : i > Len(s) => r[i].proc # "isr"
    BY <1>4, <1>6, SMTT(30) DEF Frame
  <2> QED
    BY <1>7, <1>8, <2>1, <2>2, CpuOneHandler, ZenonT(30) DEF s
<1> QED
  BY <1>9, <1>10, <1>11, Zenon

\* An interrupt arrives.
LEMMA InterruptEffect ==
    ASSUME StackInv, StackInv', Interrupt
    PROVE  /\ Top(cpu)' = Frame("isr", "add") /\ TopAt(cpu)' = "add"
           /\ Guards' = Guards
<1> DEFINE s == stack[cpu]
           r == Pushed(s, "isr")
<1>1. s \in Seq(Frames) /\ s # << >> /\ cpu \in Threads /\ Top(cpu) = s[Len(s)]
  BY CpuStack, Zenon DEF Top
<1>2. stack' = [stack EXCEPT ![cpu] = r] /\ cpu' = cpu
  BY Zenon DEF Interrupt
<1> HIDE DEF s
<1>3. /\ r \in Seq(Frames) /\ Len(r) = Len(s) + 1 /\ Len(s) \in Nat
      /\ \A i \in 1 .. Len(s) : r[i] = s[i]
      /\ r[Len(s) + 1] = Frame("isr", "add")
  BY <1>1, PushedFacts, Zenon DEF Procs
<1> HIDE DEF r
<1>4. stack'[cpu] = r
  BY <1>1, <1>2, Zenon DEF StackInv, StackTypeOK
<1>5. \A i \in 1 .. Len(r) : i > Len(s) => i = Len(s) + 1
  BY <1>3
<1>6. CpuStackBecomes(r)
  <2>1. \A i \in 1 .. Len(r) : i > Len(s) => ~Holds(r[i])
    BY <1>3, <1>5, SMTT(30) DEF Holds, HoldingPoints, Frame
  <2>2. Len(r) >= Len(s) - 1 /\ \A i \in 1 .. Len(s) - 1 : r[i] = s[i]
    BY <1>3
  <2> QED
    BY <1>2, <1>3, <2>1, <2>2, ZenonT(30) DEF CpuStackBecomes, s
<1>7. HoldsAt(r, Len(s)) <=> TopGuard \in Guards
  <2>1. r[Len(s)] = s[Len(s)] /\ Len(s) <= Len(r) /\ TopAt(cpu) = s[Len(s)].at
    BY <1>1, <1>3, CpuStack, SMTT(30) DEF TopAt, s
  <2> QED
    BY <2>1, TopGuardHolds, Zenon DEF HoldsAt, Holds
<1>8. Guards' = IF HoldsAt(r, Len(s)) THEN Guards \cup {TopGuard} ELSE Guards \ {TopGuard}
  BY <1>6, CpuGuards, Zenon DEF s
<1>9. Top(cpu)' = Frame("isr", "add") /\ TopAt(cpu)' = "add"
  BY <1>2, <1>3, <1>4, SMTT(30) DEF Top, TopAt, Frame
<1> QED
  BY <1>7, <1>8, <1>9, Zenon

\* The running frame returns.
LEMMA PopEffect ==
    ASSUME StackInv, StackInv', cpu' = cpu, stack' = [stack EXCEPT ![cpu] = Popped(@)],
           Top(cpu).proc \notin {"code", "start"}
    PROVE  /\ Guards' = Guards \ {TopGuard}
           /\ OneHandler => OneHandler'
           /\ MayBeBelow(Top(cpu)', Top(cpu)) /\ TopAt(cpu)' = Top(cpu)'.at
<1> DEFINE s == stack[cpu]
           r == Popped(s)
<1>1. /\ s \in Seq(Frames) /\ s # << >> /\ cpu \in Threads /\ Top(cpu) = s[Len(s)]
      /\ Len(s) >= 2 /\ Len(s) \in Nat /\ WellFormed(cpu, s)
  BY CpuStack, Returnable, Zenon DEF Top
<1>2. stack' = [stack EXCEPT ![cpu] = r]
  BY Zenon
<1> HIDE DEF s
<1>3. /\ r \in Seq(Frames) /\ Len(r) = Len(s) - 1
      /\ \A i \in 1 .. Len(s) - 1 : r[i] = s[i]
  BY <1>1, PoppedFacts, Zenon
<1> HIDE DEF r
<1>4. stack'[cpu] = r
  BY <1>1, <1>2, Zenon DEF StackInv, StackTypeOK
<1>5. CpuStackBecomes(r) /\ ~HoldsAt(r, Len(s)) /\ \A i \in 1 .. Len(r) : ~(i > Len(s))
  <2>1. ~HoldsAt(r, Len(s)) /\ \A i \in 1 .. Len(r) : ~(i > Len(s))
    BY <1>1, <1>3, SMTT(30) DEF HoldsAt
  <2>2. Len(r) >= Len(s) - 1 /\ \A i \in 1 .. Len(r) : i > Len(s) => ~Holds(r[i])
    BY <1>1, <1>3, <2>1, SMTT(30)
  <2> QED
    BY <1>2, <1>3, <2>1, <2>2, ZenonT(30) DEF CpuStackBecomes, s
<1>6. Guards' = Guards \ {TopGuard}
  BY <1>5, CpuGuards, Zenon DEF s
<1>7. OneHandler => OneHandler'
  <2>1. ~(Len(s) <= Len(r)) /\ \A i \in 1 .. Len(r) : i > Len(s) => r[i].proc # "isr"
    BY <1>1, <1>3, <1>5, SMTT(30)
  <2> QED
    BY <1>5, <2>1, CpuOneHandler, Zenon DEF s
<1>8. Top(cpu)' = s[Len(s) - 1] /\ TopAt(cpu)' = Top(cpu)'.at
  <2>1. Len(s) - 1 \in 1 .. Len(s) - 1
    BY <1>1
  <2> QED
    BY <1>3, <1>4, <2>1, Zenon DEF Top, TopAt
<1>9. MayBeBelow(s[Len(s) - 1], s[Len(s)])
  BY <1>1 DEF WellFormed
<1> QED
  BY <1>1, <1>6, <1>7, <1>8, <1>9, Zenon

\* The running frame releases its lock.
LEMMA ReleaseEffect ==
    ASSUME StackInv, StackInv', cpu' = cpu, stack' = [stack EXCEPT ![cpu] = Released(@)],
           TopAt(cpu) \in {"sub", "sti"}
    PROVE  /\ Guards' = Guards \ {TopGuard}
           /\ OneHandler => OneHandler'
           /\ IF Top(cpu).proc = "isr" THEN TopAt(cpu)' = "iret"
                                       ELSE TopAt(cpu)' \in {"run", "body", "sub"}
<1>1. /\ cpu \in Threads /\ stack[cpu] \in Seq(Frames) /\ stack[cpu] # << >>
      /\ Legal(Top(cpu)) /\ TopAt(cpu) = Top(cpu).at /\ Top(cpu) \in Frames
      /\ Top(cpu) = stack[cpu][Len(stack[cpu])]
  BY CpuStack, Zenon DEF Top
<1>2. CASE Top(cpu).proc = "isr"
  <2>1. Goto("iret") /\ "iret" \in Points /\ "iret" \notin HoldingPoints
    BY <1>1, <1>2, Zenon DEF Released, Goto, Points, HoldingPoints
  <2> QED
    BY <1>2, <2>1, GotoEffect, Zenon
<1>3. CASE Top(cpu).proc = "start"
  <2> DEFINE f == Frame("code", "run")
             s == stack[cpu]
             r == [s EXCEPT ![Len(s)] = f]
  <2>1. Len(s) = 1 /\ s \in Seq(Frames)
    BY <1>1, <1>3, StartAtBottom, Zenon
  <2>2. stack' = [stack EXCEPT ![cpu] = r]
    BY <1>1, <1>3, Zenon DEF Released
  <2>3. f \in Frames /\ f.at = "run" /\ f.proc = "code" /\ ~Holds(f)
    BY Zenon DEF f, Frame, Frames, Procs, Points, Holds, HoldingPoints
  <2> HIDE DEF f, s
  <2>4. r \in Seq(Frames) /\ Len(r) = 1 /\ r[1] = f
    BY <2>1, <2>3, ExceptSeq, SMTT(30)
  <2> HIDE DEF r
  <2>5. stack'[cpu] = r
    BY <1>1, <2>2, Zenon DEF StackInv, StackTypeOK
  <2>6. CpuStackBecomes(r) /\ ~HoldsAt(r, Len(s)) /\ \A i \in 1 .. Len(r) : ~(i > Len(s))
    <3>1. ~HoldsAt(r, Len(s)) /\ \A i \in 1 .. Len(r) : ~(i > Len(s))
      BY <2>1, <2>3, <2>4, SMTT(30) DEF HoldsAt
    <3>2. /\ Len(r) >= Len(s) - 1 /\ \A i \in 1 .. Len(r) : i > Len(s) => ~Holds(r[i])
          /\ \A i \in 1 .. Len(s) - 1 : r[i] = s[i]
      BY <2>1, <2>4, <3>1
    <3> QED
      BY <2>2, <2>4, <3>1, <3>2, ZenonT(30) DEF CpuStackBecomes, s
  <2>7. Guards' = Guards \ {TopGuard}
    BY <2>6, CpuGuards, Zenon DEF s
  <2>8. /\ r[Len(s)].proc # "isr" /\ Top(cpu).proc # "isr"
        /\ \A i \in 1 .. Len(r) : i > Len(s) => r[i].proc # "isr"
    BY <1>3, <2>1, <2>3, <2>4, SMTT(30)
  <2>9. OneHandler => OneHandler'
    BY <2>6, <2>8, CpuOneHandler, Zenon DEF s
  <2>10. TopAt(cpu)' = "run"
    BY <2>3, <2>4, <2>5, Zenon DEF Top, TopAt
  <2> QED
    BY <1>3, <2>7, <2>9, <2>10, Zenon
<1>4. CASE Top(cpu).proc \notin {"isr", "start"}
  <2>1. stack' = [stack EXCEPT ![cpu] = Popped(@)] /\ Top(cpu).proc # "code"
    BY <1>1, <1>4, Zenon DEF Released, Legal
  <2>2. /\ Guards' = Guards \ {TopGuard}
        /\ OneHandler => OneHandler'
        /\ MayBeBelow(Top(cpu)', Top(cpu)) /\ TopAt(cpu)' = Top(cpu)'.at
    BY <1>4, <2>1, PopEffect, Zenon
  <2>3. Top(cpu).proc \in {"guard", "add", "begin", "yield", "vanish"}
    BY <1>1, <1>4, <2>1, Zenon DEF Frames, Procs, SchedulerProcs
  <2>4. TopAt(cpu)' \in {"run", "body", "sub"}
    BY <2>2, <2>3, Zenon DEF MayBeBelow
  <2> QED
    BY <1>4, <2>2, <2>4, Zenon
<1> QED
  BY <1>2, <1>3, <1>4, Zenon

\* A thread leaves the processor with its newest frame no longer holding and
\* its other guards in place.
Leaves(s) ==
    /\ s \in Seq(Frames)
    /\ Len(s) <= Len(stack[cpu])
    /\ \A i \in 1 .. Len(s) :
         /\ s[i].proc = stack[cpu][i].proc
         /\ Holds(s[i]) <=> i # Len(stack[cpu]) /\ Holds(stack[cpu][i])
    /\ \A i \in 1 .. Len(stack[cpu]) - 1 : Holds(stack[cpu][i]) => i <= Len(s)

\* A context switch hands the lock of the thread switched from to the thread
\* switched to.
LEMMA SwitchGuards ==
    ASSUME StackInv, StackInv', cpu' \in Queued, NEW s, Leaves(s),
           stack' = [stack EXCEPT ![cpu] = s, ![cpu'] = Moved(@, "clear")]
    PROVE  /\ TopGuard' \notin Guards
           /\ Guards' = (Guards \ {TopGuard}) \cup {TopGuard'}
           /\ Top(cpu)'.proc \in {"yield", "start"} /\ TopAt(cpu)' = "clear"
           /\ TopGuard[1] # TopGuard'[1]
<1> DEFINE n == Len(stack[cpu])
           w == stack[cpu']
           m == Len(w)
           r == Moved(w, "clear")
<1>1. /\ cpu \in Threads /\ cpu' \in Threads /\ cpu' # cpu /\ n \in Nat /\ n >= 1
      /\ w \in Seq(Frames) /\ w # << >> /\ w[m].at = "susp" /\ Legal(w[m])
      /\ m \in Nat /\ m >= 1
  <2>1. /\ w \in Seq(Frames) /\ w # << >> /\ w[m].at = "susp" /\ WellFormed(cpu', w)
        /\ m \in Nat /\ m >= 1 /\ cpu' \in Threads /\ cpu' # cpu
    BY WaitingStack, Zenon DEF StackInv, ThreadPlaces, TopAt, Top
  <2>2. Legal(w[m])
    BY <2>1 DEF WellFormed
  <2> QED
    BY <2>1, <2>2, CpuStack, Zenon
<1> HIDE DEF w
<1>2. /\ r \in Seq(Frames) /\ Len(r) = m /\ r[m] = Frame(w[m].proc, "clear")
      /\ \A i \in 1 .. m : i # m => r[i] = w[i]
  BY <1>1, MovedFacts, Zenon DEF Points
<1> HIDE DEF m, r
<1>3. /\ stack'[cpu] = s /\ stack'[cpu'] = r
      /\ \A t \in Threads : t # cpu /\ t # cpu' => stack'[t] = stack[t]
  BY <1>1, Zenon DEF StackInv, StackTypeOK, r, w
<1>4. TopGuard = <<cpu, n>> /\ TopGuard' = <<cpu', m>>
  BY <1>2, <1>3, Zenon DEF TopGuard
<1>5. Top(cpu)' = r[m] /\ TopAt(cpu)' = r[m].at
  BY <1>2, <1>3, Zenon DEF Top, TopAt
<1>6. Top(cpu)'.proc \in {"yield", "start"} /\ TopAt(cpu)' = "clear"
  BY <1>1, <1>2, <1>5, SMTT(30) DEF Legal, Frame
<1>7. ~Holds(w[m]) /\ Holds(r[m])
  BY <1>1, <1>2 DEF Holds, HoldingPoints, Frame
<1>8. TopGuard' \notin Guards
  <2>1. TopGuard' \in Guards <=> HoldsIn(stack, cpu', m)
    BY <1>4, GuardsAre, Zenon
  <2> QED
    BY <1>7, <2>1, Zenon DEF HoldsIn, w
<1> DEFINE G == (Guards \ {TopGuard}) \cup {TopGuard'}
<1>9. \A g \in Guards' \cup G : g = <<g[1], g[2]>>
  BY <1>4, GuardsAre, GuardsWillBe, SMTT(30)
<1>10. ASSUME NEW t, NEW i
       PROVE  <<t, i>> \in Guards' <=> <<t, i>> \in G
  <2>1. <<t, i>> \in Guards' <=> HoldsIn(stack', t, i)
    BY GuardsWillBe, Zenon
  <2>2. <<t, i>> \in Guards <=> HoldsIn(stack, t, i)
    BY GuardsAre, Zenon
  <2>3. CASE t # cpu /\ t # cpu'
    BY <1>3, <1>4, <2>1, <2>2, <2>3, Zenon DEF HoldsIn
  <2>4. CASE t = cpu
    <3>1. HoldsIn(stack', t, i) <=> i \in 1 .. Len(s) /\ Holds(s[i])
      BY <1>1, <1>3, <2>4, Zenon DEF HoldsIn
    <3>2. HoldsIn(stack, t, i) <=> i \in 1 .. n /\ Holds(stack[cpu][i])
      BY <1>1, <2>4, Zenon DEF HoldsIn
    <3>3. /\ Len(s) \in Nat /\ Len(s) <= n
          /\ \A j \in 1 .. Len(s) : Holds(s[j]) <=> j # n /\ Holds(stack[cpu][j])
          /\ \A j \in 1 .. n - 1 : Holds(stack[cpu][j]) => j <= Len(s)
      BY LenProperties, Zenon DEF Leaves
    <3> HIDE DEF n
    <3>4. i \in 1 .. Len(s) /\ Holds(s[i]) <=> i \in 1 .. n /\ i # n /\ Holds(stack[cpu][i])
      BY <1>1, <3>3, SMTT(30)
    <3> QED
      BY <1>1, <1>4, <2>1, <2>2, <2>4, <3>1, <3>2, <3>4, Zenon
  <2>5. CASE t = cpu' /\ i = m
    BY <1>1, <1>2, <1>3, <1>4, <1>7, <2>1, <2>5, SMTT(30) DEF HoldsIn
  <2>6. CASE t = cpu' /\ i # m
    <3>1. HoldsIn(stack', t, i) <=> i \in 1 .. m /\ Holds(r[i])
      BY <1>1, <1>2, <1>3, <2>6, Zenon DEF HoldsIn
    <3>2. HoldsIn(stack, t, i) <=> i \in 1 .. m /\ Holds(w[i])
      BY <1>1, <2>6, Zenon DEF HoldsIn, w, m
    <3> QED
      BY <1>1, <1>2, <1>4, <2>1, <2>2, <2>6, <3>1, <3>2, Zenon
  <2> QED
    BY <2>3, <2>4, <2>5, <2>6, Zenon
<1>11. Guards' = G
  BY <1>9, <1>10, SameGuards, Zenon
<1> QED
  BY <1>1, <1>4, <1>6, <1>8, <1>11, SMTT(30)

\* The callers of yield() and vanish() hold nothing, or are the interrupt
\* handler.
LEMMA HandlerBelow ==
    ASSUME StackInv, OneHandler, Top(cpu).proc \in {"yield", "vanish"},
           NEW g \in Guards, g # TopGuard
    PROVE  stack[g[1]][g[2]].proc = "isr"
<1> SUFFICES ASSUME stack[g[1]][g[2]].proc # "isr" PROVE FALSE
  BY Zenon
<1> DEFINE n == Len(stack[cpu])
<1>1. g[1] = cpu /\ g = <<g[1], g[2]>> /\ HoldsIn(stack, g[1], g[2])
  BY GuardsAre, Zenon DEF OneHandler
<1>2. g[2] \in 1 .. n /\ g[2] # n /\ n \in Nat /\ Holds(stack[cpu][g[2]])
  BY <1>1, CpuStack, Zenon DEF HoldsIn, TopGuard
<1>3. /\ stack[cpu][n] = Top(cpu)
      /\ \A i \in 1 .. n : Legal(stack[cpu][i])
      /\ \A i \in 2 .. n : MayBeBelow(stack[cpu][i - 1], stack[cpu][i])
  BY CpuStack, Zenon DEF Top, WellFormed
<1>4. \A i \in 1 .. n : i > g[2] => stack[cpu][i].proc # "isr"
  BY <1>1, Zenon DEF OneHandler
<1> HIDE DEF n
<1>5. n \in 2 .. n /\ n - 1 \in 1 .. n /\ g[2] <= n - 1
  BY <1>2
<1>6. MayBeBelow(stack[cpu][n - 1], stack[cpu][n]) /\ Legal(stack[cpu][n - 1])
  BY <1>3, <1>5, Zenon
<1>7. CASE stack[cpu][n - 1].proc = "isr"
  <2>1. g[2] # n - 1
    BY <1>1, <1>7, Zenon
  <2> QED
    BY <1>2, <1>4, <1>5, <1>7, <2>1, SMTT(30)
<1>8. CASE stack[cpu][n - 1].proc # "isr"
  <2>1. stack[cpu][n - 1].at = "run" /\ stack[cpu][n - 1].proc = "code"
    BY <1>3, <1>6, <1>8, Zenon DEF MayBeBelow, Legal
  <2>2. n - 1 \notin 2 .. n
    BY <1>3, <2>1, Zenon DEF MayBeBelow
  <2>3. g[2] = n - 1
    BY <1>2, <1>5, <2>2, SMTT(30)
  <2> QED
    BY <1>2, <2>1, <2>3, Zenon DEF Holds, HoldingPoints
<1> QED
  BY <1>7, <1>8, Zenon

\* A context switch leaves at most the interrupt handler's guard behind.
LEMMA SwitchOneHandler ==
    ASSUME StackInv, StackInv', cpu' \in Queued, NEW s, Leaves(s),
           stack' = [stack EXCEPT ![cpu] = s, ![cpu'] = Moved(@, "clear")],
           Top(cpu).proc \in {"yield", "vanish"}, OneHandler
    PROVE  OneHandler'
<1> DEFINE w == stack[cpu']
           m == Len(w)
           r == Moved(w, "clear")
<1>1. /\ cpu \in Threads /\ cpu' \in Threads /\ cpu' # cpu
      /\ w \in Seq(Frames) /\ w # << >> /\ m \in Nat /\ m >= 1
  BY WaitingStack, CpuStack, Zenon
<1>2. /\ Guards' = (Guards \ {TopGuard}) \cup {TopGuard'} /\ TopGuard' \notin Guards
      /\ Top(cpu)'.proc \in {"yield", "start"}
  BY SwitchGuards, Zenon
<1> HIDE DEF w
<1>3. /\ r \in Seq(Frames) /\ Len(r) = m /\ r[m] = Frame(w[m].proc, "clear")
      /\ \A i \in 1 .. m : i # m => r[i] = w[i]
  BY <1>1, MovedFacts, Zenon DEF Points
<1> HIDE DEF m, r
<1>4. /\ stack'[cpu] = s /\ stack'[cpu'] = r
      /\ \A t \in Threads : t # cpu /\ t # cpu' => stack'[t] = stack[t]
  BY <1>1, Zenon DEF StackInv, StackTypeOK, r, w
<1>5. TopGuard'[1] = cpu' /\ TopGuard'[2] = m
  BY <1>3, <1>4, Zenon DEF TopGuard
<1>6. ASSUME NEW t \in Threads, NEW i \in 1 .. Len(stack'[t])
      PROVE  i \in 1 .. Len(stack[t]) /\ stack'[t][i].proc = stack[t][i].proc
  <2>1. CASE t = cpu
    <3>1. /\ Len(s) \in Nat /\ Len(stack[cpu]) \in Nat /\ Len(s) <= Len(stack[cpu])
          /\ \A j \in 1 .. Len(s) : s[j].proc = stack[cpu][j].proc
      BY LenProperties, CpuStack, Zenon DEF Leaves
    <3> QED
      BY <1>4, <1>6, <2>1, <3>1, SMTT(30)
  <2>2. CASE t = cpu'
    <3>1. i \in 1 .. m /\ r[i].proc = w[i].proc
      BY <1>1, <1>3, <1>4, <1>6, <2>2, SMTT(30) DEF Frame
    <3> QED
      BY <1>4, <2>2, <3>1, ZenonT(30) DEF w, m
  <2>3. CASE t # cpu /\ t # cpu'
    BY <1>4, <2>3, Zenon
  <2> QED
    BY <2>1, <2>2, <2>3, ZenonT(30)
<1>7. ASSUME NEW g \in Guards'
      PROVE  g[1] \in Threads /\ g[2] \in 1 .. Len(stack'[g[1]])
  <2>1. g = <<g[1], g[2]>> /\ HoldsIn(stack', g[1], g[2])
    BY GuardsWillBe, Zenon
  <2> QED
    BY <2>1, Zenon DEF HoldsIn
<1>8. ASSUME NEW g \in Guards', g # TopGuard'
      PROVE  g \in Guards /\ g # TopGuard /\ stack[g[1]][g[2]].proc = "isr"
  BY <1>2, <1>8, HandlerBelow, Zenon
<1>9. stack'[TopGuard'[1]][TopGuard'[2]].proc # "isr"
  <2>1. Top(cpu)' = r[m]
    BY <1>3, <1>4, Zenon DEF Top
  <2> QED
    BY <1>2, <1>4, <1>5, <2>1, ZenonT(30)
<1>10. ASSUME NEW g \in Guards', NEW h \in Guards',
              stack'[g[1]][g[2]].proc = "isr", stack'[h[1]][h[2]].proc = "isr"
       PROVE  g = h
  BY <1>8, <1>9, <1>10, Zenon DEF OneHandler
<1>11. ASSUME NEW g \in Guards', stack'[g[1]][g[2]].proc # "isr"
       PROVE  g[1] = cpu'
  BY <1>5, <1>6, <1>7, <1>8, <1>11, Zenon
<1>12. ASSUME NEW g \in Guards', NEW i \in 1 .. Len(stack'[g[1]]), i > g[2]
       PROVE  stack'[g[1]][i].proc # "isr"
  <2>1. CASE g = TopGuard'
    BY <1>1, <1>3, <1>4, <1>5, <1>12, <2>1, SMTT(30)
  <2>2. CASE g # TopGuard'
    <3>1. g \in Guards /\ g[1] \in Threads
      BY <1>7, <1>8, <2>2, Zenon
    <3>2. i \in 1 .. Len(stack[g[1]]) /\ stack'[g[1]][i].proc = stack[g[1]][i].proc
      BY <1>6, <3>1, Zenon
    <3>3. stack[g[1]][i].proc # "isr"
      BY <1>12, <3>1, <3>2, Zenon DEF OneHandler
    <3> QED
      BY <3>2, <3>3, Zenon
  <2> QED
    BY <2>1, <2>2, Zenon
<1> QED
  BY <1>10, <1>11, <1>12, Zenon DEF OneHandler

\* yield() leaves its caller's guard, if any, on the stack.
LEMMA YieldLeaves ==
    ASSUME StackInv
    PROVE  Leaves(Moved(stack[cpu], "susp"))
<1> DEFINE s == stack[cpu]
           r == Moved(s, "susp")
<1>1. s \in Seq(Frames) /\ s # << >>
  BY CpuStack, Zenon
<1> HIDE DEF s
<1>2. /\ r \in Seq(Frames) /\ Len(r) = Len(s) /\ Len(s) \in Nat /\ Len(s) >= 1
      /\ \A i \in 1 .. Len(s) : i # Len(s) => r[i] = s[i]
      /\ r[Len(s)] = Frame(s[Len(s)].proc, "susp")
  BY <1>1, MovedFacts, Zenon DEF Points
<1> HIDE DEF r
<1>3. ~Holds(r[Len(s)]) /\ r[Len(s)].proc = s[Len(s)].proc
  BY <1>2 DEF Holds, HoldingPoints, Frame
<1>4. Leaves(r)
  BY <1>2, <1>3 DEF Leaves, s
<1> QED
  BY <1>4, Zenon DEF r, s

\* vanish() is called by the thread's own code, which holds nothing.
LEMMA VanishLeaves ==
    ASSUME StackInv, Top(cpu).proc = "vanish"
    PROVE  Leaves(<< >>)
<1> DEFINE n == Len(stack[cpu])
<1>1. /\ n \in Nat /\ n >= 2 /\ stack[cpu][n].proc = "vanish"
      /\ \A i \in 1 .. n : Legal(stack[cpu][i])
      /\ \A i \in 2 .. n : MayBeBelow(stack[cpu][i - 1], stack[cpu][i])
  BY CpuStack, Returnable, Zenon DEF Top, WellFormed
<1> HIDE DEF n
<1>2. stack[cpu][n - 1].at = "run" /\ stack[cpu][n - 1].proc = "code"
  <2>1. n \in 2 .. n /\ n - 1 \in 1 .. n
    BY <1>1
  <2> QED
    BY <1>1, <2>1, Zenon DEF MayBeBelow, Legal
<1>3. n - 1 \notin 2 .. n
  BY <1>1, <1>2, Zenon DEF MayBeBelow
<1>4. n = 2
  BY <1>1, <1>3, SMTT(30)
<1>5. ~Holds(stack[cpu][1])
  BY <1>2, <1>4, SMTT(30) DEF Holds, HoldingPoints
<1>6. << >> \in Seq(Frames) /\ Len(<< >>) = 0
  BY EmptySeq, Zenon
<1> QED
  BY <1>4, <1>5, <1>6, SMTT(30) DEF Leaves, n

\* add() leaves the guards as they are.
LEMMA AddEffect ==
    ASSUME StackInv, StackInv', AddBody
    PROVE  /\ Top(cpu)' = Frame("add", "clear") /\ TopAt(cpu)' = "clear"
           /\ Guards' = Guards
           /\ OneHandler => OneHandler'
<1> PICK t \in Tasks : /\ stack[t] = << >> /\ t # cpu
                       /\ stack' = [stack EXCEPT ![t] = <<Frame("start", "susp")>>,
                                                 ![cpu] = Moved(@, "clear")]
  BY AddStackInv, Zenon
<1> DEFINE s == stack[cpu]
           r == Moved(s, "clear")
           new == <<Frame("start", "susp")>>
<1>1. /\ s \in Seq(Frames) /\ s # << >> /\ cpu \in Threads /\ s[Len(s)].proc = "add"
      /\ s[Len(s)].at = "body" /\ t \in Threads /\ cpu' = cpu
  BY CpuStack, Zenon DEF AddBody, At, Top, TopAt, Threads
<1> HIDE DEF s
<1>2. /\ r \in Seq(Frames) /\ Len(r) = Len(s) /\ Len(s) \in Nat /\ Len(s) >= 1
      /\ \A i \in 1 .. Len(s) : i # Len(s) => r[i] = s[i]
      /\ r[Len(s)] = Frame("add", "clear")
  BY <1>1, MovedFacts, Zenon DEF Points
<1>3. Len(new) = 1 /\ ~Holds(new[1])
  BY Zenon DEF new, Holds, HoldingPoints, Frame
<1> HIDE DEF r, new
<1>4. /\ stack'[cpu] = r /\ stack'[t] = new
      /\ \A u \in Threads : u # cpu /\ u # t => stack'[u] = stack[u]
  BY <1>1, Zenon DEF StackInv, StackTypeOK, r, s, new
<1>5. \A i \in 1 .. Len(s) : r[i].proc = s[i].proc /\ (Holds(r[i]) <=> Holds(s[i]))
  BY <1>1, <1>2, SMTT(30) DEF Holds, HoldingPoints, Frame
<1>6. Guards' = Guards
  <2>1. \A g \in Guards' \cup Guards : g = <<g[1], g[2]>>
    BY GuardsAre, GuardsWillBe, Zenon
  <2>2. ASSUME NEW u, NEW i
        PROVE  <<u, i>> \in Guards' <=> <<u, i>> \in Guards
    <3>1. /\ <<u, i>> \in Guards' <=> HoldsIn(stack', u, i)
          /\ <<u, i>> \in Guards <=> HoldsIn(stack, u, i)
      BY GuardsAre, GuardsWillBe, Zenon
    <3>2. CASE u = cpu
      BY <1>2, <1>4, <1>5, <3>1, <3>2, Zenon DEF HoldsIn, s
    <3>3. CASE u = t
      <4>1. ~HoldsIn(stack', t, i)
        BY <1>3, <1>4, SMTT(30) DEF HoldsIn
      <4>2. ~HoldsIn(stack, t, i)
        BY EmptySeq DEF HoldsIn
      <4> QED
        BY <3>1, <3>3, <4>1, <4>2, SMTT(30)
    <3>4. CASE u # cpu /\ u # t
      BY <1>4, <3>1, <3>4, Zenon DEF HoldsIn
    <3> QED
      BY <3>2, <3>3, <3>4, Zenon
  <2> QED
    BY <2>1, <2>2, SameGuards, Zenon
<1>7. Top(cpu)' = Frame("add", "clear") /\ TopAt(cpu)' = "clear"
  BY <1>1, <1>2, <1>4, SMTT(30) DEF Top, TopAt, Frame
<1>8. ASSUME NEW g \in Guards
      PROVE  /\ g[1] \in Threads /\ g[2] \in 1 .. Len(stack[g[1]])
             /\ Len(stack'[g[1]]) = Len(stack[g[1]])
             /\ \A i \in 1 .. Len(stack[g[1]]) : stack'[g[1]][i].proc = stack[g[1]][i].proc
  <2>1. g = <<g[1], g[2]>> /\ HoldsIn(stack, g[1], g[2])
    BY GuardsAre, Zenon
  <2>2. g[1] # t
    BY <2>1, EmptySeq, SMTT(30) DEF HoldsIn
  <2>3. CASE g[1] = cpu
    BY <1>1, <1>2, <1>4, <1>5, <2>1, <2>3, ZenonT(30) DEF HoldsIn, s
  <2>4. CASE g[1] # cpu
    BY <1>4, <2>1, <2>2, <2>4, Zenon DEF HoldsIn
  <2> QED
    BY <2>3, <2>4, Zenon
<1>9. OneHandler => OneHandler'
  <2> SUFFICES ASSUME OneHandler PROVE OneHandler'
    BY Zenon
  <2>1. ASSUME NEW g \in Guards', NEW h \in Guards',
               stack'[g[1]][g[2]].proc = "isr", stack'[h[1]][h[2]].proc = "isr"
        PROVE  g = h
    <3>1. /\ g \in Guards /\ stack[g[1]][g[2]].proc = "isr"
          /\ h \in Guards /\ stack[h[1]][h[2]].proc = "isr"
      BY <1>6, <1>8, <2>1, Zenon
    <3> QED
      BY <3>1, Zenon DEF OneHandler
  <2>2. ASSUME NEW g \in Guards', stack'[g[1]][g[2]].proc # "isr"
        PROVE  g[1] = cpu'
    <3>1. g \in Guards /\ stack[g[1]][g[2]].proc # "isr"
      BY <1>6, <1>8, <2>2, Zenon
    <3> QED
      BY <1>1, <3>1, Zenon DEF OneHandler
  <2>3. ASSUME NEW g \in Guards', NEW i \in 1 .. Len(stack'[g[1]]), i > g[2]
        PROVE  stack'[g[1]][i].proc # "isr"
    <3>1. g \in Guards /\ i \in 1 .. Len(stack[g[1]]) /\ stack'[g[1]][i].proc = stack[g[1]][i].proc
      BY <1>6, <1>8, Zenon
    <3> QED
      BY <2>3, <3>1, Zenon DEF OneHandler
  <2> QED
    BY <2>1, <2>2, <2>3, Zenon DEF OneHandler
<1> QED
  BY <1>6, <1>7, <1>9, Zenon

-----------------------------------------------------------------------------
(***************************************************************************)
(* Counting guards.                                                        *)
(***************************************************************************)
LEMMA CountFacts ==
    ASSUME StackInv, CountIsGuards
    PROVE  /\ count_ \in Nat
           /\ count_ = 0 <=> Guards = {}
           /\ TopAt(cpu) \in HoldingPoints => count_ >= 1
           /\ Guards \subseteq {TopGuard} => count_ <= 1
<1>1. IsFiniteSet(Guards)
  BY GuardsAre, Zenon
<1>2. Cardinality(Guards) \in Nat /\ (Cardinality(Guards) = 0 <=> Guards = {})
  BY <1>1, FS_CardinalityType, FS_EmptySet, Zenon
<1>3. TopAt(cpu) \in HoldingPoints => Guards # {}
  BY TopGuardHolds, Zenon
<1>4. Guards \subseteq {TopGuard} => Cardinality(Guards) <= 1
  <2>1. Guards \subseteq {TopGuard} => Guards = {} \/ Guards = {TopGuard}
    BY Zenon
  <2>2. Cardinality({TopGuard}) = 1 /\ Cardinality({}) = 0
    BY FS_Singleton, FS_EmptySet, Zenon
  <2>3. CASE Guards = {}
    BY <2>2, <2>3, SMTT(30)
  <2>4. CASE Guards = {TopGuard}
    BY <2>2, <2>4, SMTT(30)
  <2> QED
    BY <2>1, <2>3, <2>4, ZenonT(30)
<1> QED
  BY <1>2, <1>3, <1>4, SMTT(30) DEF CountIsGuards

LEMMA CountUp ==
    ASSUME StackInv, CountIsGuards, TopAt(cpu) \notin HoldingPoints,
           Guards' = Guards \cup {TopGuard}, count_' = count_ + 1
    PROVE  CountIsGuards'
<1>1. IsFiniteSet(Guards) /\ TopGuard \notin Guards
  BY GuardsAre, TopGuardHolds, Zenon
<1>2. Cardinality(Guards \cup {TopGuard}) = Cardinality(Guards) + 1
  BY <1>1, FS_AddElement, Zenon
<1> QED
  BY <1>2, Zenon DEF CountIsGuards

LEMMA CountDown ==
    ASSUME StackInv, CountIsGuards, TopAt(cpu) \in HoldingPoints,
           Guards' = Guards \ {TopGuard}, count_' = count_ - 1
    PROVE  CountIsGuards'
<1>1. IsFiniteSet(Guards) /\ TopGuard \in Guards
  BY GuardsAre, TopGuardHolds, Zenon
<1>2. Cardinality(Guards \ {TopGuard}) = Cardinality(Guards) - 1
  BY <1>1, FS_RemoveElement, Zenon
<1> QED
  BY <1>2, Zenon DEF CountIsGuards

LEMMA CountHandedOver ==
    ASSUME StackInv, CountIsGuards, TopAt(cpu) \in HoldingPoints,
           Guards' = (Guards \ {TopGuard}) \cup {TopGuard'}, TopGuard' \notin Guards,
           count_' = count_
    PROVE  CountIsGuards'
<1>1. IsFiniteSet(Guards) /\ TopGuard \in Guards
  BY GuardsAre, TopGuardHolds, Zenon
<1>2. /\ Cardinality(Guards \ {TopGuard}) = Cardinality(Guards) - 1
      /\ IsFiniteSet(Guards \ {TopGuard})
  BY <1>1, FS_RemoveElement, Zenon
<1>3. Cardinality((Guards \ {TopGuard}) \cup {TopGuard'}) = Cardinality(Guards \ {TopGuard}) + 1
  BY <1>2, FS_AddElement, Zenon
<1>4. Cardinality(Guards) \in Nat
  BY <1>1, FS_CardinalityType, Zenon
<1> QED
  BY <1>2, <1>3, <1>4, SMTT(30) DEF CountIsGuards

\* Alone on the top of the stack, the interrupt handler's guard is the only
\* one.
LEMMA OnlyHandler ==
    ASSUME StackInv, CountIsGuards, OneHandler, Top(cpu).proc = "isr", TopAt(cpu) \in HoldingPoints
    PROVE  count_ = 1
<1> DEFINE n == Len(stack[cpu])
<1>1. TopGuard \in Guards /\ TopGuard = <<cpu, n>> /\ n \in Nat /\ Top(cpu) = stack[cpu][n]
  BY TopGuardHolds, CpuStack, Zenon DEF TopGuard, Top
<1>2. ASSUME NEW g \in Guards PROVE g = TopGuard
  <2>1. g = <<g[1], g[2]>> /\ HoldsIn(stack, g[1], g[2])
    BY GuardsAre, Zenon
  <2>2. CASE stack[g[1]][g[2]].proc = "isr"
    <3>1. stack[TopGuard[1]][TopGuard[2]].proc = "isr"
      BY <1>1, Zenon
    <3> QED
      BY <1>1, <2>2, <3>1, Zenon DEF OneHandler
  <2>3. CASE stack[g[1]][g[2]].proc # "isr"
    <3>1. g[1] = cpu
      BY <2>3, Zenon DEF OneHandler
    <3>2. g[2] \in 1 .. n /\ g[2] # n
      BY <1>1, <2>1, <2>3, <3>1, ZenonT(30) DEF HoldsIn
    <3>3. n \in 1 .. Len(stack[g[1]]) /\ n > g[2]
      BY <1>1, <3>1, <3>2, SMTT(30)
    <3> QED
      BY <1>1, <3>1, <3>3, Zenon DEF OneHandler
  <2> QED
    BY <2>2, <2>3, Zenon
<1>3. Guards \subseteq {TopGuard}
  BY <1>2, Zenon
<1> QED
  BY <1>3, CountFacts, SMTT(30)

-----------------------------------------------------------------------------
(***************************************************************************)
(* The invariant, step by step.                                            *)
(***************************************************************************)
LEMMA InvInit == Init => Inv
<1> SUFFICES ASSUME Init PROVE Inv
  BY Zenon
<1>1. StackInv
  BY StackInvInit, Zenon
<1> DEFINE s == <<Frame("code", "run"), Frame("guard", "body")>>
<1>2. Len(s) = 2 /\ s[1] = Frame("code", "run") /\ s[2] = Frame("guard", "body")
  BY Zenon
<1>3. ~Holds(s[1]) /\ Holds(s[2]) /\ s[2].proc = "guard" /\ s[2].at = "body"
  BY <1>2, Zenon DEF Holds, HoldingPoints, Frame
<1> HIDE DEF s
<1>4. /\ cpu = InitThread /\ cpu \in Threads /\ stack[cpu] = s
      /\ \A t \in Threads : t # cpu => stack[t] = << >>
  BY Zenon DEF Init, Threads, s
<1>5. Guards = {<<cpu, 2>>}
  <2>1. \A g \in Guards \cup {<<cpu, 2>>} : g = <<g[1], g[2]>>
    BY <1>1, GuardsAre, SMTT(30)
  <2>2. ASSUME NEW t, NEW i
        PROVE  <<t, i>> \in Guards <=> <<t, i>> \in {<<cpu, 2>>}
    <3>1. <<t, i>> \in Guards <=> HoldsIn(stack, t, i)
      BY <1>1, GuardsAre, ZenonT(30)
    <3>2. HoldsIn(stack, t, i) <=> t = cpu /\ i = 2
      BY <1>2, <1>3, <1>4, EmptySeq, SMTT(30) DEF HoldsIn
    <3> QED
      BY <3>1, <3>2, Zenon
  <2> QED
    BY <2>1, <2>2, SameGuards, Zenon
<1>6. CountIsGuards
  BY <1>5, FS_Singleton, Zenon DEF CountIsGuards, Init
<1>7. Top(cpu) = s[2] /\ TopAt(cpu) = "body"
  BY <1>2, <1>3, <1>4, ZenonT(30) DEF Top, TopAt
<1>8. OneHandler
  BY <1>2, <1>3, <1>4, <1>5, SMTT(30) DEF OneHandler
<1>9. FreeAtEdges /\ LockedInside
  BY <1>7, Zenon DEF FreeAtEdges, LockedInside, Init
<1>10. count_ = 1 /\ IF_ = FALSE /\ is_locked_ = FALSE /\ panicked = "no" /\ torn = FALSE
  BY Zenon DEF Init
<1>11. LockTypeOK
  BY <1>10, Zenon DEF LockTypeOK
<1>12. EnabledWhenFree /\ VanishFindsThread /\ ReentrancyOnlyIfTorn /\ MaskedWhileGuarded
  BY <1>10 DEF EnabledWhenFree, VanishFindsThread, ReentrancyOnlyIfTorn, MaskedWhileGuarded
<1> QED
  BY <1>1, <1>6, <1>8, <1>9, <1>11, <1>12, SMTT(30) DEF Inv

\* A lock() counts itself.
LEMMA FetchAddInv ==
    ASSUME Inv, StackInv', FetchAdd
    PROVE  Inv'
<1> DEFINE at == IF count_ = 0 THEN "cli" ELSE AfterLock(Top(cpu).proc)
<1>1. /\ TopAt(cpu) = "add" /\ count_' = count_ + 1 /\ Goto(at)
      /\ UNCHANGED <<IF_, is_locked_, cpu, panicked, torn>>
  BY Zenon DEF FetchAdd, At
<1>2. at \in Points /\ at \in {"cli", "check", "body"} /\ at \in HoldingPoints
  BY Zenon DEF AfterLock, Points, HoldingPoints
<1>3. at = "cli" <=> count_ = 0
  BY Zenon DEF AfterLock
<1> HIDE DEF at
<1>4. TopAt(cpu) \notin HoldingPoints
  BY <1>1, Zenon DEF HoldingPoints
<1>5. /\ TopAt(cpu)' = at /\ Guards' = Guards \cup {TopGuard}
      /\ Guards = {} \/ Top(cpu).proc # "isr" => (OneHandler => OneHandler')
  BY <1>1, <1>2, GotoEffect, Zenon DEF Inv
<1>6. /\ count_ \in Nat /\ count_' \in Nat /\ count_' # 0
      /\ count_ = 0 <=> Guards = {}
  BY <1>1, CountFacts DEF Inv
<1>7. CountIsGuards'
  BY <1>1, <1>4, <1>5, CountUp, Zenon DEF Inv
<1>8. EnabledWhenFree'
  BY <1>6, Zenon DEF EnabledWhenFree
<1>9. MaskedWhileGuarded'
  BY <1>1, <1>3, <1>5, <1>6, SMTT(30) DEF Inv, MaskedWhileGuarded
<1>10. ASSUME ~torn PROVE OneHandler' /\ FreeAtEdges' /\ LockedInside'
  <2>1. OneHandler /\ FreeAtEdges /\ LockedInside
    BY <1>10, Zenon DEF Inv
  <2>2. OneHandler'
    BY <1>1, <1>5, <1>6, <2>1, ZenonT(30) DEF FreeAtEdges
  <2>3. FreeAtEdges'
    BY <1>2, <1>5, Zenon DEF FreeAtEdges
  <2>4. LockedInside'
    BY <1>1, <2>1, Zenon DEF LockedInside
  <2> QED
    BY <2>2, <2>3, <2>4, Zenon
<1>11. LockTypeOK' /\ VanishFindsThread' /\ ReentrancyOnlyIfTorn'
  BY <1>1, <1>6, Zenon DEF Inv, LockTypeOK, VanishFindsThread, ReentrancyOnlyIfTorn
<1> QED
  BY <1>1, <1>7, <1>8, <1>9, <1>10, <1>11, Zenon DEF Inv

\* A frame that holds its lock goes on and keeps it.
LEMMA HeldInv ==
    ASSUME Inv, StackInv', NEW at \in HoldingPoints, Goto(at), TopAt(cpu) \in HoldingPoints,
           UNCHANGED <<count_, cpu, panicked, torn>>,
           IF_' = FALSE \/ (IF_' = IF_ /\ TopAt(cpu) # "cli"),
           is_locked_' \in BOOLEAN,
           ~torn /\ is_locked_' =>
               Top(cpu).proc \in SchedulerProcs \cup {"start"} /\ at \in {"body", "clear"}
    PROVE  Inv'
<1>1. at \in Points /\ at \notin {"add", "sti", "iret"}
  BY Zenon DEF Points, HoldingPoints
<1>2. /\ TopAt(cpu)' = at /\ Top(cpu)' = Frame(Top(cpu).proc, at)
      /\ Guards' = Guards
      /\ OneHandler => OneHandler'
  <2>1. TopGuard \in Guards
    BY TopGuardHolds, Zenon DEF Inv
  <2> QED
    BY <1>1, <2>1, GotoEffect, Zenon DEF Inv
<1>3. count_ \in Nat /\ count_ >= 1
  BY CountFacts, Zenon DEF Inv
<1>4. CountIsGuards' /\ EnabledWhenFree'
  BY <1>2, <1>3, SMTT(30) DEF Inv, CountIsGuards, EnabledWhenFree
<1>5. MaskedWhileGuarded'
  BY <1>3, Zenon DEF Inv, MaskedWhileGuarded
<1>6. ASSUME ~torn PROVE OneHandler' /\ FreeAtEdges' /\ LockedInside'
  <2>1. FreeAtEdges'
    BY <1>1, <1>2, Zenon DEF FreeAtEdges
  <2>2. LockedInside'
    BY <1>2, <1>6, SMTT(30) DEF LockedInside, Frame
  <2> QED
    BY <1>2, <1>6, <2>1, <2>2, Zenon DEF Inv
<1>7. LockTypeOK' /\ VanishFindsThread' /\ ReentrancyOnlyIfTorn'
  <2>1. IF_' \in BOOLEAN
    BY Zenon DEF Inv, LockTypeOK
  <2> QED
    BY <2>1, Zenon DEF Inv, LockTypeOK, VanishFindsThread, ReentrancyOnlyIfTorn
<1> QED
  BY <1>4, <1>5, <1>6, <1>7, Zenon DEF Inv

\* An unlock() counts itself down.
LEMMA FetchSubInv ==
    ASSUME Inv, StackInv', FetchSub
    PROVE  Inv'
<1>1. /\ TopAt(cpu) = "sub" /\ count_' = count_ - 1
      /\ UNCHANGED <<IF_, is_locked_, cpu, panicked, torn>>
  BY Zenon DEF FetchSub, At
<1>2. TopAt(cpu) \in HoldingPoints
  BY <1>1, Zenon DEF HoldingPoints
<1>3. count_ \in Nat /\ count_ >= 1
  BY <1>2, CountFacts, Zenon DEF Inv
<1>4. /\ Guards' = Guards \ {TopGuard}
      /\ OneHandler => OneHandler'
      /\ count_ = 1 => TopAt(cpu)' = "sti"
      /\ count_ # 1 => IF Top(cpu).proc = "isr" THEN TopAt(cpu)' = "iret"
                                                ELSE TopAt(cpu)' \in {"run", "body", "sub"}
  <2>1. CASE count_ = 1
    <3>1. Goto("sti") /\ "sti" \in Points /\ "sti" \notin HoldingPoints
      BY <2>1, Zenon DEF FetchSub, Points, HoldingPoints
    <3> QED
      BY <1>1, <2>1, <3>1, GotoEffect, ZenonT(30) DEF Inv
  <2>2. CASE count_ # 1
    <3>1. stack' = [stack EXCEPT ![cpu] = Released(@)]
      BY <2>2, Zenon DEF FetchSub
    <3> QED
      BY <1>1, <2>2, <3>1, ReleaseEffect, Zenon DEF Inv
  <2> QED
    BY <2>1, <2>2, Zenon
<1>5. CountIsGuards'
  BY <1>1, <1>2, <1>4, CountDown, Zenon DEF Inv
<1>6. EnabledWhenFree'
  BY <1>1, <1>3, <1>4, SMTT(30) DEF EnabledWhenFree
<1>7. MaskedWhileGuarded'
  BY <1>1, <1>3, SMTT(30) DEF Inv, MaskedWhileGuarded
<1>8. ASSUME ~torn PROVE OneHandler' /\ FreeAtEdges' /\ LockedInside'
  <2>1. OneHandler /\ LockedInside
    BY <1>8, Zenon DEF Inv
  <2>2. Top(cpu).proc = "isr" => count_ = 1
    BY <1>2, <2>1, OnlyHandler, Zenon DEF Inv
  <2>3. FreeAtEdges'
    BY <1>1, <1>3, <1>4, <2>2, SMTT(30) DEF FreeAtEdges
  <2>4. LockedInside'
    BY <1>1, <2>1, Zenon DEF LockedInside
  <2> QED
    BY <1>4, <2>1, <2>3, <2>4, ZenonT(30)
<1>9. LockTypeOK' /\ VanishFindsThread' /\ ReentrancyOnlyIfTorn'
  <2>1. count_' \in Nat
    BY <1>1, <1>3, SMTT(30)
  <2> QED
    BY <1>1, <2>1, Zenon DEF Inv, LockTypeOK, VanishFindsThread, ReentrancyOnlyIfTorn
<1> QED
  BY <1>1, <1>5, <1>6, <1>7, <1>8, <1>9, Zenon DEF Inv

\* A frame that has given up its lock goes on with interrupts on: the end of
\* the last unlock() and of an interrupt.
LEMMA EnabledInv ==
    ASSUME Inv, StackInv', TopAt(cpu) \in {"sti", "iret"}, IF_' = TRUE,
           UNCHANGED <<count_, is_locked_, cpu, panicked, torn>>,
           Guards' = Guards \ {TopGuard}, OneHandler => OneHandler'
    PROVE  Inv'
<1>1. Guards' = Guards
  <2>1. TopAt(cpu) \notin HoldingPoints
    BY Zenon DEF HoldingPoints
  <2> QED
    BY <2>1, TopGuardHolds, Zenon DEF Inv
<1>2. CountIsGuards' /\ EnabledWhenFree'
  BY <1>1, Zenon DEF Inv, CountIsGuards, EnabledWhenFree
<1>3. ~torn => count_ = 0
  BY Zenon DEF Inv, FreeAtEdges
<1>4. MaskedWhileGuarded'
  BY <1>3 DEF MaskedWhileGuarded
<1>5. ASSUME ~torn PROVE OneHandler' /\ FreeAtEdges' /\ LockedInside'
  <2>1. FreeAtEdges'
    BY <1>3, <1>5, Zenon DEF FreeAtEdges
  <2>2. LockedInside'
    BY <1>5, Zenon DEF Inv, LockedInside
  <2> QED
    BY <1>5, <2>1, <2>2, Zenon DEF Inv
<1>6. LockTypeOK' /\ VanishFindsThread' /\ ReentrancyOnlyIfTorn'
  <2>1. IF_' \in BOOLEAN
    BY Zenon
  <2> QED
    BY <2>1, Zenon DEF Inv, LockTypeOK, VanishFindsThread, ReentrancyOnlyIfTorn
<1> QED
  BY <1>2, <1>4, <1>5, <1>6, ZenonT(30) DEF Inv

LEMMA EnableInterruptsInv ==
    ASSUME Inv, StackInv', EnableInterrupts
    PROVE  Inv'
<1>1. /\ TopAt(cpu) = "sti" /\ IF_' = TRUE
      /\ stack' = [stack EXCEPT ![cpu] = Released(@)]
      /\ UNCHANGED <<count_, is_locked_, cpu, panicked, torn>>
  BY Zenon DEF EnableInterrupts, At
<1>2. Guards' = Guards \ {TopGuard} /\ (OneHandler => OneHandler')
  BY <1>1, ReleaseEffect, Zenon DEF Inv
<1> QED
  BY <1>1, <1>2, EnabledInv, ZenonT(30)

LEMMA IretInv ==
    ASSUME Inv, StackInv', Iret
    PROVE  Inv'
<1>1. /\ TopAt(cpu) = "iret" /\ IF_' = TRUE /\ Top(cpu).proc \notin {"code", "start"}
      /\ stack' = [stack EXCEPT ![cpu] = Popped(@)]
      /\ UNCHANGED <<count_, is_locked_, cpu, panicked, torn>>
  BY Zenon DEF Iret, At
<1>2. Guards' = Guards \ {TopGuard} /\ (OneHandler => OneHandler')
  BY <1>1, PopEffect, Zenon DEF Inv
<1> QED
  BY <1>1, <1>2, EnabledInv, Zenon

\* A call.
LEMMA CallInv ==
    ASSUME Inv, StackInv', NEW proc \in Procs \ {"isr"}, NEW at \in Points, Call(proc, at),
           at \in HoldingPoints <=> TopAt(cpu) \in HoldingPoints,
           TopAt(cpu) \in {"run", "body"}, Top(cpu).proc \in {"code", "guard", "isr"},
           UNCHANGED sharedVars
    PROVE  Inv'
<1>1. UNCHANGED <<count_, IF_, is_locked_, cpu, panicked, torn>>
  BY Zenon DEF sharedVars, lockVars
<1>2. /\ TopAt(cpu)' = "add" /\ Top(cpu)' = Frame(proc, "add") /\ Guards' = Guards
      /\ OneHandler => OneHandler'
  BY <1>1, CallEffect, Zenon DEF Inv
<1>3. CountIsGuards' /\ EnabledWhenFree'
  BY <1>1, <1>2, Zenon DEF Inv, CountIsGuards, EnabledWhenFree
<1>4. MaskedWhileGuarded'
  BY <1>1, Zenon DEF Inv, MaskedWhileGuarded
<1>5. ASSUME ~torn PROVE OneHandler' /\ FreeAtEdges' /\ LockedInside'
  <2>1. FreeAtEdges'
    BY <1>2 DEF FreeAtEdges, Frame
  <2>2. LockedInside'
    BY <1>1, <1>5, Zenon DEF Inv, LockedInside, SchedulerProcs
  <2> QED
    BY <1>2, <1>5, <2>1, <2>2, Zenon DEF Inv
<1>6. LockTypeOK' /\ VanishFindsThread' /\ ReentrancyOnlyIfTorn'
  BY <1>1, Zenon DEF Inv, LockTypeOK, VanishFindsThread, ReentrancyOnlyIfTorn
<1> QED
  BY <1>1, <1>3, <1>4, <1>5, <1>6, Zenon DEF Inv

\* An interrupt.  If no lock() has been torn it finds nothing held.
LEMMA InterruptInv ==
    ASSUME Inv, StackInv', Interrupt
    PROVE  Inv'
<1>1. /\ IF_ /\ torn' = (torn \/ TopAt(cpu) = "cli")
      /\ UNCHANGED <<count_, IF_, is_locked_, cpu, panicked>>
  BY Zenon DEF Interrupt, lockVars
<1>2. TopAt(cpu)' = "add" /\ Top(cpu)' = Frame("isr", "add") /\ Guards' = Guards
  BY InterruptEffect, Zenon DEF Inv
<1>3. torn' \in BOOLEAN /\ (~torn' => ~torn /\ TopAt(cpu) # "cli")
  BY <1>1, Zenon DEF Inv, LockTypeOK
<1>4. CountIsGuards' /\ EnabledWhenFree'
  BY <1>1, <1>2, Zenon DEF Inv, CountIsGuards, EnabledWhenFree
<1>5. ~torn' => count_ = 0 /\ Guards = {} /\ count_ \in Nat
  <2>1. count_ \in Nat /\ (count_ = 0 <=> Guards = {})
    BY CountFacts, Zenon DEF Inv
  <2> QED
    BY <1>1, <1>3, <2>1, SMTT(30) DEF Inv, MaskedWhileGuarded
<1>6. MaskedWhileGuarded'
  BY <1>1, <1>5, SMTT(30) DEF MaskedWhileGuarded
<1>7. ASSUME ~torn' PROVE OneHandler' /\ FreeAtEdges' /\ LockedInside'
  <2>1. OneHandler'
    BY <1>2, <1>5, <1>7, NoGuards, Zenon
  <2>2. FreeAtEdges'
    BY <1>1, <1>5, <1>7, ZenonT(30) DEF FreeAtEdges
  <2>3. TopAt(cpu) \notin {"body", "clear"}
    BY <1>5, <1>7, CountFacts, SMTT(30) DEF Inv, HoldingPoints
  <2>4. LockedInside'
    BY <1>1, <1>3, <1>7, <2>3, ZenonT(30) DEF Inv, LockedInside
  <2> QED
    BY <2>1, <2>2, <2>4, Zenon
<1>8. LockTypeOK' /\ VanishFindsThread'
  BY <1>1, <1>3, Zenon DEF Inv, LockTypeOK, VanishFindsThread
<1>9. ReentrancyOnlyIfTorn'
  BY <1>1, <1>3, Zenon DEF Inv, ReentrancyOnlyIfTorn
<1> QED
  BY <1>4, <1>6, <1>7, <1>8, <1>9, SMTT(30) DEF Inv

\* A context switch.
LEMMA SwitchInv ==
    ASSUME Inv, StackInv', NEW s, Leaves(s), cpu' \in Queued,
           stack' = [stack EXCEPT ![cpu] = s, ![cpu'] = Moved(@, "clear")],
           Top(cpu).proc \in {"yield", "vanish"}, TopAt(cpu) = "body",
           UNCHANGED <<lockVars, panicked, torn>>
    PROVE  Inv'
<1>1. UNCHANGED <<count_, IF_, is_locked_, panicked, torn>>
  BY Zenon DEF lockVars
<1>2. /\ TopGuard' \notin Guards /\ Guards' = (Guards \ {TopGuard}) \cup {TopGuard'}
      /\ Top(cpu)'.proc \in {"yield", "start"} /\ TopAt(cpu)' = "clear"
  BY SwitchGuards, Zenon DEF Inv
<1>3. TopAt(cpu) \in HoldingPoints
  BY Zenon DEF HoldingPoints
<1>4. count_ \in Nat /\ count_ >= 1
  BY <1>3, CountFacts, Zenon DEF Inv
<1>5. CountIsGuards'
  BY <1>1, <1>2, <1>3, CountHandedOver, SMTT(30) DEF Inv
<1>6. EnabledWhenFree'
  BY <1>1, <1>4, SMTT(30) DEF EnabledWhenFree
<1>7. MaskedWhileGuarded'
  BY <1>1 DEF Inv, MaskedWhileGuarded
<1>8. ASSUME ~torn PROVE OneHandler' /\ FreeAtEdges' /\ LockedInside'
  <2>1. OneHandler'
    BY <1>8, SwitchOneHandler, Zenon DEF Inv
  <2>2. FreeAtEdges' /\ LockedInside'
    BY <1>2, Zenon DEF FreeAtEdges, LockedInside, SchedulerProcs
  <2> QED
    BY <2>1, <2>2, Zenon
<1>9. LockTypeOK' /\ VanishFindsThread' /\ ReentrancyOnlyIfTorn'
  <2>1. LockTypeOK /\ VanishFindsThread /\ ReentrancyOnlyIfTorn
    BY Zenon DEF Inv
  <2>2. LockTypeOK'
    BY <1>1, <2>1, Zenon DEF LockTypeOK
  <2>3. VanishFindsThread'
    BY <1>1, <2>1, Zenon DEF VanishFindsThread
  <2>4. ReentrancyOnlyIfTorn'
    <3>1. panicked' = panicked /\ torn' = torn /\ torn \in BOOLEAN
      BY <1>1, <2>1, Zenon DEF LockTypeOK
    <3> QED
      BY <2>1, <3>1, SMTT(30) DEF ReentrancyOnlyIfTorn
  <2> QED
    BY <2>2, <2>3, <2>4, Zenon
<1>10. ~torn' => OneHandler' /\ FreeAtEdges' /\ LockedInside'
  BY <1>1, <1>8, SMTT(30)
<1> QED
  BY <1>5, <1>6, <1>7, <1>9, <1>10, SMTT(30) DEF Inv

\* add() with the lock taken.
LEMMA AddInv ==
    ASSUME Inv, StackInv', AddBody
    PROVE  Inv'
<1>1. TopAt(cpu) = "body" /\ UNCHANGED <<count_, IF_, is_locked_, panicked, torn>>
  BY Zenon DEF AddBody, At, lockVars
<1>2. /\ Top(cpu)' = Frame("add", "clear") /\ TopAt(cpu)' = "clear" /\ Guards' = Guards
      /\ OneHandler => OneHandler'
  BY AddEffect, Zenon DEF Inv
<1>3. count_ \in Nat /\ count_ >= 1
  BY <1>1, CountFacts, Zenon DEF Inv, HoldingPoints
<1>4. CountIsGuards' /\ EnabledWhenFree'
  BY <1>1, <1>2, <1>3, Zenon DEF Inv, CountIsGuards, EnabledWhenFree
<1>5. MaskedWhileGuarded'
  BY <1>1, Zenon DEF Inv, MaskedWhileGuarded
<1>6. ASSUME ~torn PROVE OneHandler' /\ FreeAtEdges' /\ LockedInside'
  <2>1. FreeAtEdges' /\ LockedInside'
    BY <1>2 DEF FreeAtEdges, LockedInside, SchedulerProcs, Frame
  <2> QED
    BY <1>2, <1>6, <2>1, Zenon DEF Inv
<1>7. LockTypeOK' /\ VanishFindsThread' /\ ReentrancyOnlyIfTorn'
  BY <1>1, Zenon DEF Inv, LockTypeOK, VanishFindsThread, ReentrancyOnlyIfTorn
<1> QED
  BY <1>1, <1>4, <1>5, <1>6, <1>7, ZenonT(30) DEF Inv

\* A thread that exits leaves the init thread, at least, in the queues.
LEMMA SomebodyLeft ==
    ASSUME StackInv, Top(cpu).proc = "vanish"
    PROVE  can_yield
<1>1. cpu \in Tasks /\ InitThread # cpu /\ InitThread \in Threads
  BY CpuStack, ThreadsAssumption, Zenon DEF MayBeOf
<1>2. current_thread_ # NoThread
  BY <1>1, Zenon DEF StackInv, InitStays
<1>3. InitThread \in Queued
  BY <1>1, Zenon DEF StackInv, InitStays, ThreadPlaces
<1>4. ~BothEmpty
  <2> SUFFICES ASSUME BothEmpty PROVE FALSE
    BY Zenon
  <2>1. Line = << >>
    BY ConcatEmptySeq, EmptySeq, Zenon DEF BothEmpty, Line
  <2> QED
    BY <1>3, <2>1, SMTT(30) DEF Queued, Elements
<1> QED
  BY <1>2, <1>4, Zenon DEF can_yield

\* A step that moves nothing.
LEMMA UnchangedInv ==
    ASSUME Inv, StackInv', UNCHANGED <<count_, IF_, is_locked_, cpu, stack, torn>>,
           panicked' = panicked \/ (panicked' = "reentrancy" /\ torn)
    PROVE  Inv'
<1>1. /\ Guards' = Guards /\ Top(cpu)' = Top(cpu) /\ TopAt(cpu)' = TopAt(cpu)
      /\ OneHandler => OneHandler'
  BY Zenon DEF Guards, Top, TopAt, OneHandler
<1>2. CountIsGuards' /\ EnabledWhenFree' /\ MaskedWhileGuarded'
  BY <1>1, Zenon DEF Inv, CountIsGuards, EnabledWhenFree, MaskedWhileGuarded
<1>3. ASSUME ~torn PROVE OneHandler' /\ FreeAtEdges' /\ LockedInside'
  BY <1>1, <1>3, Zenon DEF Inv, FreeAtEdges, LockedInside
<1>4. LockTypeOK' /\ VanishFindsThread' /\ ReentrancyOnlyIfTorn'
  BY Zenon DEF Inv, LockTypeOK, VanishFindsThread, ReentrancyOnlyIfTorn
<1> QED
  BY <1>2, <1>3, <1>4, Zenon DEF Inv

-----------------------------------------------------------------------------
(***************************************************************************)
(* The invariant is inductive.                                             *)
(***************************************************************************)
LEMMA LockStepInv ==
    ASSUME Inv, StackInv', LockStep
    PROVE  Inv'
<1>1. is_locked_ \in BOOLEAN
  BY Zenon DEF Inv, LockTypeOK
<1> USE DEF At, HoldingPoints, SchedulerProcs
<1>2. CASE DisableInterrupts
  <2> DEFINE at == AfterLock(Top(cpu).proc)
  <2>1. at \in HoldingPoints /\ TopAt(cpu) = "cli"
    BY <1>2, Zenon DEF DisableInterrupts, AfterLock
  <2>2. Goto(at) /\ IF_' = FALSE /\ UNCHANGED <<count_, is_locked_, cpu, panicked, torn>>
    BY <1>2, Zenon DEF DisableInterrupts
  <2>3. ~torn => ~is_locked_
    BY <2>1, Zenon DEF Inv, LockedInside
  <2> HIDE DEF at
  <2> QED
    BY <1>1, <2>1, <2>2, <2>3, HeldInv, Zenon
<1>3. CASE AssertNotLocked
  <2>1. TopAt(cpu) = "check" /\ UNCHANGED <<count_, IF_, is_locked_, cpu, torn>>
    BY <1>3, Zenon DEF AssertNotLocked, lockVars
  <2>2. ~torn => ~is_locked_
    BY <2>1, Zenon DEF Inv, LockedInside
  <2>3. CASE is_locked_
    <3>1. panicked' = "reentrancy" /\ UNCHANGED stack /\ torn
      BY <1>3, <2>2, <2>3, ZenonT(30) DEF AssertNotLocked
    <3> QED
      BY <2>1, <3>1, UnchangedInv, Zenon
  <2>4. CASE ~is_locked_
    <3>1. Goto("set") /\ UNCHANGED panicked
      BY <1>3, <2>4, Zenon DEF AssertNotLocked
    <3> QED
      BY <1>1, <2>1, <2>4, <3>1, HeldInv, SMTT(30)
  <2> QED
    BY <2>3, <2>4, Zenon
<1>4. CASE SetLocked
  <2>1. /\ TopAt(cpu) = "set" /\ Top(cpu).proc \in SchedulerProcs /\ Goto("body")
        /\ is_locked_' = TRUE /\ UNCHANGED <<count_, IF_, cpu, panicked, torn>>
    BY <1>4, Zenon DEF SetLocked
  <2> QED
    BY <2>1, HeldInv, Zenon
<1>5. CASE ClearLocked
  <2>1. /\ TopAt(cpu) = "clear" /\ Goto("sub")
        /\ is_locked_' = FALSE /\ UNCHANGED <<count_, IF_, cpu, panicked, torn>>
    BY <1>5, Zenon DEF ClearLocked
  <2> QED
    BY <2>1, HeldInv, Zenon
<1> QED
  BY <1>2, <1>3, <1>4, <1>5, FetchAddInv, FetchSubInv, EnableInterruptsInv, Zenon DEF LockStep

LEMMA CallStepInv ==
    ASSUME Inv, StackInv', CallStep
    PROVE  Inv'
<1> USE DEF At, HoldingPoints, Procs, SchedulerProcs, Points
<1>1. CASE LeaveBody
  <2>1. /\ TopAt(cpu) = "body" /\ Top(cpu).proc \in {"guard", "isr"} /\ Goto("sub")
        /\ UNCHANGED <<count_, IF_, is_locked_, cpu, panicked, torn>>
    BY <1>1, Zenon DEF LeaveBody, sharedVars, lockVars
  <2>2. is_locked_' \in BOOLEAN /\ (~torn => ~is_locked_')
    BY <2>1, Zenon DEF Inv, LockTypeOK, LockedInside
  <2> QED
    BY <2>1, <2>2, HeldInv, Zenon
<1>2. CASE EnterGuard
  <2>1. CASE At({"code"}, "run") /\ Call("guard", "run")
    BY <1>2, <2>1, CallInv, Zenon DEF EnterGuard
  <2>2. CASE At({"guard", "isr"}, "body") /\ Call("guard", "body")
    BY <1>2, <2>2, CallInv, Zenon DEF EnterGuard
  <2> QED
    BY <1>2, <2>1, <2>2, Zenon DEF EnterGuard
<1>3. CASE CallYield
  BY <1>3, CallInv, Zenon DEF CallYield
<1>4. CASE CallVanish
  BY <1>4, CallInv, ZenonT(30) DEF CallVanish
<1>5. CASE CallAdd
  BY <1>5, CallInv, ZenonT(30) DEF CallAdd
<1>6. CASE CallBegin
  BY <1>6, CallInv, Zenon DEF CallBegin
<1>7. CASE HandlerYield
  BY <1>7, CallInv, ZenonT(30) DEF HandlerYield
<1> QED
  BY <1>1, <1>2, <1>3, <1>4, <1>5, <1>6, <1>7, SMTT(30) DEF CallStep

LEMMA MonitorStepInv ==
    ASSUME Inv, StackInv', MonitorStep
    PROVE  Inv'
<1> USE DEF At, HoldingPoints
<1>1. CASE BeginBody \/ YieldAlone
  <2>1. /\ TopAt(cpu) = "body" /\ Top(cpu).proc \in {"begin", "yield"} /\ Goto("clear")
        /\ UNCHANGED <<count_, IF_, is_locked_, cpu, panicked, torn>>
    BY <1>1, Zenon DEF BeginBody, YieldAlone, lockVars
  <2>2. is_locked_' \in BOOLEAN /\ Top(cpu).proc \in SchedulerProcs
    BY <2>1, Zenon DEF Inv, LockTypeOK, SchedulerProcs
  <2> QED
    BY <2>1, <2>2, HeldInv, Zenon
<1>2. CASE YieldBody
  <2>1. Leaves(Moved(stack[cpu], "susp"))
    BY YieldLeaves, Zenon DEF Inv
  <2>2. /\ cpu' \in Queued
        /\ stack' = [stack EXCEPT ![cpu] = Moved(@, "susp"), ![cpu'] = Moved(@, "clear")]
    BY <1>2, YieldStackInv, ZenonT(30) DEF Inv
  <2>3. /\ Top(cpu).proc = "yield" /\ TopAt(cpu) = "body"
        /\ UNCHANGED <<lockVars, panicked, torn>>
    BY <1>2, Zenon DEF YieldBody
  <2> QED
    BY <2>1, <2>2, <2>3, SwitchInv, Zenon
<1>3. CASE VanishSwitch
  <2>1. /\ Top(cpu).proc = "vanish" /\ TopAt(cpu) = "body"
        /\ UNCHANGED <<lockVars, panicked, torn>>
    BY <1>3, Zenon DEF VanishSwitch
  <2>2. Leaves(<< >>)
    BY <2>1, VanishLeaves, Zenon DEF Inv
  <2>3. /\ cpu' \in Queued
        /\ stack' = [stack EXCEPT ![cpu] = << >>, ![cpu'] = Moved(@, "clear")]
    BY <1>3, VanishStackInv, Zenon DEF Inv
  <2> QED
    BY <2>1, <2>2, <2>3, SwitchInv, Zenon
<1>4. ~VanishAssert
  BY SomebodyLeft, Zenon DEF Inv, VanishAssert
<1> QED
  BY <1>1, <1>2, <1>3, <1>4, AddInv, SMTT(30) DEF MonitorStep, VanishBody

LEMMA InvNext ==
    ASSUME Inv, [Next]_vars
    PROVE  Inv'
<1>1. StackInv'
  BY StackInvNext, Zenon DEF Inv
<1>2. CASE Halt \/ UNCHANGED vars
  BY <1>1, <1>2, UnchangedInv, Zenon DEF Halt, vars, lockVars
<1> QED
  BY <1>1, <1>2, LockStepInv, CallStepInv, MonitorStepInv, InterruptInv, IretInv, SMTT(30) DEF Next

-----------------------------------------------------------------------------
(***************************************************************************)
(* The theorems.                                                           *)
(***************************************************************************)

\* The type invariant of the kernel.
THEOREM KernelTypeOK == Spec => []TypeOK
<1>1. Inv => TypeOK
  BY Zenon DEF Inv, LockTypeOK, StackInv, StackTypeOK, TypeOK, Frames
<1> QED
  BY <1>1, InvInit, InvNext, PTL DEF Spec

\* InterruptLock: the count is the number of locks held, through every
\* context switch.
THEOREM LocksAreCounted == Spec => []CountIsGuards
<1>1. Inv => CountIsGuards
  BY Zenon DEF Inv
<1> QED
  BY <1>1, InvInit, InvNext, PTL DEF Spec

\* InterruptLock: whoever lets go of the last lock, on whichever stack it was
\* taken, turns interrupts on again, and nobody turns them off without it.
THEOREM InterruptsOnWhenFree == Spec => []EnabledWhenFree
<1>1. Inv => EnabledWhenFree
  BY Zenon DEF Inv
<1> QED
  BY <1>1, InvInit, InvNext, PTL DEF Spec

\* InterruptLock excludes what it is meant to exclude, as long as no
\* interrupt arrives between the increment and the cli of a lock().
THEOREM ExclusionUnlessTorn == Spec => []MaskedWhileGuarded
<1>1. Inv => MaskedWhileGuarded
  BY Zenon DEF Inv
<1> QED
  BY <1>1, InvInit, InvNext, PTL DEF Spec

\* SchedulerLock's assertion holds under the same condition.
THEOREM ReentrancyNeedsTear == Spec => []ReentrancyOnlyIfTorn
<1>1. Inv => ReentrancyOnlyIfTorn
  BY Zenon DEF Inv
<1> QED
  BY <1>1, InvInit, InvNext, PTL DEF Spec

\* The assertions in vanish() hold: some thread is left to switch to.
THEOREM VanishNeverStrands == Spec => []VanishFindsThread
<1>1. Inv => VanishFindsThread
  BY Zenon DEF Inv
<1> QED
  BY <1>1, InvInit, InvNext, PTL DEF Spec

\* What a step of the kernel is to the scheduler.
LEMMA SchedulerStep ==
    ASSUME StackInv, [Next]_vars
    PROVE  [SchedNext]_schedVars
<1>1. CASE AddBody
  <2> PICK t \in Tasks : stack[t] = << >> /\ t \notin Queued /\ add(t)
    BY <1>1, AddStackInv, Zenon
  <2>1. cpu = InitThread
    BY <1>1, AddStackInv, Zenon
  <2>2. current_thread_ \in {NoThread, InitThread}
    BY <2>1, Zenon DEF StackInv, ThreadPlaces
  <2>3. t # current_thread_
    BY <2>2, ThreadsAssumption, ZenonT(30)
  <2> QED
    BY <2>2, <2>3, Zenon DEF AddTask, SchedNext
<1>2. CASE BeginBody
  BY <1>2, BeginStackInv, Zenon DEF BeginBody, BeginScheduling, SchedNext
<1>3. CASE YieldBody
  BY <1>3, Zenon DEF YieldBody, SchedNext
<1>4. CASE VanishSwitch
  BY <1>4, VanishStackInv, ZenonT(30) DEF VanishSwitch, Exit, SchedNext
<1>5. CASE LockStep
  BY <1>5, Zenon DEF LockStep, FetchAdd, DisableInterrupts, FetchSub, EnableInterrupts,
     AssertNotLocked, SetLocked, ClearLocked
<1>6. CASE CallStep
  BY <1>6, Zenon DEF CallStep, EnterGuard, LeaveBody, CallYield, CallVanish, CallAdd, CallBegin,
     HandlerYield, sharedVars
<1>7. CASE YieldAlone \/ VanishAssert \/ Interrupt \/ Iret \/ Halt \/ UNCHANGED vars
  BY <1>7, Zenon DEF YieldAlone, VanishAssert, Interrupt, Iret, Halt, vars
<1> QED
  BY <1>1, <1>2, <1>3, <1>4, <1>5, <1>6, <1>7, SMTT(30) DEF Next, MonitorStep, VanishBody

\* The kernel, with its locks, interrupts and context switches, implements
\* the scheduler on its own.
THEOREM KernelImplementsScheduler == Spec => SchedSpec
<1>1. Init => SchedInit
  BY Zenon DEF Init
<1>2. StackInv /\ [Next]_vars => [SchedNext]_schedVars
  BY SchedulerStep, Zenon
<1> QED
  BY <1>1, <1>2, StackInvInit, StackInvNext, PTL DEF Spec, SchedSpec

\* Preemption keeps round robin: no interleaving of interrupts with yield(),
\* vanish(), add() and begin() makes a waiting thread lose its turn.
THEOREM KernelImplementsRoundRobin == Spec => ImplementsRoundRobin
BY KernelImplementsScheduler, SchedulerImplementsRoundRobin, PTL

=============================================================================
