--------------------------- MODULE SchedulerProofs --------------------------
(***************************************************************************)
(* The two queues of Scheduler hold no thread twice and implement the      *)
(* single line of RoundRobin, for any finite set of threads.               *)
(***************************************************************************)
EXTENDS Scheduler, SequenceTheorems, TLAPS

-----------------------------------------------------------------------------
(***************************************************************************)
(* Sequences.                                                              *)
(***************************************************************************)

\* Taking the first of a non-empty runnable_ takes the first of the line.
LEMMA ConcatHeadTail ==
    ASSUME NEW S, NEW s \in Seq(S), NEW t \in Seq(S), s # << >>
    PROVE  /\ s \o t # << >>
           /\ Head(s \o t) = Head(s)
           /\ Tail(s \o t) = Tail(s) \o t
<1>1. /\ s \o t \in Seq(S)
      /\ Len(s \o t) = Len(s) + Len(t)
      /\ \A i \in 1 .. Len(s) + Len(t) :
            (s \o t)[i] = IF i <= Len(s) THEN s[i] ELSE t[i - Len(s)]
  BY ConcatProperties, Zenon
<1>2. Len(s) \in Nat /\ Len(t) \in Nat /\ Len(s) >= 1
  BY LenProperties, EmptySeq
<1>3. s \o t # << >>
  BY <1>1, <1>2
<1>4. Head(s \o t) = Head(s)
  BY <1>1, <1>2, <1>3
<1>5. /\ Tail(s) \in Seq(S)
      /\ Len(Tail(s)) = Len(s) - 1
      /\ \A i \in 1 .. Len(Tail(s)) : Tail(s)[i] = s[i + 1]
  BY HeadTailProperties, Zenon
<1>6. /\ Tail(s \o t) \in Seq(S)
      /\ Len(Tail(s \o t)) = Len(s \o t) - 1
      /\ \A i \in 1 .. Len(Tail(s \o t)) : Tail(s \o t)[i] = (s \o t)[i + 1]
  BY <1>1, <1>3, HeadTailProperties, Zenon
<1>7. /\ Tail(s) \o t \in Seq(S)
      /\ Len(Tail(s) \o t) = Len(s) - 1 + Len(t)
      /\ \A i \in 1 .. Len(s) - 1 + Len(t) :
            (Tail(s) \o t)[i] =
                IF i <= Len(s) - 1 THEN Tail(s)[i] ELSE t[i - (Len(s) - 1)]
  BY <1>5, ConcatProperties
<1>8. \A i \in 1 .. Len(Tail(s \o t)) : Tail(s \o t)[i] = (Tail(s) \o t)[i]
  BY <1>1, <1>2, <1>5, <1>6, <1>7
<1>9. Len(Tail(s \o t)) = Len(Tail(s) \o t)
  BY <1>1, <1>2, <1>6, <1>7
<1> QED
  BY <1>3, <1>4, <1>6, <1>7, <1>8, <1>9, SeqEqual, Zenon

\* Appending to exhausted_ appends to the line.
LEMMA ConcatAppend ==
    ASSUME NEW S, NEW s \in Seq(S), NEW t \in Seq(S), NEW x \in S
    PROVE  s \o Append(t, x) = Append(s \o t, x)
<1>1. <<x>> \in Seq(S)
  OBVIOUS
<1>2. Append(t, x) = t \o <<x>> /\ s \o t \in Seq(S)
  BY AppendIsConcat, ConcatProperties, Zenon
<1>3. Append(s \o t, x) = (s \o t) \o <<x>>
  BY <1>2, AppendIsConcat, Zenon
<1> QED
  BY <1>1, <1>2, <1>3, ConcatAssociative

\* Letting x in behind s lets it in inside the line, after Len(s) others.
LEMMA InsertInConcat ==
    ASSUME NEW S, NEW s \in Seq(S), NEW t \in Seq(S), NEW x \in S
    PROVE  /\ Len(s) \in 0 .. Len(s \o t)
           /\ Append(s, x) \o t = RR!LetIn(s \o t, Len(s), x)
<1>1. Len(s) \in Nat /\ Len(t) \in Nat
  BY LenProperties, Zenon
<1>2. /\ s \o t \in Seq(S)
      /\ Len(s \o t) = Len(s) + Len(t)
      /\ \A i \in 1 .. Len(s) + Len(t) :
            (s \o t)[i] = IF i <= Len(s) THEN s[i] ELSE t[i - Len(s)]
  BY ConcatProperties, Zenon
<1>3. \A i \in 1 .. Len(s \o t) : (s \o t)[i] \in S
  BY <1>2, ElementOfSeq, Zenon
<1>4. SubSeq(s \o t, 1, Len(s)) = s
  <2>1. /\ SubSeq(s \o t, 1, Len(s)) \in Seq(S)
        /\ Len(SubSeq(s \o t, 1, Len(s))) = Len(s)
        /\ \A i \in 1 .. Len(s) : SubSeq(s \o t, 1, Len(s))[i] = (s \o t)[i]
    BY <1>1, <1>2, <1>3, SubSeqProperties
  <2> QED
    BY <2>1, <1>1, <1>2, SeqEqual
<1>5. SubSeq(s \o t, Len(s) + 1, Len(s \o t)) = t
  <2>1. /\ SubSeq(s \o t, Len(s) + 1, Len(s \o t)) \in Seq(S)
        /\ Len(SubSeq(s \o t, Len(s) + 1, Len(s \o t))) = Len(t)
        /\ \A i \in 1 .. Len(t) :
              SubSeq(s \o t, Len(s) + 1, Len(s \o t))[i] = (s \o t)[Len(s) + i]
    BY <1>1, <1>2, <1>3, SubSeqProperties
  <2> QED
    BY <2>1, <1>1, <1>2, SeqEqual
<1>6. Append(s, x) = s \o <<x>>
  BY AppendIsConcat, Zenon
<1>7. Len(s) \in 0 .. Len(s \o t)
  BY <1>1, <1>2
<1>8. Append(s, x) \o t =
        SubSeq(s \o t, 1, Len(s)) \o <<x>> \o SubSeq(s \o t, Len(s) + 1, Len(s \o t))
  BY <1>4, <1>5, <1>6, Zenon
<1> QED
  BY <1>7, <1>8, Zenon DEF RR!LetIn

\* A line whose members are distinct stays so when its first leaves.
LEMMA TailDistinct ==
    ASSUME NEW S, NEW l \in Seq(S), l # << >>, Distinct(l)
    PROVE  /\ Distinct(Tail(l))
           /\ Elements(l) = Elements(Tail(l)) \cup {Head(l)}
           /\ Head(l) \notin Elements(Tail(l))
<1>1. /\ Tail(l) \in Seq(S)
      /\ Len(Tail(l)) = Len(l) - 1
      /\ \A i \in 1 .. Len(Tail(l)) : Tail(l)[i] = l[i + 1]
  BY HeadTailProperties, Zenon
<1>2. Len(l) \in Nat /\ Len(l) >= 1 /\ DOMAIN l = 1 .. Len(l)
  BY LenProperties, EmptySeq
<1>3. DOMAIN Tail(l) = 1 .. Len(l) - 1
  BY <1>1, <1>2, LenProperties, Zenon
<1>4. Head(l) = l[1]
  BY <1>2
<1>5. Distinct(Tail(l))
  <2> SUFFICES ASSUME NEW i \in 1 .. Len(l) - 1, NEW j \in 1 .. Len(l) - 1,
                      Tail(l)[i] = Tail(l)[j]
               PROVE  i = j
    BY <1>3, Zenon DEF Distinct
  <2>1. l[i + 1] = l[j + 1] /\ i + 1 \in DOMAIN l /\ j + 1 \in DOMAIN l
    BY <1>1, <1>2
  <2>2. i + 1 = j + 1
    BY <2>1, Zenon DEF Distinct
  <2> QED
    BY <2>2
<1>6. Head(l) \notin Elements(Tail(l))
  <2> SUFFICES ASSUME NEW i \in 1 .. Len(l) - 1, Tail(l)[i] = l[1]
               PROVE  FALSE
    BY <1>3, <1>4, Zenon DEF Elements
  <2>1. l[i + 1] = l[1] /\ i + 1 \in DOMAIN l /\ 1 \in DOMAIN l
    BY <1>1, <1>2
  <2>2. i + 1 = 1
    BY <2>1, Zenon DEF Distinct
  <2> QED
    BY <2>2
<1>7. Elements(l) \subseteq Elements(Tail(l)) \cup {Head(l)}
  <2> SUFFICES ASSUME NEW i \in 1 .. Len(l), i # 1
               PROVE  l[i] \in Elements(Tail(l))
    BY <1>2, <1>4, Zenon DEF Elements
  <2>1. i - 1 \in DOMAIN Tail(l) /\ Tail(l)[i - 1] = l[i]
    BY <1>1, <1>2, <1>3
  <2> QED
    BY <2>1, Zenon DEF Elements
<1>8. Elements(Tail(l)) \cup {Head(l)} \subseteq Elements(l)
  BY <1>1, <1>2, <1>3, <1>4 DEF Elements
<1> QED
  BY <1>5, <1>6, <1>7, <1>8, Zenon

\* It stays so when someone who was not in it joins its end.
LEMMA AppendDistinct ==
    ASSUME NEW S, NEW l \in Seq(S), Distinct(l), NEW x \in S, x \notin Elements(l)
    PROVE  /\ Distinct(Append(l, x))
           /\ Elements(Append(l, x)) = Elements(l) \cup {x}
<1>1. Len(l) \in Nat /\ DOMAIN l = 1 .. Len(l)
  BY LenProperties, Zenon
<1>2. /\ Append(l, x) \in Seq(S)
      /\ Len(Append(l, x)) = Len(l) + 1
      /\ \A i \in 1 .. Len(l) : Append(l, x)[i] = l[i]
      /\ Append(l, x)[Len(l) + 1] = x
  BY AppendProperties
<1>3. DOMAIN Append(l, x) = 1 .. Len(l) + 1
  BY <1>2, LenProperties, Zenon
<1>4. Distinct(Append(l, x))
  BY <1>1, <1>2, <1>3 DEF Distinct, Elements
<1>5. Elements(Append(l, x)) = Elements(l) \cup {x}
  BY <1>1, <1>2, <1>3 DEF Elements
<1> QED
  BY <1>4, <1>5, Zenon

\* It stays so when someone who was not in it is let in inside.
LEMMA InsertDistinct ==
    ASSUME NEW S, NEW s \in Seq(S), NEW t \in Seq(S), Distinct(s \o t),
           NEW x \in S, x \notin Elements(s \o t)
    PROVE  /\ Distinct(Append(s, x) \o t)
           /\ Elements(Append(s, x) \o t) = Elements(s \o t) \cup {x}
<1> DEFINE n == Len(s)
           m == Len(t)
           old == s \o t
           new == Append(s, x) \o t
<1>1. n \in Nat /\ m \in Nat
  BY LenProperties, Zenon
<1>2. /\ old \in Seq(S)
      /\ Len(old) = n + m
      /\ \A i \in 1 .. n + m : old[i] = IF i <= n THEN s[i] ELSE t[i - n]
  BY ConcatProperties, Zenon
<1>3. /\ Append(s, x) \in Seq(S)
      /\ Len(Append(s, x)) = n + 1
      /\ \A i \in 1 .. n : Append(s, x)[i] = s[i]
      /\ Append(s, x)[n + 1] = x
  BY AppendProperties
<1>4. /\ new \in Seq(S)
      /\ Len(new) = n + 1 + m
      /\ \A i \in 1 .. n + 1 + m :
            new[i] = IF i <= n + 1 THEN Append(s, x)[i] ELSE t[i - (n + 1)]
  BY <1>3, ConcatProperties
<1>5. DOMAIN old = 1 .. n + m /\ DOMAIN new = 1 .. n + 1 + m
  BY <1>2, <1>4, LenProperties, Zenon
<1> DEFINE from(i) == IF i <= n THEN i ELSE i - 1
<1>6. ASSUME NEW i \in 1 .. n + 1 + m, i # n + 1
      PROVE  from(i) \in 1 .. n + m /\ new[i] = old[from(i)]
  <2>1. CASE i <= n
    BY <2>1, <1>1, <1>2, <1>3, <1>4
  <2>2. CASE i > n + 1
    <3>1. i - 1 \in 1 .. n + m /\ ~(i <= n) /\ ~(i - 1 <= n) /\ (i - 1) - n = i - (n + 1)
      BY <2>2, <1>1
    <3>2. new[i] = t[i - (n + 1)] /\ old[i - 1] = t[(i - 1) - n]
      BY <2>2, <3>1, <1>1, <1>2, <1>4
    <3> QED
      BY <3>1, <3>2, Zenon
  <2>3. i <= n \/ i > n + 1
    BY <1>1, <1>6
  <2> QED
    BY <2>1, <2>2, <2>3, Zenon
<1>7. new[n + 1] = x
  BY <1>1, <1>3, <1>4
<1>8. \A i \in 1 .. n + m : old[i] # x
  BY <1>5, Zenon DEF Elements
<1> HIDE DEF new, old
<1>9. Distinct(new)
  <2> SUFFICES ASSUME NEW i \in 1 .. n + 1 + m, NEW j \in 1 .. n + 1 + m,
                      new[i] = new[j]
               PROVE  i = j
    BY <1>5, Zenon DEF Distinct
  <2>1. CASE i # n + 1 /\ j # n + 1
    <3>1. from(i) \in DOMAIN old /\ from(j) \in DOMAIN old /\ old[from(i)] = old[from(j)]
      BY <2>1, <1>5, <1>6, Zenon
    <3>2. from(i) = from(j)
      BY <3>1, Zenon DEF Distinct, old
    <3> QED
      BY <3>2, <2>1, <1>1
  <2>2. CASE i = n + 1 \/ j = n + 1
    BY <2>2, <1>1, <1>6, <1>7, <1>8
  <2> QED
    BY <2>1, <2>2, Zenon
<1>10. Elements(new) \subseteq Elements(old) \cup {x}
  BY <1>1, <1>5, <1>6, <1>7, Zenon DEF Elements
<1>11. Elements(old) \cup {x} \subseteq Elements(new)
  <2>1. x \in Elements(new)
    BY <1>1, <1>5, <1>7 DEF Elements
  <2>2. ASSUME NEW i \in 1 .. n + m
        PROVE  old[i] \in Elements(new)
    <3> DEFINE to == IF i <= n THEN i ELSE i + 1
    <3>1. to \in 1 .. n + 1 + m /\ to # n + 1 /\ from(to) = i
      BY <1>1
    <3>2. new[to] = old[i]
      BY <3>1, <1>6, Zenon
    <3> QED
      BY <3>1, <3>2, <1>5, Zenon DEF Elements
  <2> QED
    BY <2>1, <2>2, <1>5, Zenon DEF Elements
<1> QED
  BY <1>9, <1>10, <1>11, Zenon DEF new, old

-----------------------------------------------------------------------------
(***************************************************************************)
(* What the operations do to the line.                                     *)
(***************************************************************************)

\* The line is a sequence of threads, and the swap does not change it.
LEMMA SwappedLine ==
    ASSUME SchedTypeOK
    PROVE  /\ Line \in Seq(Threads)
           /\ Swapped.runnable \in Seq(Threads)
           /\ Swapped.exhausted \in Seq(Threads)
           /\ Swapped.runnable \o Swapped.exhausted = Line
           /\ ~BothEmpty => Swapped.runnable # << >>
<1>1. Line \in Seq(Threads)
  BY ConcatProperties, Zenon DEF SchedTypeOK, Line
<1>2. CASE runnable_ = << >>
  BY <1>1, <1>2, ConcatEmptySeq, Zenon DEF SchedTypeOK, Line, Swapped, BothEmpty
<1>3. CASE runnable_ # << >>
  BY <1>1, <1>3, Zenon DEF SchedTypeOK, Line, Swapped, BothEmpty
<1> QED
  BY <1>2, <1>3, Zenon

\* yield() rotates the line through the processor.
LEMMA YieldLine ==
    ASSUME SchedTypeOK, yield
    PROVE  /\ Line # << >>
           /\ current_thread_ \in Threads
           /\ current_thread_' = Head(Line)
           /\ Line' = Append(Tail(Line), current_thread_)
           /\ SchedTypeOK'
<1> DEFINE r == Swapped.runnable
           e == Swapped.exhausted
<1>1. /\ Line \in Seq(Threads) /\ r \in Seq(Threads) /\ e \in Seq(Threads)
      /\ r \o e = Line /\ r # << >>
  BY SwappedLine, Zenon DEF yield, can_yield
<1>2. /\ current_thread_ \in Threads
      /\ current_thread_' = Head(r) /\ runnable_' = Tail(r)
      /\ exhausted_' = Append(e, current_thread_)
  BY Zenon DEF yield, can_yield, move_to_next_runnable_thread,
     take_current_thread_from_runnable_queue, SchedTypeOK
<1> HIDE DEF r, e
<1>3. Line # << >> /\ Head(Line) = Head(r) /\ Tail(Line) = Tail(r) \o e
  BY <1>1, ConcatHeadTail, SMTT(30)
<1>4. Head(r) \in Threads /\ Tail(r) \in Seq(Threads)
  BY <1>1, HeadTailProperties, Zenon
<1>5. Append(e, current_thread_) \in Seq(Threads)
  BY <1>1, <1>2, AppendProperties, Zenon
<1>6. Tail(r) \o Append(e, current_thread_) = Append(Tail(r) \o e, current_thread_)
  BY <1>1, <1>2, <1>4, ConcatAppend
<1>7. Line' = Append(Tail(Line), current_thread_)
  BY <1>2, <1>3, <1>6, Zenon DEF Line
<1>8. SchedTypeOK'
  BY <1>2, <1>4, <1>5, Zenon DEF SchedTypeOK
<1> QED
  BY <1>2, <1>3, <1>7, <1>8, Zenon

\* vanish() gives the processor to the first in line.
LEMMA VanishLine ==
    ASSUME SchedTypeOK, vanish
    PROVE  /\ Line # << >>
           /\ current_thread_ \in Threads
           /\ current_thread_' = Head(Line)
           /\ Line' = Tail(Line)
           /\ SchedTypeOK'
<1> DEFINE r == Swapped.runnable
           e == Swapped.exhausted
<1>1. /\ Line \in Seq(Threads) /\ r \in Seq(Threads) /\ e \in Seq(Threads)
      /\ r \o e = Line /\ r # << >>
  BY SwappedLine, Zenon DEF vanish, can_yield
<1>2. /\ current_thread_ \in Threads
      /\ current_thread_' = Head(r) /\ runnable_' = Tail(r)
      /\ exhausted_' = e
  BY Zenon DEF vanish, can_yield, take_current_thread_from_runnable_queue, SchedTypeOK
<1> HIDE DEF r, e
<1>3. Line # << >> /\ Head(Line) = Head(r) /\ Tail(Line) = Tail(r) \o e
  BY <1>1, ConcatHeadTail, Zenon
<1>4. Head(r) \in Threads /\ Tail(r) \in Seq(Threads)
  BY <1>1, HeadTailProperties, Zenon
<1>5. Line' = Tail(Line)
  BY <1>2, <1>3, Zenon DEF Line
<1>6. SchedTypeOK'
  BY <1>1, <1>2, <1>4, Zenon DEF SchedTypeOK
<1> QED
  BY <1>2, <1>3, <1>5, <1>6, Zenon

\* add() lets a thread in behind the runnable ones.
LEMMA AddLine ==
    ASSUME SchedTypeOK, NEW t \in Threads, add(t)
    PROVE  /\ Line' = Append(runnable_, t) \o exhausted_
           /\ SchedTypeOK'
<1>1. Append(runnable_, t) \in Seq(Threads)
  BY AppendProperties, Zenon DEF SchedTypeOK
<1> QED
  BY <1>1, Zenon DEF add, Line, SchedTypeOK

-----------------------------------------------------------------------------
(***************************************************************************)
(* No thread is in two places.                                             *)
(***************************************************************************)

\* NoThreadTwice is inductive once the init thread is known to be out of the
\* queues until begin() makes it the current one.
SchedInv ==
    /\ SchedTypeOK
    /\ NoThreadTwice
    /\ current_thread_ = NoThread => InitThread \notin Queued

\* The invariant holds of empty queues.
LEMMA SchedInvInit == SchedInit => SchedInv
<1> SUFFICES ASSUME SchedInit PROVE SchedInv
  BY Zenon
<1>1. Line = << >>
  BY ConcatEmptySeq, EmptySeq, Zenon DEF SchedInit, Line
<1>2. Distinct(Line) /\ Queued = {}
  BY <1>1 DEF Distinct, Queued, Elements
<1>3. SchedTypeOK
  BY EmptySeq, Zenon DEF SchedInit, SchedTypeOK
<1> QED
  BY <1>2, <1>3, Zenon DEF SchedInv, NoThreadTwice

\* Every operation of the scheduler preserves the invariant.
LEMMA SchedInvNext == SchedInv /\ [SchedNext]_schedVars => SchedInv'
<1> SUFFICES ASSUME SchedInv, [SchedNext]_schedVars PROVE SchedInv'
  BY Zenon
<1> USE DEF SchedInv, NoThreadTwice
<1>0. /\ Line \in Seq(Threads) /\ Queued \subseteq Threads
      /\ runnable_ \in Seq(Threads) /\ exhausted_ \in Seq(Threads)
      /\ NoThread \notin Threads /\ InitThread \in Threads /\ Tasks \subseteq Threads
  <2>1. Line \in Seq(Threads)
    BY SwappedLine, Zenon
  <2> QED
    BY <2>1, LenProperties, ElementOfSeq, ThreadsAssumption
    DEF SchedTypeOK, Queued, Elements, Threads
<1>1. ASSUME NEW t \in Tasks, AddTask(t)
      PROVE  SchedInv'
  <2>1. /\ Line' = Append(runnable_, t) \o exhausted_
        /\ SchedTypeOK'
        /\ current_thread_' = current_thread_
        /\ t # current_thread_ /\ t \notin Elements(Line) /\ t # InitThread
    BY <1>0, <1>1, AddLine, ThreadsAssumption, Zenon DEF AddTask, Queued, add
  <2>2. /\ Distinct(Append(runnable_, t) \o exhausted_)
        /\ Elements(Append(runnable_, t) \o exhausted_) = Elements(Line) \cup {t}
    <3>1. Distinct(runnable_ \o exhausted_) /\ t \notin Elements(runnable_ \o exhausted_)
      BY <2>1, Zenon DEF Line
    <3> QED
      BY <1>0, <3>1, InsertDistinct DEF Line
  <2> QED
    BY <2>1, <2>2, Zenon DEF Queued
<1>2. CASE BeginScheduling
  <2>1. UNCHANGED Line /\ current_thread_' = InitThread /\ SchedTypeOK'
    BY <1>0, <1>2, Zenon DEF BeginScheduling, begin, Line, SchedTypeOK
  <2> QED
    BY <2>1, <1>0, <1>2, Zenon DEF BeginScheduling, Queued
<1>3. CASE yield
  <2>1. /\ Line # << >>
        /\ current_thread_ \in Threads
        /\ current_thread_' = Head(Line)
        /\ Line' = Append(Tail(Line), current_thread_)
        /\ SchedTypeOK'
    BY <1>3, YieldLine, Zenon
  <2>2. /\ Distinct(Tail(Line)) /\ Head(Line) \notin Elements(Tail(Line))
        /\ Elements(Line) = Elements(Tail(Line)) \cup {Head(Line)}
        /\ Tail(Line) \in Seq(Threads) /\ Head(Line) \in Threads
    BY <1>0, <2>1, TailDistinct, HeadTailProperties, Zenon
  <2>3. /\ Distinct(Line')
        /\ Elements(Line') = Elements(Tail(Line)) \cup {current_thread_}
    <3>1. current_thread_ \notin Elements(Tail(Line))
      BY <2>2, Zenon DEF Queued
    <3>2. /\ Distinct(Append(Tail(Line), current_thread_))
          /\ Elements(Append(Tail(Line), current_thread_)) =
                Elements(Tail(Line)) \cup {current_thread_}
      <4> DEFINE l == Tail(Line)
      <4>1. /\ l \in Seq(Threads) /\ Distinct(l)
            /\ current_thread_ \in Threads /\ current_thread_ \notin Elements(l)
        BY <2>1, <2>2, <3>1, Zenon
      <4> HIDE DEF l
      <4>2. /\ Distinct(Append(l, current_thread_))
            /\ Elements(Append(l, current_thread_)) = Elements(l) \cup {current_thread_}
        BY <4>1, AppendDistinct
      <4> QED
        BY <4>2, Zenon DEF l
    <3> QED
      BY <2>1, <3>2, Zenon
  <2> QED
    BY <1>0, <2>1, <2>2, <2>3, Zenon DEF Queued
<1>4. CASE Exit
  <2>1. /\ Line # << >>
        /\ current_thread_' = Head(Line)
        /\ Line' = Tail(Line)
        /\ SchedTypeOK'
    BY <1>4, VanishLine, Zenon DEF Exit
  <2>2. /\ Distinct(Tail(Line)) /\ Head(Line) \notin Elements(Tail(Line))
        /\ Head(Line) \in Threads
    BY <1>0, <2>1, TailDistinct, HeadTailProperties, Zenon
  <2> QED
    BY <1>0, <2>1, <2>2, Zenon DEF Queued
<1>5. CASE UNCHANGED schedVars
  BY <1>5, Zenon DEF schedVars, SchedTypeOK, Line, Queued
<1> QED
  BY <1>1, <1>2, <1>3, <1>4, <1>5, Zenon DEF SchedNext

\* Scheduler: a thread is never in two places at once, whatever is added,
\* yielded and exited, for any finite number of threads.
THEOREM SchedulerSafe == SchedSpec => [](SchedTypeOK /\ NoThreadTwice)
<1>1. SchedInv => SchedTypeOK /\ NoThreadTwice
  BY Zenon DEF SchedInv
<1> QED
  BY <1>1, SchedInvInit, SchedInvNext, PTL DEF SchedSpec

-----------------------------------------------------------------------------
(***************************************************************************)
(* The two queues are one line.                                            *)
(***************************************************************************)

\* Empty queues are an empty line.
LEMMA RoundRobinInit == SchedInit => RR!RRInit
<1> SUFFICES ASSUME SchedInit PROVE RR!RRInit
  BY Zenon
<1>1. Line = << >>
  BY ConcatEmptySeq, EmptySeq, Zenon DEF SchedInit, Line
<1> QED
  BY <1>1, Zenon DEF SchedInit, RR!RRInit

\* Every operation of the scheduler is a step of the line: add() lets a
\* thread in, begin() starts, yield() rotates and vanish() leaves.
LEMMA RoundRobinStep ==
    ASSUME SchedInv, [SchedNext]_schedVars
    PROVE  [RR!RRNext]_(RR!rrVars)
<1>0. /\ SchedTypeOK
      /\ runnable_ \in Seq(Threads) /\ exhausted_ \in Seq(Threads)
      /\ NoThread \notin Threads /\ InitThread \in Threads /\ Tasks \subseteq Threads
  BY ThreadsAssumption, Zenon DEF SchedInv, SchedTypeOK, Threads
<1>1. RR!InLine = Queued
  BY Zenon DEF RR!InLine, Queued, Elements
<1>2. ASSUME NEW t \in Tasks, AddTask(t)
      PROVE  RR!RRNext
  <2>1. /\ t \in Threads /\ t \notin RR!InLine /\ t # current_thread_ /\ add(t)
        /\ current_thread_' = current_thread_
    BY <1>0, <1>1, <1>2, Zenon DEF AddTask, add
  <2>2. Line' = Append(runnable_, t) \o exhausted_
    BY <1>0, <2>1, AddLine, Zenon
  <2>3. /\ Len(runnable_) \in 0 .. Len(Line)
        /\ Append(runnable_, t) \o exhausted_ = RR!LetIn(Line, Len(runnable_), t)
    BY <1>0, <2>1, InsertInConcat DEF Line
  <2>4. RR!Admit(t, Len(runnable_))
    BY <2>1, <2>2, <2>3, Zenon DEF RR!Admit
  <2> QED
    BY <2>1, <2>3, <2>4, Zenon DEF RR!RRNext
<1>3. CASE BeginScheduling
  <2>1. UNCHANGED Line /\ current_thread_ = NoThread /\ current_thread_' = InitThread
    BY <1>3, Zenon DEF BeginScheduling, begin, Line
  <2>2. RR!Start(InitThread)
    BY <1>1, <2>1, Zenon DEF RR!Start, SchedInv
  <2> QED
    BY <1>0, <2>2, Zenon DEF RR!RRNext
<1>4. CASE yield
  <2>1. RR!Rotate
    BY <1>0, <1>4, YieldLine, Zenon DEF RR!Rotate
  <2> QED
    BY <2>1, Zenon DEF RR!RRNext
<1>5. CASE Exit
  <2>1. RR!Leave
    BY <1>0, <1>5, VanishLine, Zenon DEF RR!Leave, Exit
  <2> QED
    BY <2>1, Zenon DEF RR!RRNext
<1>6. CASE UNCHANGED schedVars
  BY <1>6, Zenon DEF schedVars, RR!rrVars, Line
<1> QED
  BY <1>2, <1>3, <1>4, <1>5, <1>6, Zenon DEF SchedNext

\* Scheduler: the runnable and exhausted queues implement round robin.
THEOREM SchedulerImplementsRoundRobin == SchedSpec => ImplementsRoundRobin
<1>1. SchedInv /\ [SchedNext]_schedVars => [RR!RRNext]_(RR!rrVars)
  BY RoundRobinStep, Zenon
<1> QED
  BY <1>1, SchedInvInit, SchedInvNext, RoundRobinInit, PTL
  DEF SchedSpec, ImplementsRoundRobin, RR!RRSpec

=============================================================================
