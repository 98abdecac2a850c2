---------------------------- MODULE TrapProofs ----------------------------
(***************************************************************************)
(* Machine-checked theorems about TrapReturn, for any number of tasks and  *)
(* any depth of nesting: as long as no IRQ is taken between the write of   *)
(* ELR_EL1 and the eret, every return is right.                            *)
(***************************************************************************)
EXTENDS TrapReturn, TLAPS, SequenceTheorems

\* Points an exception can interrupt outside the window.
Interruptible == {"user", "svc", "irq", "ret_elr", "fork_elr", "tramp", "tramp_elr"}

\* Points that still have a frame of their own to return through, those among them whose
\* frame is that of a system call, and those of task_trampoline.
OfIrq == {"irq", "ret_elr", "ret_spsr", "ret_regs"}
OfFork == {"fork_elr", "fork_spsr", "fork_regs"}
Framed == OfIrq \cup OfFork \cup {"svc"}
OfTramp == {"tramp", "tramp_elr", "tramp_eret"}

FrameSet == [elr : Interruptible, spsr : BOOLEAN, fp : Task \cup {Kernel}]
PendingSet == Interruptible \X BOOLEAN

\* A stack of frames fs whose innermost point is p, with the points ps still to be resumed:
\* the frames record those points, the point of each framed level has a frame below it, the
\* outermost is user code or the trampoline, which owes one more return.
PointAt(p, fs, i) == IF i = 0 THEN p ELSE fs[i].elr

Nested(p, fs, ps) ==
  /\ fs \in Seq(FrameSet) /\ ps \in Seq(PendingSet)
  /\ \A i \in 0 .. Len(fs) : PointAt(p, fs, i) \in Framed <=> i < Len(fs)
  /\ \A i \in 0 .. Len(fs) : PointAt(p, fs, i) \in OfFork \cup {"svc"} =>
        i = Len(fs) - 1 /\ PointAt(p, fs, i + 1) = "user"
  /\ \A i \in 1 .. Len(fs) : i \in DOMAIN ps /\ ps[i] = <<fs[i].elr, fs[i].spsr>>
  /\ \/ PointAt(p, fs, Len(fs)) = "user" /\ Len(ps) = Len(fs)
     \/ /\ PointAt(p, fs, Len(fs)) \in OfTramp
        /\ Len(ps) = Len(fs) + 1 /\ ps[Len(fs) + 1] = <<"user", FALSE>>

----------------------------------------------------------------------------
(* Pushing and popping.                                                    *)

LEMMA PushSeq ==
  ASSUME NEW S, NEW x \in S, NEW s \in Seq(S)
  PROVE  /\ <<x>> \o s \in Seq(S) /\ Len(<<x>> \o s) = Len(s) + 1
         /\ <<x>> \o s # << >>
         /\ (<<x>> \o s)[1] = x
         /\ \A i \in 1 .. Len(s) : (<<x>> \o s)[i + 1] = s[i]
         /\ \A i \in 2 .. Len(s) + 1 : (<<x>> \o s)[i] = s[i - 1]
<1>1. <<x>> \in Seq(S) /\ Len(<<x>>) = 1 /\ <<x>>[1] = x
  OBVIOUS
<1>2. /\ <<x>> \o s \in Seq(S) /\ Len(<<x>> \o s) = 1 + Len(s)
      /\ \A i \in 1 .. 1 + Len(s) : (<<x>> \o s)[i] = IF i <= 1 THEN <<x>>[i] ELSE s[i - 1]
  BY <1>1, ConcatProperties
<1>3. Len(s) \in Nat
  OBVIOUS
<1>4. <<x>> \o s # << >>
  BY <1>2, <1>3
<1> QED
  BY <1>1, <1>2, <1>3, <1>4

\* An exception at p nests one level deeper.
LEMMA PushNested ==
  ASSUME NEW p \in Interruptible, NEW q \in {"irq", "svc"}, NEW m \in BOOLEAN,
         NEW x \in Task \cup {Kernel}, NEW fs, NEW ps,
         Nested(p, fs, ps), q = "svc" => p = "user"
  PROVE  Nested(q, <<[elr |-> p, spsr |-> m, fp |-> x]>> \o fs, <<<<p, m>>>> \o ps)
<1> DEFINE f == [elr |-> p, spsr |-> m, fp |-> x]
           gs == <<f>> \o fs
           qs == <<<<p, m>>>> \o ps
<1>1. f \in FrameSet /\ <<p, m>> \in PendingSet
  BY DEF FrameSet, PendingSet
<1>2. fs \in Seq(FrameSet) /\ ps \in Seq(PendingSet) /\ Len(fs) \in Nat /\ Len(ps) \in Nat
  BY DEF Nested
<1>3. /\ gs \in Seq(FrameSet) /\ Len(gs) = Len(fs) + 1 /\ gs[1] = f
      /\ \A i \in 1 .. Len(fs) : gs[i + 1] = fs[i]
  BY <1>1, <1>2, PushSeq
<1>4. qs \in Seq(PendingSet) /\ Len(qs) = Len(ps) + 1
  BY <1>1, <1>2, PushSeq
<1>4a. qs[1] = <<p, m>>
  BY <1>1, <1>2, PushSeq
<1>4b. \A i \in 2 .. Len(ps) + 1 : qs[i] = ps[i - 1]
  BY <1>1, <1>2, PushSeq
<1> HIDE DEF gs, qs
<1>5. \A i \in 0 .. Len(fs) : PointAt(q, gs, i + 1) = PointAt(p, fs, i)
  BY <1>2, <1>3 DEF PointAt
<1>6. PointAt(q, gs, 0) = q /\ PointAt(q, gs, Len(gs)) = PointAt(p, fs, Len(fs))
  BY <1>2, <1>3, <1>5 DEF PointAt
<1>7. \A i \in 0 .. Len(gs) : PointAt(q, gs, i) \in Framed <=> i < Len(gs)
  <2> SUFFICES ASSUME NEW i \in 0 .. Len(gs) PROVE PointAt(q, gs, i) \in Framed <=> i < Len(gs)
    OBVIOUS
  <2>1. CASE i = 0
    BY <2>1, <1>2, <1>3, <1>6 DEF Framed, OfIrq
  <2>2. CASE i # 0
    <3>1. i - 1 \in 0 .. Len(fs) /\ PointAt(q, gs, i) = PointAt(p, fs, i - 1)
      BY <2>2, <1>2, <1>3, <1>5
    <3> QED
      BY <3>1, <1>2, <1>3 DEF Nested
  <2> QED
    BY <2>1, <2>2
<1>8. \A i \in 0 .. Len(gs) : PointAt(q, gs, i) \in OfFork \cup {"svc"} =>
        i = Len(gs) - 1 /\ PointAt(q, gs, i + 1) = "user"
  <2> SUFFICES ASSUME NEW i \in 0 .. Len(gs), PointAt(q, gs, i) \in OfFork \cup {"svc"}
               PROVE  i = Len(gs) - 1 /\ PointAt(q, gs, i + 1) = "user"
    OBVIOUS
  <2>1. CASE i = 0
    <3>1. q = "svc" /\ p = "user"
      BY <2>1, <1>6 DEF OfFork
    <3>2. ~(0 < Len(fs))
      BY <3>1, <1>2 DEF Nested, PointAt, Framed, OfIrq, OfFork
    <3> QED
      BY <2>1, <3>1, <3>2, <1>2, <1>3, <1>5 DEF PointAt
  <2>2. CASE i # 0
    <3>1. i - 1 \in 0 .. Len(fs) /\ PointAt(q, gs, i) = PointAt(p, fs, i - 1)
      BY <2>2, <1>2, <1>3, <1>5
    <3>2. i - 1 = Len(fs) - 1 /\ PointAt(p, fs, i) = "user"
      BY <3>1 DEF Nested
    <3> QED
      BY <3>2, <1>2, <1>3, <1>5
  <2> QED
    BY <2>1, <2>2
<1>9. \A i \in 1 .. Len(gs) : i \in DOMAIN qs /\ qs[i] = <<gs[i].elr, gs[i].spsr>>
  <2> SUFFICES ASSUME NEW i \in 1 .. Len(gs)
               PROVE  i \in DOMAIN qs /\ qs[i] = <<gs[i].elr, gs[i].spsr>>
    OBVIOUS
  <2>1. CASE i = 1
    BY <2>1, <1>2, <1>3, <1>4, <1>4a
  <2>2. CASE i # 1
    <3>1. i - 1 \in 1 .. Len(fs) /\ gs[i] = fs[i - 1]
      BY <2>2, <1>2, <1>3
    <3>2. i - 1 \in 1 .. Len(ps) /\ ps[i - 1] = <<fs[i - 1].elr, fs[i - 1].spsr>>
      BY <3>1, <1>2 DEF Nested
    <3>3. i \in 2 .. Len(ps) + 1 /\ i \in 1 .. Len(qs)
      BY <3>2, <1>2, <1>4
    <3>4. qs[i] = ps[i - 1]
      BY <3>3, <1>4b
    <3> QED
      BY <3>1, <3>2, <3>3, <3>4, <1>4
  <2> QED
    BY <2>1, <2>2
<1>10. \/ PointAt(q, gs, Len(gs)) = "user" /\ Len(qs) = Len(gs)
       \/ /\ PointAt(q, gs, Len(gs)) \in OfTramp
          /\ Len(qs) = Len(gs) + 1 /\ qs[Len(gs) + 1] = <<"user", FALSE>>
  <2>1. CASE PointAt(p, fs, Len(fs)) = "user" /\ Len(ps) = Len(fs)
    BY Zenon, <2>1, <1>3, <1>4, <1>6
  <2>2. CASE /\ PointAt(p, fs, Len(fs)) \in OfTramp
             /\ Len(ps) = Len(fs) + 1 /\ ps[Len(fs) + 1] = <<"user", FALSE>>
    <3>1. Len(gs) + 1 \in 2 .. Len(ps) + 1 /\ Len(gs) + 1 - 1 = Len(fs) + 1
      BY <2>2, <1>2, <1>3
    <3>2. qs[Len(gs) + 1] = ps[Len(fs) + 1]
      BY <3>1, <1>4b
    <3>3. qs[Len(gs) + 1] = <<"user", FALSE>>
      BY <3>2, <2>2, Zenon
    <3>4. Len(qs) = Len(gs) + 1 /\ PointAt(q, gs, Len(gs)) \in OfTramp
      BY <2>2, <1>2, <1>3, <1>4, <1>6
    <3> QED
      BY <3>3, <3>4, Zenon
  <2> QED
    BY Zenon, <2>1, <2>2 DEF Nested
<1> QED
  BY Zenon, <1>3, <1>4, <1>7, <1>8, <1>9, <1>10 DEF Nested, gs, qs

\* A return drops the innermost level; the point it resumes is the one recorded.
LEMMA PopNested ==
  ASSUME NEW p, NEW fs, NEW ps, Nested(p, fs, ps), p \in Framed
  PROVE  /\ fs # << >> /\ ps # << >> /\ Len(fs) > 0
         /\ Head(fs) = fs[1] /\ fs[1] \in FrameSet
         /\ Head(ps) = <<fs[1].elr, fs[1].spsr>>
         /\ Nested(fs[1].elr, Tail(fs), Tail(ps))
<1> DEFINE gs == Tail(fs)
           qs == Tail(ps)
<1>1. fs \in Seq(FrameSet) /\ ps \in Seq(PendingSet) /\ Len(fs) \in Nat /\ Len(ps) \in Nat
  BY DEF Nested
<1>2. Len(fs) > 0
  BY <1>1 DEF Nested, PointAt
<1>3. 1 \in DOMAIN ps /\ ps[1] = <<fs[1].elr, fs[1].spsr>>
  BY <1>1, <1>2 DEF Nested
<1>4. fs # << >> /\ ps # << >> /\ Len(ps) > 0
  BY <1>1, <1>2, <1>3
<1>5. Head(fs) = fs[1] /\ fs[1] \in FrameSet /\ Head(ps) = ps[1]
  BY <1>1, <1>2, <1>4
<1>6. /\ gs \in Seq(FrameSet) /\ Len(gs) = Len(fs) - 1
      /\ \A i \in 1 .. Len(gs) : gs[i] = fs[i + 1]
  BY <1>1, <1>4, HeadTailProperties
<1>7. /\ qs \in Seq(PendingSet) /\ Len(qs) = Len(ps) - 1
      /\ \A i \in 1 .. Len(qs) : qs[i] = ps[i + 1]
  BY <1>1, <1>4, HeadTailProperties
<1> DEFINE q == fs[1].elr
<1> HIDE DEF gs, qs, q
<1>8. \A i \in 0 .. Len(gs) : PointAt(q, gs, i) = PointAt(p, fs, i + 1)
  BY <1>1, <1>2, <1>6 DEF PointAt, q
<1>9. \A i \in 0 .. Len(gs) : PointAt(q, gs, i) \in Framed <=> i < Len(gs)
  <2> SUFFICES ASSUME NEW i \in 0 .. Len(gs) PROVE PointAt(q, gs, i) \in Framed <=> i < Len(gs)
    OBVIOUS
  <2>1. i + 1 \in 0 .. Len(fs)
    BY <1>1, <1>6
  <2> QED
    BY <2>1, <1>1, <1>6, <1>8 DEF Nested
<1>10. \A i \in 0 .. Len(gs) : PointAt(q, gs, i) \in OfFork \cup {"svc"} =>
        i = Len(gs) - 1 /\ PointAt(q, gs, i + 1) = "user"
  <2> SUFFICES ASSUME NEW i \in 0 .. Len(gs), PointAt(q, gs, i) \in OfFork \cup {"svc"}
               PROVE  i = Len(gs) - 1 /\ PointAt(q, gs, i + 1) = "user"
    OBVIOUS
  <2>1. i + 1 \in 0 .. Len(fs) /\ PointAt(p, fs, i + 1) \in OfFork \cup {"svc"}
    BY <1>1, <1>6, <1>8
  <2>2. i + 1 = Len(fs) - 1 /\ PointAt(p, fs, i + 1 + 1) = "user"
    BY <2>1 DEF Nested
  <2>3. i + 1 \in 0 .. Len(gs)
    BY <2>2, <1>1, <1>6
  <2> QED
    BY <2>2, <2>3, <1>1, <1>6, <1>8
<1>11. \A i \in 1 .. Len(gs) : i \in DOMAIN qs /\ qs[i] = <<gs[i].elr, gs[i].spsr>>
  <2> SUFFICES ASSUME NEW i \in 1 .. Len(gs)
               PROVE  i \in DOMAIN qs /\ qs[i] = <<gs[i].elr, gs[i].spsr>>
    OBVIOUS
  <2>1. i + 1 \in 1 .. Len(fs) /\ gs[i] = fs[i + 1]
    BY <1>1, <1>6
  <2>2. i + 1 \in 1 .. Len(ps) /\ ps[i + 1] = <<fs[i + 1].elr, fs[i + 1].spsr>>
    BY <2>1, <1>1 DEF Nested
  <2>3. i \in 1 .. Len(qs)
    BY <2>2, <1>1, <1>7
  <2>4. qs[i] = ps[i + 1] /\ i \in DOMAIN qs
    BY <2>3, <1>7
  <2> QED
    BY <2>1, <2>2, <2>4, Zenon
<1>12. \/ PointAt(q, gs, Len(gs)) = "user" /\ Len(qs) = Len(gs)
       \/ /\ PointAt(q, gs, Len(gs)) \in OfTramp
          /\ Len(qs) = Len(gs) + 1 /\ qs[Len(gs) + 1] = <<"user", FALSE>>
  <2>1. PointAt(q, gs, Len(gs)) = PointAt(p, fs, Len(fs))
    BY <1>1, <1>2, <1>6, <1>8
  <2>2. CASE PointAt(p, fs, Len(fs)) = "user" /\ Len(ps) = Len(fs)
    BY <2>1, <2>2, <1>6, <1>7
  <2>3. CASE /\ PointAt(p, fs, Len(fs)) \in OfTramp
             /\ Len(ps) = Len(fs) + 1 /\ ps[Len(fs) + 1] = <<"user", FALSE>>
    <3>1. Len(gs) + 1 \in 1 .. Len(qs) /\ Len(gs) + 1 + 1 = Len(fs) + 1 /\ Len(qs) = Len(gs) + 1
      BY <2>3, <1>1, <1>2, <1>6, <1>7
    <3>2. qs[Len(gs) + 1] = ps[Len(fs) + 1]
      BY <3>1, <1>7
    <3> QED
      BY <3>1, <3>2, <2>1, <2>3, Zenon
  <2> QED
    BY Zenon, <2>2, <2>3 DEF Nested
<1>13. Nested(q, gs, qs)
  BY Zenon, <1>6, <1>7, <1>9, <1>10, <1>11, <1>12 DEF Nested
<1> QED
  BY <1>2, <1>3, <1>4, <1>5, <1>13 DEF gs, qs, q

\* Moving on inside one sequence does not change the nesting.
LEMMA MoveNested ==
  ASSUME NEW p, NEW q, NEW fs, NEW ps, Nested(p, fs, ps),
         \/ p \in OfIrq \cup {"svc"} /\ q \in OfIrq
         \/ p \in OfFork /\ q \in OfFork
         \/ p \in OfTramp /\ q \in OfTramp
  PROVE  Nested(q, fs, ps)
<1>1. Len(fs) \in Nat
  BY DEF Nested
<1>2. \A i \in 1 .. Len(fs) : PointAt(q, fs, i) = PointAt(p, fs, i)
  BY DEF PointAt
<1>3. PointAt(q, fs, 0) = q /\ PointAt(p, fs, 0) = p
  BY DEF PointAt
<1>4. q \in Framed <=> p \in Framed
  BY DEF Framed, OfIrq, OfFork, OfTramp
<1>5. q \in OfFork \cup {"svc"} => p \in OfFork
  BY DEF Framed, OfIrq, OfFork, OfTramp
<1>6. \A i \in 0 .. Len(fs) : PointAt(q, fs, i) \in Framed <=> i < Len(fs)
  <2> SUFFICES ASSUME NEW i \in 0 .. Len(fs) PROVE PointAt(q, fs, i) \in Framed <=> i < Len(fs)
    OBVIOUS
  <2>1. PointAt(p, fs, i) \in Framed <=> i < Len(fs)
    BY DEF Nested
  <2>2. CASE i = 0
    BY <2>1, <2>2, <1>3, <1>4
  <2>3. CASE i # 0
    BY <2>1, <2>3, <1>1, <1>2
  <2> QED
    BY <2>2, <2>3
<1>7. \A i \in 0 .. Len(fs) : PointAt(q, fs, i) \in OfFork \cup {"svc"} =>
        i = Len(fs) - 1 /\ PointAt(q, fs, i + 1) = "user"
  <2> SUFFICES ASSUME NEW i \in 0 .. Len(fs), PointAt(q, fs, i) \in OfFork \cup {"svc"}
               PROVE  i = Len(fs) - 1 /\ PointAt(q, fs, i + 1) = "user"
    OBVIOUS
  <2>1. PointAt(p, fs, i) \in OfFork \cup {"svc"}
    BY <1>1, <1>2, <1>3, <1>5
  <2>2. i = Len(fs) - 1 /\ PointAt(p, fs, i + 1) = "user"
    BY <2>1 DEF Nested
  <2> QED
    BY <2>2, <1>1, <1>2
<1>8. PointAt(q, fs, Len(fs)) = PointAt(p, fs, Len(fs)) \/ (Len(fs) = 0 /\ p \in OfTramp /\ q \in OfTramp)
  <2>1. CASE Len(fs) = 0
    BY <2>1, <1>1, <1>3 DEF Nested, OfIrq, OfFork, OfTramp, Framed
  <2>2. CASE Len(fs) # 0
    BY <2>2, <1>1, <1>2
  <2> QED
    BY <2>1, <2>2
<1>9. \/ PointAt(q, fs, Len(fs)) = "user" /\ Len(ps) = Len(fs)
      \/ /\ PointAt(q, fs, Len(fs)) \in OfTramp
         /\ Len(ps) = Len(fs) + 1 /\ ps[Len(fs) + 1] = <<"user", FALSE>>
  <2>1. CASE PointAt(q, fs, Len(fs)) = PointAt(p, fs, Len(fs))
    BY <2>1, Zenon DEF Nested
  <2>2. CASE Len(fs) = 0 /\ p \in OfTramp /\ q \in OfTramp
    <3>1. PointAt(p, fs, Len(fs)) # "user" /\ PointAt(q, fs, Len(fs)) \in OfTramp
      BY <2>2, <1>3 DEF OfTramp
    <3> QED
      BY <3>1, Zenon DEF Nested
  <2> QED
    BY Zenon, <2>1, <2>2, <1>8
<1> QED
  BY <1>6, <1>7, <1>9, Zenon DEF Nested

\* A stack made by sched_fork has the one frame that the system call of the parent had.
LEMMA ForkNested ==
  ASSUME NEW f \in FrameSet, f.elr = "user"
  PROVE  Nested("fork_elr", <<f>>, <<<<f.elr, f.spsr>>>>)
<1> DEFINE fs == <<f>>
           ps == <<<<f.elr, f.spsr>>>>
<1>1. f.elr \in Interruptible /\ f.spsr \in BOOLEAN
  BY DEF FrameSet
<1>2. <<f.elr, f.spsr>> \in PendingSet
  BY <1>1 DEF PendingSet
<1>3. fs \in Seq(FrameSet) /\ Len(fs) = 1 /\ fs[1] = f
  OBVIOUS
<1>4. ps \in Seq(PendingSet) /\ Len(ps) = 1 /\ DOMAIN ps = 1 .. 1
  BY <1>2
<1>5. ps[1] = <<f.elr, f.spsr>>
  OBVIOUS
<1> HIDE DEF fs, ps
<1>6. PointAt("fork_elr", fs, 0) = "fork_elr" /\ PointAt("fork_elr", fs, 1) = "user"
  BY <1>3 DEF PointAt
<1>7. \A i \in 0 .. 1 : i = 0 \/ i = 1
  OBVIOUS
<1>8. \A i \in 0 .. Len(fs) : PointAt("fork_elr", fs, i) \in Framed <=> i < Len(fs)
  BY <1>3, <1>6, <1>7 DEF Framed, OfIrq, OfFork
<1>9. \A i \in 0 .. Len(fs) : PointAt("fork_elr", fs, i) \in OfFork \cup {"svc"} =>
        i = Len(fs) - 1 /\ PointAt("fork_elr", fs, i + 1) = "user"
  BY <1>3, <1>6, <1>7 DEF OfFork
<1>10. \A i \in 1 .. Len(fs) : i \in DOMAIN ps /\ ps[i] = <<fs[i].elr, fs[i].spsr>>
  BY <1>3, <1>4, <1>5
<1>11. PointAt("fork_elr", fs, Len(fs)) = "user" /\ Len(ps) = Len(fs)
  BY <1>3, <1>4, <1>6
<1>12. Nested("fork_elr", fs, ps)
  BY <1>3, <1>4, <1>8, <1>9, <1>10, <1>11 DEF Nested
<1> QED
  BY <1>12 DEF fs, ps

\* A point without a frame of its own is the outermost.
LEMMA OutermostLen ==
  ASSUME NEW p, NEW fs, NEW ps, Nested(p, fs, ps), p \notin Framed
  PROVE  /\ Len(fs) = 0 /\ Len(ps) \in Nat
         /\ p = "user" => Len(ps) = 0
         /\ p # "user" => Len(ps) = 1
<1>1. Len(fs) \in Nat /\ Len(ps) \in Nat
  BY DEF Nested
<1>2. Len(fs) = 0
  BY <1>1 DEF Nested, PointAt
<1>3. PointAt(p, fs, Len(fs)) = p
  BY <1>2 DEF PointAt
<1>4. CASE p = "user"
  <2>1. PointAt(p, fs, Len(fs)) \notin OfTramp
    BY <1>3, <1>4 DEF OfTramp
  <2>2. Len(ps) = Len(fs)
    BY <2>1, Zenon DEF Nested
  <2> QED
    BY <1>1, <1>2, <1>4, <2>2
<1>5. CASE p # "user"
  <2>1. Len(ps) = Len(fs) + 1
    BY <1>3, <1>5, Zenon DEF Nested
  <2> QED
    BY <1>1, <1>2, <1>5, <2>1
<1> QED
  BY <1>4, <1>5

\* The trampoline owes one return, to user code.
LEMMA TrampOwes ==
  ASSUME NEW p \in OfTramp, NEW fs, NEW ps, Nested(p, fs, ps)
  PROVE  ps # << >> /\ Head(ps) = <<"user", FALSE>>
<1>1. p \notin Framed /\ p # "user"
  BY DEF Framed, OfIrq, OfFork, OfTramp
<1>2. Len(fs) = 0 /\ Len(ps) = 1 /\ ps \in Seq(PendingSet)
  BY Zenon, <1>1, OutermostLen DEF Nested
<1>3. PointAt(p, fs, Len(fs)) = p
  BY <1>2 DEF PointAt
<1>4. ps[Len(fs) + 1] = <<"user", FALSE>>
  BY <1>1, <1>3, Zenon DEF Nested
<1>5. Len(fs) + 1 = 1
  BY <1>2
<1>5a. Len(<< >>) = 0 /\ 0 # 1
  OBVIOUS
<1>6. ps # << >>
  BY <1>2, <1>5a, Zenon
<1>7. Head(ps) = ps[1]
  BY <1>2, <1>6
<1> QED
  BY <1>4, <1>5, <1>6, <1>7, Zenon

----------------------------------------------------------------------------
(* The inductive invariant.                                                *)

Popped == {"eret", "fork_eret"}

TrapTypes ==
  /\ cur \in Task /\ masked \in BOOLEAN /\ spsr \in BOOLEAN /\ elr \in Interruptible
  /\ pc \in [Task -> Points \cup {"none"}] /\ pc[cur] # "none"
  /\ fp \in Task \cup {Kernel} /\ user_fp \in [Task -> Task \cup {Kernel}]
  /\ frames \in [Task -> Seq(FrameSet)] /\ pending \in [Task -> Seq(PendingSet)]
  /\ used \in [Task -> Nat]

\* What a task t at p has on its kernel stack: nested frames, that of user code with the FP
\* values the task had there, in at least the bytes they take; a boot task never runs the
\* code of fork_return, and uses no byte more.
Level(t, p, fs, ps, bytes, floats) ==
  /\ p \notin Popped \cup {"none"} => Nested(p, fs, ps)
  /\ \A i \in 1 .. Len(fs) : fs[i].elr = "user" => fs[i].fp = floats
  /\ bytes >= FRAME_SIZE * Len(fs)
  /\ t \in Boot => /\ bytes = FRAME_SIZE * Len(fs)
                   /\ p \notin OfFork \cup {"none", "fork_eret"}
                   /\ \A i \in 1 .. Len(fs) : fs[i].elr \notin OfFork

\* A task that is not on the CPU left it inside a handler, or has not started.
Levels ==
  \A t \in Task :
    /\ Level(t, pc[t], frames[t], pending[t], used[t], user_fp[t])
    /\ t # cur => pc[t] \in {"none", "svc", "irq", "fork_elr", "tramp"}

\* What the registers hold between their load and the eret.
Registers ==
  /\ pc[cur] \in {"ret_spsr", "fork_spsr", "ret_regs", "fork_regs"} => elr = Frame.elr
  /\ pc[cur] \in {"ret_regs", "fork_regs"} => spsr = Frame.spsr
  /\ pc[cur] = "tramp_eret" => elr = "user" /\ spsr = FALSE
  /\ pc[cur] = "eret" /\ elr = "user" => fp = user_fp[cur]
  /\ cur \in Boot /\ pc[cur] \in EretAt => elr \notin OfFork

Resumes ==
  pc[cur] \in Popped => /\ pending[cur] # << >>
                        /\ Head(pending[cur]) = <<elr, spsr>>
                        /\ Nested(elr, frames[cur], Tail(pending[cur]))

TrapInv == TrapTypes /\ Levels /\ Registers /\ Resumes

----------------------------------------------------------------------------
(* Every step keeps it.                                                    *)

\* A step that moves only the running task keeps what is known of the others.
LEMMA OnlyCurMoves ==
  ASSUME Levels, cur \in Task, cur' = cur,
         \A t \in Task : t # cur => /\ pc'[t] = pc[t] /\ frames'[t] = frames[t]
                                    /\ pending'[t] = pending[t] /\ used'[t] = used[t]
                                    /\ user_fp'[t] = user_fp[t],
         Level(cur, pc'[cur], frames'[cur], pending'[cur], used'[cur], user_fp'[cur])
  PROVE  Levels'
<1> SUFFICES ASSUME NEW t \in Task
             PROVE  /\ Level(t, pc'[t], frames'[t], pending'[t], used'[t], user_fp'[t])
                    /\ t # cur => pc'[t] \in {"none", "svc", "irq", "fork_elr", "tramp"}
  BY DEF Levels, Level
<1>1. CASE t = cur
  BY <1>1
<1>2. CASE t # cur
  <2>1. Level(t, pc[t], frames[t], pending[t], used[t], user_fp[t])
    BY DEF Levels
  <2> QED
    BY <1>2, <2>1 DEF Levels
<1> QED
  BY <1>1, <1>2

\* Exception entry outside the windows.
LEMMA EnterKeeps ==
  ASSUME TrapInv, NEW q \in {"irq", "svc"}, NEW m \in BOOLEAN,
         pc[cur] \in Interruptible, q = "svc" => pc[cur] = "user", Enter(q, m)
  PROVE  TrapInv'
<1> DEFINE p == pc[cur]
           f == [elr |-> p, spsr |-> masked, fp |-> fp]
           x == IF p = "user" THEN fp ELSE user_fp[cur]
           fs == frames[cur]
           ps == pending[cur]
           gs == <<f>> \o fs
           qs == <<<<p, masked>>>> \o ps
<1>0. TrapTypes /\ Levels
  BY DEF TrapInv
<1>1. cur \in Task /\ fs \in Seq(FrameSet) /\ ps \in Seq(PendingSet) /\ used[cur] \in Nat
  BY <1>0 DEF TrapTypes
<1>2. f \in FrameSet /\ <<p, masked>> \in PendingSet
  BY <1>0 DEF TrapTypes, FrameSet, PendingSet
<1>3. gs \in Seq(FrameSet) /\ Len(gs) = Len(fs) + 1 /\ gs[1] = f
      /\ \A i \in 2 .. Len(fs) + 1 : gs[i] = fs[i - 1]
  BY <1>1, <1>2, PushSeq
<1>4. qs \in Seq(PendingSet)
  BY <1>1, <1>2, PushSeq
<1>5. /\ cur' = cur /\ pc' = [pc EXCEPT ![cur] = q] /\ frames' = [frames EXCEPT ![cur] = gs]
      /\ pending' = [pending EXCEPT ![cur] = qs] /\ used' = [used EXCEPT ![cur] = @ + FRAME_SIZE]
      /\ elr' = p /\ spsr' = masked /\ fp' = Kernel /\ masked' = m
  BY DEF Enter, Goto
<1>6. user_fp' = [user_fp EXCEPT ![cur] = x]
  BY Zenon, <1>0 DEF Enter, At, TrapTypes
<1>7. Level(cur, p, fs, ps, used[cur], user_fp[cur])
  BY <1>0, <1>1 DEF Levels
<1>8. Nested(p, fs, ps)
  BY <1>7 DEF Level, Interruptible, Popped
<1>9. Nested(q, gs, qs)
  BY <1>0, <1>8, PushNested DEF TrapTypes
<1> HIDE DEF gs, qs, p, f
<1>10. x \in Task \cup {Kernel}
  BY <1>0 DEF TrapTypes
<1>11. TrapTypes'
  BY <1>0, <1>1, <1>3, <1>4, <1>5, <1>6, <1>10 DEF TrapTypes, Points, FRAME_SIZE, p
<1>12. Level(cur, q, gs, qs, used[cur] + FRAME_SIZE, x)
  <2>0. Len(fs) \in Nat
    BY <1>1
  <2>1. \A i \in 1 .. Len(gs) : gs[i].elr = "user" => gs[i].fp = x
    <3> SUFFICES ASSUME NEW i \in 1 .. Len(gs), gs[i].elr = "user" PROVE gs[i].fp = x
      OBVIOUS
    <3>1. CASE i = 1
      BY <3>1, <1>3 DEF f
    <3>2. CASE i # 1
      <4>1. i - 1 \in 1 .. Len(fs) /\ gs[i] = fs[i - 1]
        BY <3>2, <1>3, <2>0
      <4>2. p \in Framed
        BY <4>1, <1>8, <2>0, OutermostLen
      <4>3. p # "user"
        BY <4>2 DEF Framed, OfIrq, OfFork
      <4> QED
        BY <4>1, <4>3, <1>7 DEF Level
    <3> QED
      BY <3>1, <3>2
  <2>2. used[cur] + FRAME_SIZE >= FRAME_SIZE * Len(gs)
    BY <1>1, <1>3, <1>7, <2>0 DEF Level, FRAME_SIZE
  <2>3. cur \in Boot => /\ used[cur] + FRAME_SIZE = FRAME_SIZE * Len(gs)
                        /\ q \notin OfFork \cup {"none", "fork_eret"}
                        /\ \A i \in 1 .. Len(gs) : gs[i].elr \notin OfFork
    <3> SUFFICES ASSUME cur \in Boot
                 PROVE  /\ used[cur] + FRAME_SIZE = FRAME_SIZE * Len(gs)
                        /\ q \notin OfFork \cup {"none", "fork_eret"}
                        /\ \A i \in 1 .. Len(gs) : gs[i].elr \notin OfFork
      OBVIOUS
    <3>1. used[cur] + FRAME_SIZE = FRAME_SIZE * Len(gs)
      BY <1>1, <1>3, <1>7, <2>0 DEF Level, FRAME_SIZE
    <3>2. q \notin OfFork \cup {"none", "fork_eret"}
      BY DEF OfFork
    <3>3. ASSUME NEW i \in 1 .. Len(gs) PROVE gs[i].elr \notin OfFork
      <4>1. CASE i = 1
        BY <4>1, <1>3, <1>7 DEF f, Level
      <4>2. CASE i # 1
        <5>1. i - 1 \in 1 .. Len(fs) /\ gs[i] = fs[i - 1]
          BY <4>2, <1>3, <2>0
        <5> QED
          BY <5>1, <1>7 DEF Level
      <4> QED
        BY <4>1, <4>2
    <3> QED
      BY <3>1, <3>2, <3>3
  <2> QED
    BY <1>9, <2>1, <2>2, <2>3 DEF Level
<1>13. Levels'
  <2>1. \A t \in Task : t # cur => /\ pc'[t] = pc[t] /\ frames'[t] = frames[t]
                                   /\ pending'[t] = pending[t] /\ used'[t] = used[t]
                                   /\ user_fp'[t] = user_fp[t]
    BY <1>0, <1>5, <1>6 DEF TrapTypes
  <2>2. /\ pc'[cur] = q /\ frames'[cur] = gs /\ pending'[cur] = qs
        /\ used'[cur] = used[cur] + FRAME_SIZE /\ user_fp'[cur] = x
    BY <1>0, <1>5, <1>6 DEF TrapTypes
  <2> QED
    BY <1>0, <1>1, <1>5, <1>12, <2>1, <2>2, OnlyCurMoves
<1>14. pc'[cur'] = q
  BY <1>0, <1>5 DEF TrapTypes
<1>15. Registers' /\ Resumes'
  BY <1>14 DEF Registers, Resumes, Popped, EretAt
<1> QED
  BY <1>11, <1>13, <1>15 DEF TrapInv

\* User code computes.
LEMMA ComputeKeeps == TrapInv /\ Compute => TrapInv'
<1> SUFFICES ASSUME TrapInv, Compute PROVE TrapInv'
  OBVIOUS
<1>1. /\ cur' = cur /\ pc' = pc /\ masked' = masked /\ elr' = elr /\ spsr' = spsr
      /\ frames' = frames /\ used' = used /\ pending' = pending /\ user_fp' = user_fp
      /\ fp' = cur /\ pc[cur] = "user"
  BY DEF Compute, At
<1>2. TrapTypes'
  BY <1>1 DEF TrapInv, TrapTypes
<1>3. Levels'
  BY <1>1 DEF TrapInv, Levels, Level
<1>4. Registers'
  BY <1>1 DEF TrapInv, Registers, EretAt
<1>5. Resumes'
  BY <1>1 DEF TrapInv, Resumes, Popped
<1> QED
  BY <1>2, <1>3, <1>4, <1>5 DEF TrapInv

\* Another task gets the CPU: it is where it left it.
LEMMA SwitchKeeps ==
  ASSUME TrapInv, NEW n \in Task, context_switch(n)
  PROVE  TrapInv'
<1>1. /\ cur' = n /\ n # cur /\ pc' = pc /\ masked' = masked /\ elr' = elr /\ spsr' = spsr
      /\ frames' = frames /\ used' = used /\ pending' = pending /\ user_fp' = user_fp
      /\ fp' = fp /\ pc[cur] \in {"svc", "irq"} /\ pc[n] # "none"
  BY DEF context_switch, At
<1>2. TrapTypes'
  BY <1>1 DEF TrapInv, TrapTypes
<1>3. Levels'
  <2> SUFFICES ASSUME NEW t \in Task
               PROVE  /\ Level(t, pc[t], frames[t], pending[t], used[t], user_fp[t])
                      /\ t # n => pc[t] \in {"none", "svc", "irq", "fork_elr", "tramp"}
    BY <1>1 DEF Levels, Level
  <2>1. Levels
    BY DEF TrapInv
  <2>2. Level(t, pc[t], frames[t], pending[t], used[t], user_fp[t])
    BY <2>1 DEF Levels
  <2>3. t # n => pc[t] \in {"none", "svc", "irq", "fork_elr", "tramp"}
    BY <1>1, <2>1 DEF Levels
  <2> QED
    BY <2>2, <2>3
<1>4. pc'[cur'] \in {"svc", "irq", "fork_elr", "tramp"}
  BY <1>1 DEF TrapInv, Levels
<1>5. Registers' /\ Resumes'
  BY <1>4 DEF Registers, Resumes, EretAt, Popped
<1> QED
  BY <1>2, <1>3, <1>5 DEF TrapInv

\* A fork makes the child's stack, and touches nothing of the others.
LEMMA ForkKeeps ==
  ASSUME TrapInv, NEW c \in Task, sched_fork(c)
  PROVE  TrapInv'
<1> DEFINE f == Frame
           fs == <<f>>
           ps == <<<<f.elr, f.spsr>>>>
<1>0. TrapTypes /\ Levels
  BY DEF TrapInv
<1>1. cur \in Task /\ pc[cur] = "svc" /\ pc[c] = "none" /\ c # cur
  BY <1>0 DEF sched_fork, At, TrapTypes
<1>2. Level(cur, pc[cur], frames[cur], pending[cur], used[cur], user_fp[cur])
  BY <1>0, <1>1 DEF Levels
<1>3. Nested("svc", frames[cur], pending[cur])
  BY <1>1, <1>2 DEF Level, Popped
<1>4. f = frames[cur][1] /\ f \in FrameSet
  BY <1>3, PopNested DEF Frame, Framed
<1>5. f.elr = "user"
  <2>1. Len(frames[cur]) \in Nat
    BY <1>3 DEF Nested
  <2>2. PointAt("svc", frames[cur], 0) = "svc"
    BY DEF PointAt
  <2>3. PointAt("svc", frames[cur], 0 + 1) = "user"
    BY <1>3, <2>1, <2>2 DEF Nested
  <2> QED
    BY <1>4, <2>3 DEF PointAt
<1>6. Nested("fork_elr", fs, ps)
  BY <1>4, <1>5, ForkNested
<1>7. fs \in Seq(FrameSet) /\ Len(fs) = 1 /\ fs[1] = f
  BY <1>4
<1>8. ps \in Seq(PendingSet)
  BY <1>6 DEF Nested
<1>9. /\ cur' = cur /\ masked' = masked /\ elr' = elr /\ spsr' = spsr /\ fp' = fp
      /\ pc' = [pc EXCEPT ![c] = "fork_elr"] /\ frames' = [frames EXCEPT ![c] = fs]
      /\ used' = [used EXCEPT ![c] = FRAME_SIZE] /\ pending' = [pending EXCEPT ![c] = ps]
      /\ user_fp' = [user_fp EXCEPT ![c] = f.fp]
  BY DEF sched_fork
<1> HIDE DEF f, fs, ps
<1>10. f.fp \in Task \cup {Kernel}
  BY <1>4 DEF FrameSet
<1>11. TrapTypes'
  BY <1>0, <1>1, <1>7, <1>8, <1>9, <1>10 DEF TrapTypes, Points, FRAME_SIZE
<1>12. c \notin Boot
  BY <1>0, <1>1 DEF Levels, Level
<1>13. Level(c, "fork_elr", fs, ps, FRAME_SIZE, f.fp)
  BY <1>6, <1>7, <1>12 DEF Level, FRAME_SIZE
<1>14. Levels'
  <2> SUFFICES ASSUME NEW t \in Task
               PROVE  /\ Level(t, pc'[t], frames'[t], pending'[t], used'[t], user_fp'[t])
                      /\ t # cur => pc'[t] \in {"none", "svc", "irq", "fork_elr", "tramp"}
    BY <1>9 DEF Levels, Level
  <2>1. CASE t = c
    <3>1. /\ pc'[t] = "fork_elr" /\ frames'[t] = fs /\ pending'[t] = ps
          /\ used'[t] = FRAME_SIZE /\ user_fp'[t] = f.fp
      BY <2>1, <1>0, <1>9 DEF TrapTypes
    <3> QED
      BY <2>1, <3>1, <1>13
  <2>2. CASE t # c
    <3>1. /\ pc'[t] = pc[t] /\ frames'[t] = frames[t] /\ pending'[t] = pending[t]
          /\ used'[t] = used[t] /\ user_fp'[t] = user_fp[t]
      BY <2>2, <1>0, <1>9 DEF TrapTypes
    <3>2. Level(t, pc[t], frames[t], pending[t], used[t], user_fp[t])
      BY <1>0 DEF Levels
    <3> QED
      BY <3>1, <3>2, <1>0 DEF Levels
  <2> QED
    BY <2>1, <2>2
<1>15. pc'[cur'] = "svc"
  BY <1>0, <1>1, <1>9 DEF TrapTypes
<1>16. Registers' /\ Resumes'
  BY <1>15 DEF Registers, Resumes, EretAt, Popped
<1> QED
  BY <1>11, <1>14, <1>16 DEF TrapInv

\* A step inside a handler or a return sequence, from p to q, that leaves the stacks alone.
LEMMA MoveKeeps ==
  ASSUME TrapInv, NEW q \in Points, pc' = [pc EXCEPT ![cur] = q],
         UNCHANGED <<cur, frames, used, pending, user_fp>>,
         q \notin Popped \cup {"fork_elr"},
         \/ pc[cur] \in OfIrq \cup {"svc"} /\ q \in OfIrq
         \/ pc[cur] \in OfFork /\ q \in OfFork
  PROVE  Levels' /\ pc'[cur'] = q /\ Frame' = Frame
<1>1. TrapTypes /\ Levels /\ cur \in Task /\ cur' = cur
  BY DEF TrapInv, TrapTypes
<1>2. Level(cur, pc[cur], frames[cur], pending[cur], used[cur], user_fp[cur])
  BY <1>1 DEF Levels
<1>3. Nested(pc[cur], frames[cur], pending[cur])
  BY <1>2 DEF Level, Popped, OfIrq, OfFork
<1>4. Nested(q, frames[cur], pending[cur])
  BY <1>3, MoveNested
<1>5. Level(cur, q, frames[cur], pending[cur], used[cur], user_fp[cur])
  BY <1>2, <1>4 DEF Level, OfIrq, OfFork
<1>6. pc'[cur] = q /\ \A t \in Task : t # cur => pc'[t] = pc[t]
  BY <1>1 DEF TrapTypes
<1>7. Levels'
  BY <1>1, <1>5, <1>6, OnlyCurMoves
<1> QED
  BY <1>1, <1>6, <1>7 DEF Frame

LEMMA HandlerDoneKeeps == TrapInv /\ HandlerDone => TrapInv'
<1> SUFFICES ASSUME TrapInv, HandlerDone PROVE TrapInv'
  OBVIOUS
<1>1. /\ pc' = [pc EXCEPT ![cur] = "ret_elr"] /\ pc[cur] \in OfIrq \cup {"svc"}
      /\ UNCHANGED <<cur, masked, elr, spsr, fp, frames, used, pending, user_fp>>
  BY DEF HandlerDone, At, Goto, OfIrq
<1>2. Levels' /\ pc'[cur'] = "ret_elr"
  BY Zenon, <1>1, MoveKeeps DEF Points, Popped, OfIrq
<1>3. TrapTypes'
  BY <1>1, <1>2 DEF TrapInv, TrapTypes, Points
<1>4. Registers' /\ Resumes'
  BY <1>2 DEF Registers, Resumes, EretAt, Popped
<1> QED
  BY <1>2, <1>3, <1>4 DEF TrapInv

\* The innermost frame of the running task, at a point that has one.
LEMMA FrameThere ==
  ASSUME TrapInv, pc[cur] \in Framed
  PROVE  /\ cur \in Task /\ Nested(pc[cur], frames[cur], pending[cur])
         /\ Len(frames[cur]) \in Nat /\ Len(frames[cur]) > 0
         /\ Frame = frames[cur][1] /\ Frame \in FrameSet
         /\ Frame.elr \in Interruptible /\ Frame.spsr \in BOOLEAN
         /\ Frame.fp \in Task \cup {Kernel}
<1>1. cur \in Task /\ Levels
  BY DEF TrapInv, TrapTypes
<1>2. Nested(pc[cur], frames[cur], pending[cur])
  BY <1>1 DEF Levels, Level, Popped, Framed, OfIrq, OfFork
<1>3. Len(frames[cur]) > 0 /\ Frame = frames[cur][1] /\ Frame \in FrameSet
  BY <1>2, PopNested DEF Frame
<1>4. Len(frames[cur]) \in Nat
  BY <1>2 DEF Nested
<1> QED
  BY <1>1, <1>2, <1>3, <1>4 DEF FrameSet

LEMMA LoadElrKeeps ==
  ASSUME TrapInv, NEW from, NEW to, LoadElr(from, to),
         <<from, to>> \in {<<"ret_elr", "ret_spsr">>, <<"fork_elr", "fork_spsr">>}
  PROVE  TrapInv'
<1>1. /\ pc' = [pc EXCEPT ![cur] = to] /\ pc[cur] = from /\ elr' = Frame.elr
      /\ UNCHANGED <<cur, masked, spsr, fp, frames, used, pending, user_fp>>
  BY DEF LoadElr, At, Goto
<1>2. Levels' /\ pc'[cur'] = to /\ Frame' = Frame
  BY Zenon, <1>1, MoveKeeps DEF Points, Popped, OfIrq, OfFork
<1>3. Frame.elr \in Interruptible
  BY <1>1, FrameThere DEF Framed, OfIrq, OfFork
<1>4. TrapTypes'
  BY <1>1, <1>2, <1>3 DEF TrapInv, TrapTypes, Points
<1>5. Registers' /\ Resumes'
  BY <1>1, <1>2 DEF Registers, Resumes, EretAt, Popped
<1> QED
  BY <1>2, <1>4, <1>5 DEF TrapInv

LEMMA LoadSpsrKeeps ==
  ASSUME TrapInv, NEW from, NEW to, LoadSpsr(from, to),
         <<from, to>> \in {<<"ret_spsr", "ret_regs">>, <<"fork_spsr", "fork_regs">>}
  PROVE  TrapInv'
<1>1. /\ pc' = [pc EXCEPT ![cur] = to] /\ pc[cur] = from /\ spsr' = Frame.spsr
      /\ UNCHANGED <<cur, masked, elr, fp, frames, used, pending, user_fp>>
  BY DEF LoadSpsr, At, Goto
<1>2. Levels' /\ pc'[cur'] = to /\ Frame' = Frame
  BY Zenon, <1>1, MoveKeeps DEF Points, Popped, OfIrq, OfFork
<1>3. Frame.spsr \in BOOLEAN
  BY <1>1, FrameThere DEF Framed, OfIrq, OfFork
<1>4. TrapTypes'
  BY <1>1, <1>2, <1>3 DEF TrapInv, TrapTypes, Points
<1>5. elr = Frame.elr
  BY <1>1 DEF TrapInv, Registers
<1>6. Registers' /\ Resumes'
  BY <1>1, <1>2, <1>5 DEF Registers, Resumes, EretAt, Popped
<1> QED
  BY <1>2, <1>4, <1>6 DEF TrapInv

\* The frame is dropped: what it recorded is in the registers, and what is below it stays.
LEMMA LoadRegsKeeps ==
  ASSUME TrapInv, NEW from, NEW to, NEW floats \in BOOLEAN, NEW bytes, LoadRegs(from, to, floats, bytes),
         \/ from = "ret_regs" /\ to = "eret" /\ floats /\ bytes = FRAME_SIZE
         \/ from = "fork_regs" /\ to = "fork_eret" /\ ~floats /\ bytes = FORK_FRAME
  PROVE  TrapInv'
<1> DEFINE fs == frames[cur]
           ps == pending[cur]
           gs == Tail(fs)
<1>1. /\ pc' = [pc EXCEPT ![cur] = to] /\ pc[cur] = from
      /\ frames' = [frames EXCEPT ![cur] = gs] /\ used' = [used EXCEPT ![cur] = @ - bytes]
      /\ UNCHANGED <<cur, masked, elr, spsr, pending, user_fp>>
  BY DEF LoadRegs, At, Goto
<1>2. fp' = IF floats THEN Frame.fp ELSE fp
  BY DEF LoadRegs
<1>2a. to = "eret" => fp' = Frame.fp
  <2>1. to = "eret" => floats
    OBVIOUS
  <2> QED
    BY <1>2, <2>1
<1>3. /\ cur \in Task /\ Nested(pc[cur], fs, ps) /\ Len(fs) \in Nat /\ Len(fs) > 0
      /\ Frame = fs[1] /\ Frame.fp \in Task \cup {Kernel}
  BY <1>1, FrameThere DEF Framed, OfIrq, OfFork
<1>4. TrapTypes /\ Levels /\ Registers
  BY DEF TrapInv
<1>5. elr = fs[1].elr /\ spsr = fs[1].spsr
  BY <1>1, <1>3, <1>4 DEF Registers
<1>6. /\ ps # << >> /\ fs # << >> /\ Head(ps) = <<fs[1].elr, fs[1].spsr>>
      /\ Nested(fs[1].elr, gs, Tail(ps))
  BY <1>1, <1>3, PopNested DEF Framed, OfIrq, OfFork
<1>7. fs \in Seq(FrameSet)
  BY <1>3 DEF Nested
<1>8. gs \in Seq(FrameSet) /\ Len(gs) = Len(fs) - 1 /\ \A i \in 1 .. Len(gs) : gs[i] = fs[i + 1]
  BY <1>6, <1>7, HeadTailProperties
<1> HIDE DEF gs
<1>9. Level(cur, from, fs, ps, used[cur], user_fp[cur])
  BY <1>1, <1>3, <1>4 DEF Levels
<1>10. used[cur] \in Nat /\ used[cur] >= FRAME_SIZE * Len(fs)
  BY <1>3, <1>4, <1>9 DEF Level, TrapTypes
<1>11. used[cur] - bytes \in Nat /\ used[cur] - bytes >= FRAME_SIZE * Len(gs)
  BY <1>3, <1>8, <1>10 DEF FRAME_SIZE, FORK_FRAME
<1>12. fp' \in Task \cup {Kernel}
  BY <1>2, <1>3, <1>4 DEF TrapTypes
<1>13. to \in Popped
  BY DEF Popped
<1>14. TrapTypes'
  BY SMTT(60), <1>1, <1>3, <1>4, <1>8, <1>11, <1>12, <1>13 DEF TrapTypes, Points, Popped, EretAt
<1>15. cur \in Boot => from = "ret_regs"
  BY <1>9 DEF Level, OfFork
<1>16. Level(cur, to, gs, ps, used[cur] - bytes, user_fp[cur])
  <2>1. \A i \in 1 .. Len(gs) : i + 1 \in 1 .. Len(fs) /\ gs[i] = fs[i + 1]
    BY <1>3, <1>8
  <2>2. \A i \in 1 .. Len(gs) : gs[i].elr = "user" => gs[i].fp = user_fp[cur]
    BY <1>9, <2>1 DEF Level
  <2>3. cur \in Boot => /\ used[cur] - bytes = FRAME_SIZE * Len(gs)
                        /\ to \notin OfFork \cup {"none", "fork_eret"}
                        /\ \A i \in 1 .. Len(gs) : gs[i].elr \notin OfFork
    <3> SUFFICES ASSUME cur \in Boot
                 PROVE  /\ used[cur] - bytes = FRAME_SIZE * Len(gs)
                        /\ to \notin OfFork \cup {"none", "fork_eret"}
                        /\ \A i \in 1 .. Len(gs) : gs[i].elr \notin OfFork
      OBVIOUS
    <3>1. used[cur] = FRAME_SIZE * Len(fs) /\ bytes = FRAME_SIZE
      BY <1>9, <1>15 DEF Level
    <3>2. used[cur] - bytes = FRAME_SIZE * Len(gs)
      BY <3>1, <1>3, <1>8 DEF FRAME_SIZE
    <3>3. to \notin OfFork \cup {"none", "fork_eret"}
      BY <1>15 DEF OfFork
    <3>4. \A i \in 1 .. Len(gs) : gs[i].elr \notin OfFork
      BY <1>9, <2>1 DEF Level
    <3> QED
      BY <3>2, <3>3, <3>4
  <2> QED
    BY <1>11, <1>13, <2>2, <2>3 DEF Level
<1>17. Levels'
  <2>1. \A t \in Task : t # cur => pc'[t] = pc[t] /\ frames'[t] = frames[t] /\ used'[t] = used[t]
    BY <1>1, <1>4 DEF TrapTypes
  <2>2. pc'[cur] = to /\ frames'[cur] = gs /\ used'[cur] = used[cur] - bytes
    BY <1>1, <1>3, <1>4 DEF TrapTypes
  <2> QED
    BY <1>1, <1>3, <1>4, <1>16, <2>1, <2>2, OnlyCurMoves
<1>18. pc'[cur'] = to /\ frames'[cur'] = gs /\ pending'[cur'] = ps /\ user_fp'[cur'] = user_fp[cur]
  BY <1>1, <1>3, <1>4 DEF TrapTypes
<1>19. Registers'
  <2>1. to = "eret" /\ elr = "user" => fp' = user_fp[cur]
    <3>1. fs[1].elr = "user" => fs[1].fp = user_fp[cur]
      BY <1>3, <1>9 DEF Level
    <3> QED
      BY <1>2a, <1>3, <1>5, <3>1
  <2>2. cur \in Boot => elr \notin OfFork
    BY <1>3, <1>5, <1>9 DEF Level
  <2>3. pc'[cur'] \in {"eret", "fork_eret"} /\ elr' = elr /\ cur' = cur
    BY <1>1, <1>13, <1>18 DEF Popped
  <2> QED
    BY <1>18, <2>1, <2>2, <2>3 DEF Registers
<1>20. Resumes'
  <2>1. ps # << >> /\ Nested(elr, gs, Tail(ps))
    BY <1>5, <1>6 DEF gs
  <2>2. Head(ps) = <<elr, spsr>>
    BY <1>5, <1>6, Zenon
  <2>3. elr' = elr /\ spsr' = spsr
    BY <1>1
  <2> QED
    BY <1>18, <2>1, <2>2, <2>3, Zenon DEF Resumes
<1> QED
  BY <1>14, <1>17, <1>19, <1>20 DEF TrapInv

\* The eret resumes the innermost point still to be resumed.
LEMMA EretKeeps == TrapInv /\ Eret => TrapInv'
<1> SUFFICES ASSUME TrapInv, Eret PROVE TrapInv'
  OBVIOUS
<1> DEFINE ps == pending[cur]
<1>1. /\ pc[cur] \in EretAt /\ ps # << >> /\ pc' = [pc EXCEPT ![cur] = elr] /\ masked' = spsr
      /\ pending' = [pending EXCEPT ![cur] = Tail(ps)]
      /\ UNCHANGED <<cur, elr, spsr, fp, frames, used, user_fp>>
  BY DEF Eret, Goto
<1>2. TrapTypes /\ Levels /\ Registers /\ Resumes /\ cur \in Task /\ elr \in Interruptible
  BY DEF TrapInv, TrapTypes
<1>3. ps \in Seq(PendingSet)
  BY <1>2 DEF TrapTypes
<1>4. Tail(ps) \in Seq(PendingSet) /\ Len(Tail(ps)) = Len(ps) - 1
  BY <1>1, <1>3, HeadTailProperties
<1>5. Level(cur, pc[cur], frames[cur], ps, used[cur], user_fp[cur])
  BY <1>2 DEF Levels
<1>6. Nested(elr, frames[cur], Tail(ps))
  <2>1. CASE pc[cur] \in Popped
    BY <2>1, <1>2 DEF Resumes
  <2>2. CASE pc[cur] = "tramp_eret"
    <3>1. elr = "user"
      BY <2>2, <1>2 DEF Registers
    <3>2. Nested("tramp_eret", frames[cur], ps)
      BY <2>2, <1>5 DEF Level, Popped
    <3>2a. "tramp_eret" \notin Framed /\ "tramp_eret" # "user"
      BY DEF Framed, OfIrq, OfFork
    <3>3. frames[cur] \in Seq(FrameSet) /\ Len(frames[cur]) = 0 /\ Len(ps) = 1
      BY <3>2, <3>2a, <1>2, OutermostLen DEF TrapTypes
    <3>4. Len(Tail(ps)) = 0
      BY <3>3, <1>4
    <3>5. PointAt("user", frames[cur], 0) = "user"
      BY DEF PointAt
    <3>6. \A i \in 0 .. Len(frames[cur]) : i = 0
      BY <3>3
    <3>7. 1 .. Len(frames[cur]) = {}
      BY <3>3
    <3> HIDE DEF ps
    <3>8. "user" \notin Framed /\ "user" \notin OfFork \cup {"svc"}
      BY DEF Framed, OfIrq, OfFork
    <3>9. \A i \in 0 .. Len(frames[cur]) : PointAt("user", frames[cur], i) \in Framed <=> i < Len(frames[cur])
      BY <3>3, <3>5, <3>6, <3>8
    <3>10. Nested("user", frames[cur], Tail(ps))
      BY <1>4, <3>3, <3>4, <3>5, <3>6, <3>7, <3>8, <3>9, Zenon DEF Nested
    <3> QED
      BY <3>1, <3>10
  <2> QED
    BY <1>1, <2>1, <2>2 DEF Popped, EretAt
<1> HIDE DEF ps
<1>7. cur \in Boot => elr \notin OfFork
  BY <1>1, <1>2 DEF Registers
<1>8. elr \notin Popped \cup {"none", "fork_eret"} \cup EretAt
  BY <1>2 DEF Interruptible, Popped, EretAt
<1>9. Level(cur, elr, frames[cur], Tail(ps), used[cur], user_fp[cur])
  BY <1>5, <1>6, <1>7, <1>8 DEF Level
<1>10. \A t \in Task : t # cur => pc'[t] = pc[t] /\ pending'[t] = pending[t]
  BY <1>1, <1>2 DEF TrapTypes
<1>11. pc'[cur] = elr /\ pending'[cur] = Tail(ps)
  BY <1>1, <1>2 DEF TrapTypes
<1>12. Levels'
  BY Zenon, <1>1, <1>2, <1>9, <1>10, <1>11, OnlyCurMoves
<1>13. TrapTypes'
  BY <1>1, <1>2, <1>4, <1>8, <1>11 DEF TrapTypes, Points, Interruptible
<1>14. pc'[cur'] = elr /\ elr \in Interruptible
  BY <1>1, <1>2, <1>11
<1>15. Registers' /\ Resumes'
  BY <1>14 DEF Registers, Resumes, Interruptible, EretAt, Popped
<1> QED
  BY <1>12, <1>13, <1>15 DEF TrapInv

LEMMA TrampolineKeeps == TrapInv /\ task_trampoline => TrapInv'
<1> SUFFICES ASSUME TrapInv, task_trampoline PROVE TrapInv'
  OBVIOUS
<1> DEFINE fs == frames[cur]
           ps == pending[cur]
<1>1. TrapTypes /\ Levels /\ cur \in Task
  BY DEF TrapInv, TrapTypes
<1>2. Level(cur, pc[cur], fs, ps, used[cur], user_fp[cur])
  BY <1>1 DEF Levels
<1>3. ASSUME NEW q \in OfTramp, pc[cur] \in {"tramp", "tramp_elr"},
             pc' = [pc EXCEPT ![cur] = q], \A t \in Task : t # cur => user_fp'[t] = user_fp[t],
             UNCHANGED <<cur, frames, used, pending>>
      PROVE  Levels' /\ pc'[cur'] = q
  <2>1. Nested(pc[cur], fs, ps)
    BY <1>2, <1>3 DEF Level, Popped
  <2>2. Nested(q, fs, ps)
    BY <1>3, <2>1, MoveNested DEF OfTramp
  <2>3. pc[cur] \notin Framed
    BY <1>3 DEF Framed, OfIrq, OfFork
  <2>4. Len(fs) = 0
    BY <2>1, <2>3, OutermostLen
  <2>5. Level(cur, q, fs, ps, used[cur], user_fp'[cur])
    BY <1>2, <1>3, <2>2, <2>4 DEF Level, OfTramp, OfFork
  <2>6. \A t \in Task : t # cur => pc'[t] = pc[t]
    BY <1>1, <1>3 DEF TrapTypes
  <2>7. pc'[cur] = q
    BY <1>1, <1>3 DEF TrapTypes
  <2> QED
    BY <1>1, <1>3, <2>5, <2>6, <2>7, OnlyCurMoves
<1>4. CASE /\ At("tramp")
           /\ masked' = FALSE
           /\ Goto("tramp_elr")
           /\ UNCHANGED <<cur, elr, spsr, fp, frames, used, pending, user_fp>>
  <2>1. /\ "tramp_elr" \in OfTramp /\ pc[cur] \in {"tramp", "tramp_elr"}
        /\ pc' = [pc EXCEPT ![cur] = "tramp_elr"] /\ user_fp' = user_fp
        /\ UNCHANGED <<cur, frames, used, pending>>
    BY <1>4 DEF At, Goto, OfTramp
  <2>2. Levels' /\ pc'[cur'] = "tramp_elr"
    BY Zenon, <1>3, <2>1
  <2>3. TrapTypes'
    BY Zenon, <1>1, <1>4, <2>2 DEF Goto, TrapTypes, Points
  <2>4. Registers' /\ Resumes'
    BY <2>2 DEF Registers, Resumes, EretAt, Popped
  <2> QED
    BY <2>2, <2>3, <2>4 DEF TrapInv
<1>5. CASE /\ At("tramp_elr")
           /\ elr' = "user" /\ spsr' = FALSE
           /\ user_fp' = [user_fp EXCEPT ![cur] = fp]
           /\ Goto("tramp_eret")
           /\ UNCHANGED <<cur, masked, fp, frames, used, pending>>
  <2>0. /\ "tramp_eret" \in OfTramp /\ pc[cur] \in {"tramp", "tramp_elr"}
        /\ pc' = [pc EXCEPT ![cur] = "tramp_eret"] 
        /\ UNCHANGED <<cur, frames, used, pending>>
        /\ \A t \in Task : t # cur => user_fp'[t] = user_fp[t]
    BY <1>1, <1>5 DEF At, Goto, OfTramp, TrapTypes
  <2>1. Levels' /\ pc'[cur'] = "tramp_eret"
    BY Zenon, <1>3, <2>0
  <2>2. TrapTypes'
    BY Zenon, <1>1, <1>5, <2>1 DEF Goto, TrapTypes, Points, EretAt, Interruptible
  <2>3. Registers' /\ Resumes'
    BY <1>5, <2>1 DEF Registers, Resumes, EretAt, Popped, OfFork
  <2> QED
    BY <2>1, <2>2, <2>3 DEF TrapInv
<1> QED
  BY Zenon, <1>4, <1>5 DEF task_trampoline

\* The boot tasks are about to enter user code for the first time.
LEMMA InitTrapInv == TrapInit => TrapInv
<1> SUFFICES ASSUME TrapInit PROVE TrapInv
  OBVIOUS
<1> DEFINE first == <<<<"user", FALSE>>>>
<1>0. <<"user", FALSE>> \in PendingSet
  BY Zenon DEF PendingSet, Interruptible
<1>1. first \in Seq(PendingSet) /\ Len(first) = 1
  BY <1>0
<1>2. first[1] = <<"user", FALSE>>
  BY Zenon
<1>3. << >> \in Seq(FrameSet) /\ << >> \in Seq(PendingSet) /\ Len(<< >>) = 0
  OBVIOUS
<1> HIDE DEF first
<1>4. /\ cur \in Boot /\ pc = [t \in Task |-> IF t \in Boot THEN "tramp" ELSE "none"]
      /\ masked = TRUE /\ elr = "user" /\ spsr = FALSE /\ fp = Kernel
      /\ frames = [t \in Task |-> << >>] /\ used = [t \in Task |-> 0]
      /\ user_fp = [t \in Task |-> Kernel]
  BY DEF TrapInit
<1>5. pending = [t \in Task |-> IF t \in Boot THEN first ELSE << >>]
  BY DEF TrapInit, first
<1>6. pending \in [Task -> Seq(PendingSet)]
  BY <1>1, <1>3, <1>5
<1>7. TrapTypes
  BY Zenon, <1>3, <1>4, <1>6, TrapAssumption DEF TrapTypes, Points, Interruptible
<1>8. Nested("tramp", << >>, first)
  <2>1. PointAt("tramp", << >>, 0) = "tramp"
    BY DEF PointAt
  <2>2. \A i \in 0 .. Len(<< >>) : i = 0
    BY <1>3
  <2>3. 1 .. Len(<< >>) = {}
    BY <1>3
  <2>4. "tramp" \notin Framed /\ "tramp" \notin OfFork \cup {"svc"} /\ "tramp" \in OfTramp
    BY DEF Framed, OfIrq, OfFork, OfTramp
  <2>5. \A i \in 0 .. Len(<< >>) : PointAt("tramp", << >>, i) \in Framed <=> i < Len(<< >>)
    BY <1>3, <2>1, <2>2, <2>4
  <2>6. Len(<< >>) + 1 = 1 /\ Len(<< >>) = 0
    BY <1>3
  <2>7. \A i \in 0 .. Len(<< >>) : PointAt("tramp", << >>, i) \notin OfFork \cup {"svc"}
    BY <2>1, <2>2, <2>4
  <2>8. PointAt("tramp", << >>, Len(<< >>)) \in OfTramp
    BY <2>1, <2>4, <2>6
  <2>9. Len(first) = Len(<< >>) + 1
    BY <1>1, <2>6
  <2>10. first[Len(<< >>) + 1] = <<"user", FALSE>>
    BY <1>2, <2>6, Zenon
  <2> QED
    BY <1>1, <1>3, <2>3, <2>5, <2>7, <2>8, <2>9, <2>10, Zenon DEF Nested
<1>9. Levels
  <2> SUFFICES ASSUME NEW t \in Task
               PROVE  /\ Level(t, pc[t], frames[t], pending[t], used[t], user_fp[t])
                      /\ t # cur => pc[t] \in {"none", "svc", "irq", "fork_elr", "tramp"}
    BY DEF Levels
  <2>1. frames[t] = << >> /\ used[t] = 0 /\ user_fp[t] = Kernel
    BY <1>4
  <2>2. CASE t \in Boot
    <3>1. pc[t] = "tramp" /\ pending[t] = first
      BY <2>2, <1>4, <1>5
    <3> QED
      BY <1>3, <1>8, <2>1, <3>1 DEF Level, FRAME_SIZE, OfFork
  <2>3. CASE t \notin Boot
    <3>1. pc[t] = "none"
      BY <2>3, <1>4
    <3> QED
      BY <1>3, <2>1, <2>3, <3>1 DEF Level, FRAME_SIZE
  <2> QED
    BY <2>2, <2>3
<1>10. pc[cur] = "tramp"
  BY <1>4, TrapAssumption
<1>11. Registers /\ Resumes
  BY <1>10 DEF Registers, Resumes, EretAt, Popped
<1> QED
  BY <1>7, <1>9, <1>11 DEF TrapInv

LEMMA StepTrapInv ==
  ASSUME Windows \subseteq QuietAt, TrapInv, [TrapNext]_trapvars
  PROVE  TrapInv'
<1>1. TrapTypes /\ pc[cur] \in Points
  BY DEF TrapInv, TrapTypes
<1>2. CASE IRQ
  <2>1. pc[cur] \in Interruptible
    BY <1>1, <1>2 DEF IRQ, Windows, Points, EretAt, Interruptible
  <2> QED
    BY Zenon, <1>2, <2>1, EnterKeeps DEF IRQ
<1>3. CASE SVC
  <2>1. pc[cur] = "user" /\ "user" \in Interruptible
    BY <1>3 DEF SVC, At, Interruptible
  <2> QED
    BY Zenon, <1>3, <2>1, EnterKeeps DEF SVC
<1>4. CASE Compute
  BY <1>4, ComputeKeeps
<1>5. CASE HandlerDone
  BY <1>5, HandlerDoneKeeps
<1>6. CASE Eret
  BY <1>6, EretKeeps
<1>7. CASE \E n \in Task : context_switch(n) \/ sched_fork(n)
  BY <1>7, SwitchKeeps, ForkKeeps
<1>8. CASE exception_return
  BY Zenon, <1>8, LoadElrKeeps, LoadSpsrKeeps, LoadRegsKeeps DEF exception_return
<1>9. CASE fork_return
  BY Zenon, <1>9, LoadElrKeeps, LoadSpsrKeeps, LoadRegsKeeps DEF fork_return
<1>10. CASE task_trampoline
  BY <1>10, TrampolineKeeps
<1>11. CASE UNCHANGED trapvars
  BY <1>11 DEF trapvars, TrapInv, TrapTypes, Levels, Level, Registers, Resumes, Frame
<1> QED
  BY <1>2, <1>3, <1>4, <1>5, <1>6, <1>7, <1>8, <1>9, <1>10, <1>11 DEF TrapNext

\* What the invariant says of the properties.
LEMMA InvResumes == TrapInv => EretResumes
<1> SUFFICES ASSUME TrapInv, pc[cur] \in EretAt PROVE <<elr, spsr>> = Head(pending[cur])
  BY DEF EretResumes
<1>1. CASE pc[cur] \in Popped
  BY <1>1 DEF TrapInv, Resumes
<1>2. CASE pc[cur] = "tramp_eret"
  <2>1. elr = "user" /\ spsr = FALSE
    BY <1>2 DEF TrapInv, Registers
  <2>2. Nested("tramp_eret", frames[cur], pending[cur])
    BY Zenon, <1>2 DEF TrapInv, TrapTypes, Levels, Level, Popped
  <2>3. Head(pending[cur]) = <<"user", FALSE>>
    BY Zenon, <2>2, TrampOwes DEF OfTramp
  <2> QED
    BY <2>1, <2>3, Zenon
<1> QED
  BY <1>1, <1>2 DEF Popped, EretAt

LEMMA InvRestores == TrapInv => StateRestored
<1> SUFFICES ASSUME TrapInv PROVE StateRestored
  OBVIOUS
<1>1. TrapTypes /\ Levels /\ Registers /\ Resumes
  BY DEF TrapInv
<1>2. TrapTypeOK
  <2>1. Interruptible \subseteq Points
    BY DEF Interruptible, Points
  <2>2. ASSUME NEW t \in Task, NEW f \in {frames[t][i] : i \in DOMAIN frames[t]}
        PROVE  f.elr \in Points /\ f.spsr \in BOOLEAN
    <3>1. frames[t] \in Seq(FrameSet)
      BY <1>1 DEF TrapTypes
    <3>2. f \in FrameSet
      BY <3>1, <2>2
    <3> QED
      BY <2>1, <3>2 DEF FrameSet
  <2> QED
    BY <1>1, <2>1, <2>2 DEF TrapTypeOK, TrapTypes
<1>3. FpPreserved
  <2> SUFFICES ASSUME pc[cur] = "eret", Len(pending[cur]) = 1 PROVE fp = user_fp[cur]
    BY DEF FpPreserved
  <2> DEFINE qs == Tail(pending[cur])
  <2>1. pending[cur] # << >> /\ Nested(elr, frames[cur], qs)
    BY <1>1 DEF Resumes, Popped
  <2>2. pending[cur] \in Seq(PendingSet)
    BY <1>1 DEF TrapTypes
  <2>3. Len(qs) = 0
    BY <2>1, <2>2, HeadTailProperties
  <2> HIDE DEF qs
  <2>4. Len(frames[cur]) \in Nat
    BY <2>1 DEF Nested
  <2>5. Len(qs) # Len(frames[cur]) + 1
    BY <2>3, <2>4
  <2>6. Len(qs) = Len(frames[cur]) /\ PointAt(elr, frames[cur], Len(frames[cur])) = "user"
    BY <2>1, <2>5, Zenon DEF Nested
  <2>7. elr = "user"
    BY <2>3, <2>6 DEF PointAt
  <2> QED
    BY <1>1, <2>7 DEF Registers
<1>4. StackEmptyInUser
  <2> SUFFICES ASSUME NEW t \in Boot, pc[t] = "user" PROVE used[t] = 0
    BY DEF StackEmptyInUser
  <2>1. t \in Task
    BY TrapAssumption
  <2>2. Nested("user", frames[t], pending[t]) /\ used[t] = FRAME_SIZE * Len(frames[t])
    BY <1>1, <2>1 DEF Levels, Level, Popped
  <2>3. "user" \notin Framed
    BY DEF Framed, OfIrq, OfFork
  <2>4. Len(frames[t]) = 0
    BY <2>2, <2>3, OutermostLen
  <2> QED
    BY <2>2, <2>4 DEF FRAME_SIZE
<1> QED
  BY <1>2, <1>3, <1>4 DEF StateRestored

\* exception_common, fork_return, task_trampoline: for any number of tasks and any depth of
\* nesting, an eret resumes the point its exception interrupted, with the mask it had, if
\* no IRQ is taken between the write of ELR_EL1 and the eret.
THEOREM ReturnsResume ==
  ASSUME Windows \subseteq QuietAt
  PROVE  TrapSpec => []EretResumes
<1>1. TrapInit => TrapInv
  BY InitTrapInv
<1>2. TrapInv /\ [TrapNext]_trapvars => TrapInv'
  BY StepTrapInv
<1>3. TrapInv => EretResumes
  BY InvResumes
<1> QED
  BY <1>1, <1>2, <1>3, PTL DEF TrapSpec

\* vector.S: under the same condition a task gets its FP registers back on return to user
\* code, a boot task has an empty kernel stack there, and every saved ELR names a point of
\* the code.
THEOREM ReturnsRestore ==
  ASSUME Windows \subseteq QuietAt
  PROVE  TrapSpec => []StateRestored
<1>1. TrapInit => TrapInv
  BY InitTrapInv
<1>2. TrapInv /\ [TrapNext]_trapvars => TrapInv'
  BY StepTrapInv
<1>3. TrapInv => StateRestored
  BY InvRestores
<1> QED
  BY <1>1, <1>2, <1>3, PTL DEF TrapSpec

===========================================================================
