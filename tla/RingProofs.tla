----------------------------- MODULE RingProofs -----------------------------
(***************************************************************************)
(* The run queue of Sched is one cycle, for any number of tasks.           *)
(*                                                                         *)
(* Hop() is defined by recursion on the number of links.  The facts about  *)
(* it are shown by taking the least number of links for which they fail.   *)
(***************************************************************************)
EXTENDS SchedProofs, FiniteSetTheorems, WellFoundedInduction

\* A set of naturals that is not empty has a least element.
LEMMA LeastNat ==
  ASSUME NEW T \in SUBSET Nat, T # {}
  PROVE  \E n \in T : \A m \in T : n <= m
<1>1. PICK n \in T : \A m \in T : ~(<<m, n>> \in OpToRel(<, Nat))
  BY Zenon, WFMin, NatLessThanWellFounded
<1>2. ASSUME NEW m \in T PROVE n <= m
  <2>1. m \in Nat /\ n \in Nat
    OBVIOUS
  <2>2. ~(m < n)
    BY Zenon, <1>1, <2>1 DEF OpToRel
  <2>3. QED BY <2>1, <2>2
<1>3. QED BY <1>2

----------------------------------------------------------------------------
(* Walking the links.                                                      *)

Top == MaxPid + 1

\* h takes up to n links from t.
Walk(h, t, n) == h = [k \in 0..n |-> IF k = 0 THEN t ELSE next[h[k-1]]]

LEMMA WalkExists == ASSUME NEW t PROVE \A n \in Nat : \E h : Walk(h, t, n)
<1> DEFINE T == {n \in Nat : ~\E h : Walk(h, t, n)}
<1> SUFFICES ASSUME T # {} PROVE FALSE
  OBVIOUS
<1>1. PICK n \in T : \A m \in T : n <= m
  BY Zenon, LeastNat
<1>2. CASE n = 0
  <2>1. Walk([k \in 0..0 |-> t], t, 0)
    BY DEF Walk
  <2>2. QED BY <1>2, <2>1
<1>3. CASE n # 0
  <2>1. n \in Nat /\ n - 1 \in Nat /\ ~(n <= n - 1)
    BY <1>3
  <2>2. n - 1 \notin T
    BY <1>1, <2>1
  <2>3. PICK h : Walk(h, t, n - 1)
    BY <2>1, <2>2
  <2> DEFINE g == [k \in 0..n |-> IF k = n THEN next[h[n-1]] ELSE h[k]]
  <2>4. \A k \in 0..n-1 : h[k] = IF k = 0 THEN t ELSE next[h[k-1]]
    BY <2>3 DEF Walk
  <2>5. \A k \in 0..n : g[k] = IF k = 0 THEN t ELSE next[g[k-1]]
    BY <2>1, <2>4
  <2>6. Walk(g, t, n)
    BY SMTT(60), <2>5 DEF Walk
  <2>7. QED BY <2>6
<1>4. QED BY <1>2, <1>3

LEMMA HopWalks == ASSUME NEW t PROVE Walk(Hop(t), t, Top)
<1>1. Top \in Nat
  BY SchedAssumption DEF Top
<1>2. \E h : Walk(h, t, Top)
  BY <1>1, WalkExists
<1>3. QED BY Zenon, <1>2 DEF Hop, Walk, Top

LEMMA HopStep ==
  ASSUME NEW t
  PROVE  /\ Hop(t)[0] = t
         /\ \A k \in 0..MaxPid : Hop(t)[k+1] = next[Hop(t)[k]]
<1>1. Hop(t) = [k \in 0..Top |-> IF k = 0 THEN t ELSE next[Hop(t)[k-1]]]
  BY HopWalks DEF Walk
<1>2. \A k \in 0..Top : Hop(t)[k] = IF k = 0 THEN t ELSE next[Hop(t)[k-1]]
  BY Zenon, <1>1
<1>3. 0 \in 0..Top /\ \A k \in 0..MaxPid : k + 1 \in 0..Top /\ k + 1 # 0 /\ (k + 1) - 1 = k
  BY SchedAssumption DEF Top
<1>4. QED BY <1>2, <1>3

\* The walk stays on the queue.
LEMMA HopStays ==
  ASSUME RingType, NEW t \in DOMAIN next
  PROVE  \A k \in 0..Top : Hop(t)[k] \in DOMAIN next
<1> DEFINE T == {k \in 0..Top : Hop(t)[k] \notin DOMAIN next}
<1> SUFFICES ASSUME T # {} PROVE FALSE
  OBVIOUS
<1>1. T \in SUBSET Nat
  BY SchedAssumption DEF Top
<1>2. PICK n \in T : \A m \in T : n <= m
  BY Zenon, <1>1, LeastNat
<1>3. n # 0
  BY HopStep
<1>4. n - 1 \in 0..MaxPid /\ n - 1 \in 0..Top /\ ~(n <= n - 1) /\ (n - 1) + 1 = n
  BY <1>3, SchedAssumption DEF Top
<1>5. Hop(t)[n-1] \in DOMAIN next
  BY <1>2, <1>4
<1>6. Hop(t)[n] = next[Hop(t)[n-1]]
  BY <1>4, HopStep
<1>7. QED BY <1>5, <1>6 DEF RingType

----------------------------------------------------------------------------
(* The links are one cycle: no part of the queue is closed under them.     *)

Closed(S, f) == S # {} /\ \A p \in S : f[p] \in S

OneCycle == \A S \in SUBSET DOMAIN next : Closed(S, next) => S = DOMAIN next

\* Every task on the queue is the successor of one.
LEMMA HasPredecessor ==
  ASSUME RingType, OneCycle, NEW t \in DOMAIN next
  PROVE  \E p \in DOMAIN next : next[p] = t
<1> DEFINE S == {next[p] : p \in DOMAIN next}
<1>1. S \in SUBSET DOMAIN next
  BY DEF RingType
<1>2. Closed(S, next)
  BY <1>1 DEF Closed
<1>3. QED BY <1>1, <1>2 DEF OneCycle

LEMMA LinkedOneCycle ==
  ASSUME RingType, OneCycle, current \in DOMAIN next, NEW t \in Pid, t \notin DOMAIN next,
         next' = Linked(t)
  PROVE  OneCycle'
<1>1. /\ DOMAIN next' = DOMAIN next \cup {t}
      /\ next'[t] = current
      /\ \A p \in DOMAIN next : next'[p] = IF next[p] = current THEN t ELSE next[p]
  BY DEF Linked
<1> SUFFICES ASSUME NEW S \in SUBSET DOMAIN next', Closed(S, next')
             PROVE  S = DOMAIN next'
  BY DEF OneCycle
<1>2. S \ {t} \in SUBSET DOMAIN next
  BY <1>1
<1>3. \A p \in S \ {t} : next[p] \in S \ {t}
  <2> SUFFICES ASSUME NEW p \in S, p # t PROVE next[p] \in S \ {t}
    OBVIOUS
  <2>1. p \in DOMAIN next /\ next[p] \in DOMAIN next
    BY <1>1 DEF RingType
  <2>2. CASE next[p] = current
    BY <1>1, <2>1, <2>2 DEF Closed
  <2>3. CASE next[p] # current
    BY <1>1, <2>1, <2>3 DEF Closed
  <2>4. QED BY <2>2, <2>3
<1>4. S \ {t} # {}
  BY <1>1 DEF Closed
<1>5. S \ {t} = DOMAIN next
  BY Zenon, <1>2, <1>3, <1>4 DEF OneCycle, Closed
<1>6. PICK p \in DOMAIN next : next[p] = current
  BY HasPredecessor
<1>7. t \in S
  BY <1>1, <1>5, <1>6 DEF Closed
<1>8. QED BY <1>1, <1>5, <1>7

LEMMA UnlinkedOneCycle ==
  ASSUME RingType, OneCycle, NEW t \in DOMAIN next, next' = Unlinked(t)
  PROVE  OneCycle'
<1>1. /\ DOMAIN next' = DOMAIN next \ {t}
      /\ \A p \in DOMAIN next' : next'[p] = IF next[p] = t THEN next[t] ELSE next[p]
  BY DEF Unlinked
<1> SUFFICES ASSUME NEW S \in SUBSET DOMAIN next', Closed(S, next')
             PROVE  S = DOMAIN next'
  BY DEF OneCycle
<1>2. CASE \E p \in S : next[p] = t
  <2>1. next[t] \in S
    BY <1>1, <1>2 DEF Closed
  <2>2. \A p \in S \cup {t} : next[p] \in S \cup {t}
    BY <1>1, <2>1 DEF Closed
  <2>3. S \cup {t} = DOMAIN next
    BY <1>1, <2>2 DEF OneCycle, Closed
  <2>4. QED BY <1>1, <2>3
<1>3. CASE ~\E p \in S : next[p] = t
  <2>1. \A p \in S : next[p] \in S
    BY <1>1, <1>3 DEF Closed
  <2>2. S = DOMAIN next
    BY <1>1, <2>1 DEF OneCycle, Closed
  <2>3. QED BY <1>1, <2>2
<1>4. QED BY <1>2, <1>3

LEMMA InitOneCycle == Init => OneCycle
<1> SUFFICES ASSUME Init, NEW S \in SUBSET DOMAIN next, Closed(S, next)
             PROVE  S = DOMAIN next
  BY DEF OneCycle
<1> DEFINE N == NUser + NKernel
<1>1. N \in Nat /\ DOMAIN next = 0..N /\ \A p \in 0..N : next[p] = IF p = N THEN 0 ELSE p + 1
  BY SchedAssumption DEF Init, Boot, Idle
<1> HIDE DEF N
<1>2. ASSUME NEW a \in 0..N, a \in S PROVE \A p \in a..N : p \in S
  <2> DEFINE T == {p \in a..N : p \notin S}
  <2> SUFFICES ASSUME T # {} PROVE FALSE
    OBVIOUS
  <2>1. T \in SUBSET Nat
    BY <1>1
  <2>2. PICK n \in T : \A m \in T : n <= m
    BY Zenon, <2>1, LeastNat
  <2>3. n # a /\ n - 1 \in a..N /\ n - 1 \in 0..N /\ ~(n <= n - 1) /\ n - 1 # N /\ (n - 1) + 1 = n
    BY <1>1, <1>2
  <2>4. n - 1 \in S
    BY <2>2, <2>3
  <2>5. QED BY <1>1, <2>2, <2>3, <2>4 DEF Closed
<1>3. PICK a \in 0..N : a \in S
  BY <1>1 DEF Closed
<1>4. N \in S
  BY <1>1, <1>2, <1>3
<1>5. 0 \in S /\ 0 \in 0..N
  BY <1>1, <1>4 DEF Closed
<1>6. QED BY Zenon, <1>1, <1>2, <1>5

\* Where next changes: fork links a task in, a death unlinks one.
LEMMA StepOneCycle == IInv /\ OneCycle /\ [Next]_vars => OneCycle'
<1> SUFFICES ASSUME IInv, OneCycle, [Next]_vars PROVE OneCycle'
  OBVIOUS
<1>0. RingType /\ current \in DOMAIN next
  BY DEF IInv, Core, CurrentRuns
<1>1. ASSUME next' = next PROVE OneCycle'
  BY <1>1 DEF OneCycle
<1>2. ASSUME NEW st, NEW how, NEW m, schedule(st, how, m) PROVE OneCycle'
  <2>1. next' = next \/ next' = Unlinked(current)
    BY <1>2 DEF schedule, SwitchTo, NoSwitch
  <2>2. QED BY <1>0, <1>1, <2>1, UnlinkedOneCycle
<1>3. CASE TimerIRQ \/ Yield \/ WaitYields
  BY Zenon, <1>2, <1>3 DEF TimerIRQ, Yield, WaitYields
<1>4. ASSUME NEW ms, sleep_ms(ms) PROVE OneCycle'
  BY <1>2, <1>4 DEF sleep_ms
<1>5. ASSUME NEW code, NEW why, task_exit(code, why) PROVE OneCycle'
  BY <1>2, <1>5 DEF task_exit
<1>6. ASSUME NEW pid \in Pid, KillOther(pid) PROVE OneCycle'
  BY <1>0, <1>6, UnlinkedOneCycle DEF KillOther
<1>7. CASE Fork
  <2>1. next_pid \in Pid /\ next_pid >= next_pid
    BY <1>7, SchedAssumption DEF Fork, IInv, Fields, Pid
  <2>2. state[next_pid] = "NONE"
    BY <2>1 DEF IInv, Unused
  <2>3. next_pid \notin DOMAIN next
    BY <2>2 DEF IInv, Core, ListsMatchStates, Live
  <2>4. QED BY <1>0, <1>7, <2>1, <2>3, LinkedOneCycle DEF Fork
<1>8. CASE \/ ForkFails \/ WaitCollects \/ WaitEchild \/ WaitNohang \/ UNCHANGED vars
           \/ \E pid \in Pid : KillRefused(pid)
           \/ \E a \in PidArgs, b \in BOOLEAN : Waitpid(a, b)
  <2>1. next' = next
    BY ZenonT(60), <1>8 DEF ForkFails, WaitCollects, WaitEchild, WaitNohang, WaitReturns, KillRefused, Waitpid, vars
  <2>2. QED BY SMTT(60), <1>1, <2>1
<1>9. QED
  BY <1>3, <1>4, <1>5, <1>6, <1>7, <1>8
     DEF Next, Faultless, Syscall, KernelSleeps, sched_waitpid, Exit, Fault, KillSelf

\* There are more links in a walk than tasks, so the walk meets some task twice,
\* and what lies between the two visits is closed under next.
LEMMA WalkVisitsAll ==
  ASSUME RingType, OneCycle, NEW t \in DOMAIN next
  PROVE  DOMAIN next = {Hop(t)[k] : k \in 0..Top}
<1> DEFINE h == Hop(t)
<1>0. MaxPid \in Nat /\ Top = MaxPid + 1 /\ Top \in Nat
  BY SchedAssumption DEF Top
<1>1. \A k \in 0..Top : h[k] \in DOMAIN next
  BY HopStays
<1>2. \A k \in 0..MaxPid : h[k+1] = next[h[k]]
  BY HopStep
<1> HIDE DEF h
<1>3. PICK i, j \in 0..Top : i < j /\ h[i] = h[j]
  <2> DEFINE f == [k \in 0..Top |-> h[k]]
  <2>1. f \in [0..Top -> 0..MaxPid]
    BY <1>1 DEF RingType, Pid
  <2>2. IsFiniteSet(0..Top) /\ Cardinality(0..Top) = Top + 1
    BY <1>0, FS_Interval
  <2>3. IsFiniteSet(0..MaxPid) /\ Cardinality(0..MaxPid) = MaxPid + 1
    BY <1>0, FS_Interval
  <2>4. Cardinality(0..MaxPid) < Cardinality(0..Top)
    BY <1>0, <2>2, <2>3
  <2> HIDE DEF f
  <2>5. PICK x, y \in 0..Top : x # y /\ f[x] = f[y]
    BY Zenon, <2>1, <2>2, <2>3, <2>4, FS_PigeonHole
  <2>6. x < y \/ y < x
    BY <2>5
  <2>7. QED BY <2>5, <2>6 DEF f
<1> DEFINE C == {h[k] : k \in i..j-1}
<1>4. \A k \in i..j-1 : k \in 0..MaxPid /\ k \in 0..Top
  BY <1>0, <1>3
<1>5. C \in SUBSET DOMAIN next
  BY <1>1, <1>4
<1>6. ASSUME NEW p \in C PROVE next[p] \in C
  <2>1. PICK k \in i..j-1 : p = h[k]
    OBVIOUS
  <2>2. next[p] = h[k+1]
    BY <1>2, <1>4, <2>1
  <2>3. k + 1 \in i..j-1 \/ k + 1 = j
    BY <1>0, <1>3
  <2>4. i \in i..j-1
    BY <1>0, <1>3
  <2>5. QED BY <1>3, <2>2, <2>3, <2>4
<1>7. C # {}
  <2>1. i \in i..j-1
    BY <1>0, <1>3
  <2>2. QED BY <2>1
<1>8. C = DOMAIN next
  BY <1>5, <1>6, <1>7 DEF OneCycle, Closed
<1>9. C \subseteq {h[k] : k \in 0..Top}
  BY <1>4
<1>10. {h[k] : k \in 0..Top} \subseteq DOMAIN next
  BY <1>1
<1>11. QED BY <1>8, <1>9, <1>10 DEF h

LEMMA RingInvariance == Spec => [](IInv /\ OneCycle)
<1>1. IInv /\ OneCycle /\ [Next]_vars => IInv' /\ OneCycle'
  BY NextIInv, StepOneCycle
<1>2. QED BY <1>1, InitIInv, InitOneCycle, PTL DEF Spec

\* Whatever is forked, killed or reaped, a walk of the run queue that starts at
\* idle sees every live task and comes back, for any number of tasks.
THEOREM QueueIsOneCycle == Spec => []RingIsOneCycle
<1>1. IInv /\ OneCycle => RingIsOneCycle
  <2> SUFFICES ASSUME IInv, OneCycle PROVE RingIsOneCycle
    OBVIOUS
  <2>1. RingType /\ Idle \in DOMAIN next
    BY SchedAssumption DEF IInv, Core, ListsMatchStates, CurrentRuns, Live, Idle, Pid
  <2>2. QED BY ZenonT(60), <2>1, WalkVisitsAll DEF RingIsOneCycle, Top
<1>2. QED BY <1>1, RingInvariance, PTL

----------------------------------------------------------------------------
(* Round robin.  h is the track from c to p along the links f: d links,    *)
(* and p only at its end.                                                  *)

Track(h, f, c, p, d) ==
  /\ d \in Nat
  /\ \A k \in 0..d : h[k] \in DOMAIN f
  /\ h[0] = c /\ h[d] = p
  /\ \A k \in 0..d-1 : h[k] # p /\ h[k+1] = f[h[k]]

Away(f, c, p, d) == \E h : Track(h, f, c, p, d)

LEMMA TracksAgree ==
  ASSUME NEW f, NEW c, NEW p, NEW d, NEW e, NEW g, NEW h,
         Track(g, f, c, p, d), Track(h, f, c, p, e), d < e
  PROVE  FALSE
<1>1. d \in Nat /\ e \in Nat
  BY DEF Track
<1> DEFINE T == {k \in 0..d : g[k] # h[k]}
<1>2. T = {}
  <2> SUFFICES ASSUME T # {} PROVE FALSE
    OBVIOUS
  <2>1. T \in SUBSET Nat
    BY <1>1
  <2>2. PICK n \in T : \A m \in T : n <= m
    BY Zenon, <2>1, LeastNat
  <2>3. n # 0
    BY <2>2 DEF Track
  <2>4. /\ n - 1 \in 0..d /\ n - 1 \in 0..d-1 /\ n - 1 \in 0..e-1
        /\ ~(n <= n - 1) /\ (n - 1) + 1 = n
    BY <1>1, <2>3
  <2>5. g[n-1] = h[n-1]
    BY <2>2, <2>4
  <2>6. g[n] = f[g[n-1]] /\ h[n] = f[h[n-1]]
    BY <2>4 DEF Track
  <2>7. QED BY <2>2, <2>5, <2>6
<1>3. d \in 0..d /\ d \in 0..e-1
  BY <1>1
<1>4. g[d] = h[d]
  BY <1>2, <1>3
<1>5. QED BY <1>3, <1>4 DEF Track

LEMMA AwayUnique ==
  ASSUME NEW f, NEW c, NEW p, NEW d, NEW e, Away(f, c, p, d), Away(f, c, p, e)
  PROVE  d = e
<1>1. PICK g : Track(g, f, c, p, d)
  BY DEF Away
<1>2. PICK h : Track(h, f, c, p, e)
  BY DEF Away
<1>3. ~(d < e) /\ ~(e < d)
  BY <1>1, <1>2, TracksAgree
<1>4. d \in Nat /\ e \in Nat
  BY <1>1, <1>2 DEF Track
<1>5. QED BY <1>3, <1>4

\* A track visits no task twice: else the tasks in between would be a cycle
\* without p.
LEMMA TrackSimple ==
  ASSUME RingType, OneCycle, NEW c, NEW p \in DOMAIN next, NEW d, NEW h,
         Track(h, next, c, p, d), NEW i \in 0..d, NEW j \in 0..d, i < j
  PROVE  h[i] # h[j]
<1> SUFFICES ASSUME h[i] = h[j] PROVE FALSE
  OBVIOUS
<1>0. d \in Nat
  BY DEF Track
<1>1. i \in 0..d-1 /\ h[i] # p
  BY <1>0 DEF Track
<1>2. j # d
  BY <1>1 DEF Track
<1>3. \A k \in i..j-1 : k \in 0..d-1 /\ k \in 0..d
  BY <1>0, <1>2
<1> DEFINE C == {h[k] : k \in i..j-1}
<1>4. C \in SUBSET DOMAIN next /\ p \notin C
  BY <1>3 DEF Track
<1>5. i \in i..j-1
  BY <1>0
<1>6. ASSUME NEW q \in C PROVE next[q] \in C
  <2>1. PICK k \in i..j-1 : q = h[k]
    OBVIOUS
  <2>2. next[q] = h[k+1]
    BY <1>3, <2>1 DEF Track
  <2>3. k + 1 \in i..j-1 \/ k + 1 = j
    BY <1>0
  <2>4. QED BY <1>5, <2>2, <2>3
<1>7. C # {}
  BY <1>5
<1> HIDE DEF C
<1>8. C = DOMAIN next
  BY <1>4, <1>6, <1>7 DEF OneCycle, Closed
<1>9. QED BY <1>4, <1>8

\* Distance(p) is the length of the track from current to p.
DistanceIsAway == \A p \in DOMAIN next : Track(Hop(current), next, current, p, Distance(p))

LEMMA DistanceOK == IInv /\ OneCycle => DistanceIsAway
<1> SUFFICES ASSUME IInv, OneCycle, NEW p \in DOMAIN next
             PROVE  Track(Hop(current), next, current, p, Distance(p))
  BY DEF DistanceIsAway
<1> DEFINE h == Hop(current)
           K == {k \in 0..Top : h[k] = p}
<1>0. RingType /\ current \in DOMAIN next /\ MaxPid \in Nat /\ Top = MaxPid + 1
  BY SchedAssumption DEF IInv, Core, CurrentRuns, Top
<1>1. K # {}
  <2>1. DOMAIN next = {h[k] : k \in 0..Top}
    BY Zenon, <1>0, WalkVisitsAll
  <2>2. PICK k \in 0..Top : h[k] = p
    BY <2>1
  <2>3. QED BY <2>2
<1>2. K \in SUBSET Nat
  BY <1>0
<1>3. PICK n \in K : \A m \in K : n <= m
  BY Zenon, <1>1, <1>2, LeastNat
<1>4. \A j \in 0..n-1 : h[j] # p
  <2> SUFFICES ASSUME NEW j \in 0..n-1, h[j] = p PROVE FALSE
    OBVIOUS
  <2>1. j \in K /\ ~(n <= j)
    BY <1>0
  <2>2. QED BY <1>3, <2>1
<1>5. n \in 0..MaxPid+1 /\ Hop(current)[n] = p /\ \A j \in 0..n-1 : Hop(current)[j] # p
  BY <1>0, <1>4
<1>6. /\ Distance(p) \in 0..MaxPid+1 /\ Hop(current)[Distance(p)] = p
      /\ \A j \in 0..Distance(p)-1 : Hop(current)[j] # p
  BY <1>5 DEF Distance
<1> DEFINE d == Distance(p)
<1> HIDE DEF d
<1>7. d \in 0..MaxPid+1 /\ h[d] = p /\ \A j \in 0..d-1 : h[j] # p
  BY <1>6 DEF d
<1>8. \A k \in 0..d : h[k] \in DOMAIN next
  BY <1>0, <1>7, HopStays
<1>9. h[0] = current /\ \A k \in 0..d-1 : h[k+1] = next[h[k]]
  BY <1>0, <1>7, HopStep
<1>10. Track(h, next, current, p, d)
  BY <1>0, <1>7, <1>8, <1>9 DEF Track
<1>11. QED BY <1>10 DEF d

\* A task linked in before current comes after everybody else.
LEMMA LinkedAway ==
  ASSUME RingType, OneCycle, NEW t, t \notin DOMAIN next, next' = Linked(t),
         NEW p \in DOMAIN next, p # current, NEW d, Away(next, current, p, d)
  PROVE  Away(next', current, p, d)
<1>1. PICK h : Track(h, next, current, p, d)
  BY DEF Away
<1>2. d \in Nat
  BY <1>1 DEF Track
<1>3. DOMAIN next \subseteq DOMAIN next'
      /\ \A q \in DOMAIN next : next[q] # current => next'[q] = next[q]
  BY DEF Linked
<1>4. ASSUME NEW k \in 0..d-1 PROVE h[k+1] = next'[h[k]]
  <2>1. k \in 0..d /\ k + 1 \in 0..d /\ 0 \in 0..d /\ 0 < k + 1
    BY <1>2
  <2>2. h[0] # h[k+1]
    BY <1>1, <2>1, TrackSimple
  <2>3. next[h[k]] = h[k+1] /\ h[k] \in DOMAIN next /\ h[0] = current
    BY <1>1, <2>1 DEF Track
  <2>4. QED BY <1>3, <2>2, <2>3
<1>5. Track(h, next', current, p, d)
  BY <1>1, <1>3, <1>4 DEF Track
<1>6. QED BY <1>5 DEF Away

\* Unlinking a task other than current and p brings p nearer, or leaves it where it is.
LEMMA UnlinkedAway ==
  ASSUME RingType, OneCycle, NEW q \in DOMAIN next, next' = Unlinked(q), q # current,
         NEW p \in DOMAIN next, p # q, NEW d, Away(next, current, p, d)
  PROVE  Away(next', current, p, d) \/ Away(next', current, p, d - 1)
<1>1. PICK h : Track(h, next, current, p, d)
  BY DEF Away
<1>2. d \in Nat
  BY <1>1 DEF Track
<1>3. /\ DOMAIN next' = DOMAIN next \ {q}
      /\ \A r \in DOMAIN next \ {q} : next'[r] = IF next[r] = q THEN next[q] ELSE next[r]
  BY DEF Unlinked
<1>4. /\ h[0] = current /\ h[d] = p
      /\ \A k \in 0..d : h[k] \in DOMAIN next
      /\ \A k \in 0..d-1 : h[k] # p /\ h[k+1] = next[h[k]]
  BY <1>1 DEF Track
<1>5. CASE \A k \in 0..d : h[k] # q
  <2>1. \A k \in 0..d : h[k] \in DOMAIN next'
    BY <1>3, <1>4, <1>5
  <2>2. ASSUME NEW k \in 0..d-1 PROVE h[k+1] = next'[h[k]]
    <3>1. k \in 0..d /\ k + 1 \in 0..d
      BY <1>2
    <3>2. QED BY <1>3, <1>4, <1>5, <3>1
  <2>3. Track(h, next', current, p, d)
    BY <1>2, <1>4, <2>1, <2>2 DEF Track
  <2>4. QED BY <2>3 DEF Away
<1>6. ASSUME NEW i \in 0..d, h[i] = q PROVE Away(next', current, p, d - 1)
  <2>1. i # 0 /\ i # d
    BY <1>4, <1>6
  <2>2. d - 1 \in Nat /\ i \in 0..d-1 /\ i - 1 \in 0..d-1 /\ (i - 1) + 1 = i
    BY <1>2, <2>1
  <2>3. ASSUME NEW k \in 0..d, k # i PROVE h[k] # q
    <3>1. k < i \/ i < k
      BY <1>2, <2>3
    <3>2. QED BY Zenon, <1>1, <1>6, <3>1, TrackSimple
  <2> DEFINE g == [k \in 0..d-1 |-> IF k < i THEN h[k] ELSE h[k+1]]
  <2>4. ASSUME NEW k \in 0..d-1 PROVE g[k] \in DOMAIN next'
    <3>1. k \in 0..d /\ k + 1 \in 0..d /\ (k < i => k # i) /\ (~(k < i) => k + 1 # i)
      BY <1>2, <2>2
    <3>2. QED BY <1>3, <1>4, <2>3, <3>1
  <2>5. g[0] = current /\ g[d-1] = p
    <3>1. 0 \in 0..d-1 /\ 0 < i /\ d - 1 \in 0..d-1 /\ ~(d - 1 < i) /\ (d - 1) + 1 = d
      BY <1>2, <2>1, <2>2
    <3>2. QED BY <1>4, <3>1
  <2>6. ASSUME NEW k \in 0..(d-1)-1 PROVE g[k] # p /\ g[k+1] = next'[g[k]]
    <3>0. /\ k \in 0..d-1 /\ k + 1 \in 0..d-1 /\ k \in 0..d /\ k + 1 \in 0..d
          /\ (k + 1) + 1 \in 0..d
      BY <1>2, <2>2
    <3>1. CASE k + 1 < i
      <4>1. k < i /\ k + 1 # i /\ k # i
        BY <2>2, <3>0, <3>1
      <4>2. g[k] = h[k] /\ g[k+1] = h[k+1]
        BY <3>0, <3>1, <4>1
      <4>3. next[h[k]] = h[k+1] /\ h[k+1] # q /\ h[k] # q /\ h[k] \in DOMAIN next /\ h[k] # p
        BY <1>4, <2>3, <3>0, <4>1
      <4>4. QED BY <1>3, <4>2, <4>3
    <3>2. CASE k + 1 = i
      <4>1. k < i /\ ~(k + 1 < i) /\ k # i
        BY <2>2, <3>0, <3>2
      <4>2. g[k] = h[k] /\ g[k+1] = h[i+1]
        BY <3>0, <3>2, <4>1
      <4>3. next[h[k]] = q /\ h[k] # q /\ h[k] \in DOMAIN next /\ h[k] # p /\ h[i+1] = next[q]
        BY SMTT(60), <1>4, <1>6, <2>2, <2>3, <3>0, <3>2, <4>1
      <4>4. QED BY <1>3, <4>2, <4>3
    <3>3. CASE i < k + 1
      <4>1. ~(k < i) /\ ~(k + 1 < i) /\ k + 1 # i /\ (k + 1) + 1 # i
        BY <2>2, <3>0, <3>3
      <4>2. g[k] = h[k+1] /\ g[k+1] = h[(k+1)+1]
        BY <3>0, <4>1
      <4>3. /\ next[h[k+1]] = h[(k+1)+1] /\ h[(k+1)+1] # q /\ h[k+1] # q
            /\ h[k+1] \in DOMAIN next /\ h[k+1] # p
        BY <1>4, <2>3, <3>0, <4>1
      <4>4. QED BY <1>3, <4>2, <4>3
    <3>4. QED BY <1>2, <2>2, <3>1, <3>2, <3>3
  <2> HIDE DEF g
  <2>7. Track(g, next', current, p, d - 1)
    BY <2>2, <2>4, <2>5, <2>6 DEF Track
  <2>8. QED BY <2>7 DEF Away
<1>7. QED BY <1>5, <1>6

\* A switch to a task on the way brings p nearer by the links it skips, and the
\* death of the task that leaves the CPU changes nothing on the rest of the way.
LEMMA SwitchAway ==
  ASSUME RingType, OneCycle, next' = next \/ next' = Unlinked(current),
         NEW p \in DOMAIN next, NEW d, NEW h, Track(h, next, current, p, d),
         NEW k \in 1..d-1
  PROVE  Away(next', h[k], p, d - k)
<1>1. d \in Nat
  BY DEF Track
<1>2. /\ h[0] = current /\ h[d] = p
      /\ \A i \in 0..d : h[i] \in DOMAIN next
      /\ \A i \in 0..d-1 : h[i] # p /\ h[i+1] = next[h[i]]
  BY DEF Track
<1>3. \A q \in DOMAIN next : q # current => q \in DOMAIN next'
  BY DEF Unlinked
<1>4. \A q \in DOMAIN next : q # current /\ next[q] # current => next'[q] = next[q]
  BY DEF Unlinked
<1>5. ASSUME NEW i \in 1..d PROVE h[i] # current
  <2>1. 0 \in 0..d /\ i \in 0..d /\ 0 < i
    BY <1>1
  <2>2. QED BY <1>2, <2>1, TrackSimple
<1> DEFINE e == d - k
           g == [i \in 0..e |-> h[i+k]]
<1>6. e \in Nat /\ 0 \in 0..e /\ e \in 0..e /\ 0 + k = k /\ e + k = d
  BY <1>1
<1>7. ASSUME NEW i \in 0..e PROVE g[i] = h[i+k] /\ g[i] \in DOMAIN next'
  <2>1. i + k \in 0..d /\ i + k \in 1..d
    BY <1>1
  <2>2. QED BY <1>2, <1>3, <1>5, <2>1
<1>8. ASSUME NEW i \in 0..e-1 PROVE g[i] # p /\ g[i+1] = next'[g[i]]
  <2>1. /\ i \in 0..e /\ i + 1 \in 0..e /\ i + k \in 0..d-1 /\ i + k \in 0..d /\ i + k \in 1..d
        /\ (i + k) + 1 \in 1..d /\ (i + 1) + k = (i + k) + 1
    BY <1>1
  <2>2. g[i] = h[i+k] /\ g[i+1] = h[(i+k)+1]
    BY <1>7, <2>1
  <2>3. h[i+k] # p /\ h[(i+k)+1] = next[h[i+k]] /\ h[i+k] \in DOMAIN next
    BY <1>2, <2>1
  <2>4. h[i+k] # current /\ h[(i+k)+1] # current
    BY <1>5, <2>1
  <2>5. QED BY <1>4, <2>2, <2>3, <2>4
<1>9. g[0] = h[k] /\ g[e] = p
  BY <1>2, <1>6, <1>7
<1> HIDE DEF e, g
<1>10. Track(g, next', h[k], p, e)
  BY SMTT(60), <1>6, <1>7, <1>8, <1>9 DEF Track
<1>11. QED BY <1>10 DEF Away, e

\* schedule() moves the CPU towards a task that is READY and stays so.
LEMMA ScheduleNearer ==
  ASSUME IInv, OneCycle, NEW st, NEW how, NEW m, schedule(st, how, m),
         NEW p \in DOMAIN next, p # current, p # Idle, st[p] = "READY", state'[p] = "READY"
  PROVE  \E e \in Nat : e < Distance(p) /\ Away(next', current', p, e)
<1> DEFINE d == Distance(p)
           h == Hop(current)
<1>0. RingType /\ p \in Pid
  BY DEF IInv, Core, RingType
<1>1. Track(h, next, current, p, d)
  BY DistanceOK DEF DistanceIsAway
<1>2. Ready(st, p) /\ ~NobodyReady(st)
  BY SMTT(60) DEF Ready, NobodyReady
<1>3. PICK F \in SUBSET DOMAIN dead_list, n \in DOMAIN next :
        FirstReady(st, n) /\ SwitchTo(n, st, F, how, m)
  BY SMTT(60), <1>2 DEF schedule
<1>4. /\ current' = n /\ n # p
      /\ next' = next \/ next' = Unlinked(current)
  BY SMTT(60), <1>0, <1>3 DEF SwitchTo, context_switch
<1>5. PICK k \in 1..MaxPid+1 : h[k] = n /\ \A j \in 1..k-1 : ~Ready(st, h[j])
  BY <1>3 DEF FirstReady
<1> HIDE DEF d, h
<1>6. d \in Nat /\ h[d] = p /\ d # 0
  BY <1>1 DEF Track
<1>7. k \in 1..d-1
  <2>1. d \notin 1..k-1
    BY <1>2, <1>5, <1>6
  <2>2. d # k
    BY <1>4, <1>5, <1>6
  <2>3. QED BY <1>6, <2>1, <2>2, SchedAssumption
<1>8. Away(next', h[k], p, d - k)
  BY <1>0, <1>1, <1>4, <1>7, SwitchAway
<1>9. d - k \in Nat /\ d - k < d
  BY <1>6, <1>7
<1>10. QED BY <1>4, <1>5, <1>8, <1>9 DEF d

\* The same for every step: p is no farther away, and nearer after a switch.
LEMMA StepNearer ==
  ASSUME IInv, OneCycle, [Next]_vars, NEW p \in Pid \ {Idle},
         state[p] = "READY", state'[p] = "READY"
  PROVE  \E e \in Nat : /\ e <= Distance(p)
                        /\ current' # current => e < Distance(p)
                        /\ Away(next', current', p, e)
<1>0. /\ RingType /\ current \in Pid /\ current \in DOMAIN next /\ state \in [Pid -> States]
      /\ p \in DOMAIN next /\ p # current /\ p # Idle
  BY DEF IInv, Core, ListsMatchStates, CurrentRuns, Live
<1>1. Distance(p) \in Nat /\ Away(next, current, p, Distance(p))
  BY <1>0, DistanceOK DEF DistanceIsAway, Away, Track
<1> DEFINE d == Distance(p)
           Goal == \E e \in Nat : /\ e <= d
                                  /\ current' # current => e < d
                                  /\ Away(next', current', p, e)
<1> HIDE DEF d
<1>2. SUFFICES Goal
  BY DEF d
<1>3. d \in Nat /\ Away(next, current, p, d)
  BY <1>1 DEF d
<1>4. ASSUME NEW st, NEW how, NEW m, schedule(st, how, m), st[p] = "READY" PROVE Goal
  <2>1. PICK e \in Nat : e < d /\ Away(next', current', p, e)
    BY <1>0, <1>4, ScheduleNearer DEF d
  <2>2. e <= d
    BY <1>3, <2>1
  <2>3. QED BY <2>1, <2>2
<1>5. ASSUME next' = next, current' = current PROVE Goal
  BY <1>3, <1>5
<1>6. CASE TimerIRQ
  <2> DEFINE st == [q \in Pid |-> IF q \in DOMAIN next /\ Expired(q) THEN "READY" ELSE state[q]]
  <2>1. schedule(st, "irq", TRUE) /\ st[p] = "READY"
    BY Zenon, <1>6 DEF TimerIRQ
  <2> HIDE DEF st
  <2>2. QED BY Zenon, <1>4, <2>1
<1>7. CASE Yield \/ WaitYields
  BY Zenon, <1>4, <1>7 DEF Yield, WaitYields
<1>8. ASSUME NEW ms, sleep_ms(ms) PROVE Goal
  <2> DEFINE st == [state EXCEPT ![current] = "SLEEPING"]
  <2>1. schedule(st, "call", at[current] = "kernel" /\ masked) /\ st[p] = "READY"
    BY <1>0, <1>8 DEF sleep_ms
  <2> HIDE DEF st
  <2>2. QED BY <1>4, <2>1
<1>9. ASSUME NEW code, NEW why, task_exit(code, why) PROVE Goal
  <2> DEFINE st == [state EXCEPT ![current] = "DEAD"]
  <2>1. schedule(st, "call", why = "fault") /\ st[p] = "READY"
    BY <1>0, <1>9 DEF task_exit
  <2> HIDE DEF st
  <2>2. QED BY <1>4, <2>1
<1>10. ASSUME NEW q \in Pid, KillOther(q) PROVE Goal
  <2>1. /\ q \in DOMAIN next /\ q # current /\ next' = Unlinked(q) /\ current' = current
        /\ state' = [state EXCEPT ![q] = IF ppid[q] # 0 THEN "ZOMBIE" ELSE "DEAD"]
    BY <1>10 DEF KillOther
  <2>2. p # q
    BY <1>0, <2>1
  <2>3. Away(next', current, p, d) \/ Away(next', current, p, d - 1)
    BY <1>0, <1>3, <2>1, <2>2, UnlinkedAway
  <2>4. CASE Away(next', current, p, d)
    BY <1>3, <2>1, <2>4
  <2>5. CASE Away(next', current, p, d - 1)
    <3>1. d - 1 \in Nat /\ d - 1 <= d
      BY <1>3, <2>5 DEF Away, Track
    <3>2. QED BY <2>1, <2>5, <3>1
  <2>6. QED BY <2>3, <2>4, <2>5
<1>11. CASE Fork
  <2>1. next_pid \in Pid /\ next_pid >= next_pid
    BY <1>11, SchedAssumption DEF Fork, IInv, Fields, Pid
  <2>2. state[next_pid] = "NONE"
    BY <2>1 DEF IInv, Unused
  <2>3. next_pid \notin DOMAIN next
    BY <2>2 DEF IInv, Core, ListsMatchStates, Live
  <2>4. Away(next', current, p, d)
    BY <1>0, <1>3, <1>11, <2>3, LinkedAway DEF Fork
  <2>5. QED BY <1>3, <1>11, <2>4 DEF Fork
<1>12. CASE \/ ForkFails \/ WaitCollects \/ WaitEchild \/ WaitNohang \/ UNCHANGED vars
            \/ \E pid \in Pid : KillRefused(pid)
            \/ \E a \in PidArgs, b \in BOOLEAN : Waitpid(a, b)
  <2>1. next' = next /\ current' = current
    BY ZenonT(60), <1>12 DEF ForkFails, WaitCollects, WaitEchild, WaitNohang, WaitReturns, KillRefused, Waitpid, vars
  <2>2. QED BY SMTT(60), <1>5, <2>1
<1> HIDE DEF Goal
<1>13. QED
  BY SMTT(60), <1>6, <1>7, <1>8, <1>9, <1>10, <1>11, <1>12
     DEF Next, Faultless, Syscall, KernelSleeps, sched_waitpid, Exit, Fault, KillSelf

\* Round robin, for any number of tasks: no interleaving of switches, forks, kills
\* and deaths moves the CPU away from a task that waits for it, and every switch
\* moves the CPU towards it.
THEOREM SwitchesAreFair == Spec => RoundRobin
<1> DEFINE Nearer ==
      \A p \in Pid \ {Idle} :
        (state[p] = "READY" /\ state'[p] = "READY") =>
          /\ Distance(p)' <= Distance(p)
          /\ current' # current => Distance(p)' < Distance(p)
<1>1. (IInv /\ OneCycle => DistanceIsAway)'
  BY DistanceOK, PTL
<1>2. IInv /\ OneCycle /\ (IInv /\ OneCycle)' /\ [Next]_vars => [Nearer]_vars
  <2> SUFFICES ASSUME IInv, OneCycle, IInv', OneCycle', [Next]_vars, NEW p \in Pid \ {Idle},
                      state[p] = "READY", state'[p] = "READY"
               PROVE  /\ Distance(p)' <= Distance(p)
                      /\ current' # current => Distance(p)' < Distance(p)
    OBVIOUS
  <2>1. PICK e \in Nat : /\ e <= Distance(p)
                         /\ current' # current => e < Distance(p)
                         /\ Away(next', current', p, e)
    BY StepNearer
  <2>2. p \in DOMAIN next'
    BY DEF IInv, Core, ListsMatchStates, Live
  <2>3. Away(next', current', p, Distance(p)')
    BY <1>1, <2>2 DEF DistanceIsAway, Away
  <2>4. Distance(p)' = e
    BY <2>1, <2>3, AwayUnique
  <2>5. QED BY <2>1, <2>4
<1>3. QED BY <1>2, RingInvariance, PTL DEF Spec, RoundRobin

============================================================================
