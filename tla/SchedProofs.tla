---------------------------- MODULE SchedProofs ----------------------------
(***************************************************************************)
(* Machine-checked theorems about Sched, for any number of tasks.          *)
(***************************************************************************)
EXTENDS Sched, TLAPS

States == Live \cup Corpse \cup {"NONE", "FREED"}

----------------------------------------------------------------------------
(* The inductive invariant, in the parts the actions disturb.              *)

\* No two tasks share a successor: without it unlinking could lose a task.
RingInjective == \A p, q \in DOMAIN next : next[p] = next[q] => p = q

RingType ==
  /\ DOMAIN next \subseteq Pid /\ next \in [DOMAIN next -> DOMAIN next]
  /\ RingInjective

DeadType ==
  /\ deaths \in Nat
  /\ DOMAIN dead_list \subseteq Pid /\ dead_list \in [DOMAIN dead_list -> 1..deaths]

\* What schedule() and the list operations maintain.
Core ==
  /\ RingType /\ DeadType
  /\ current \in Pid
  /\ state \in [Pid -> States]
  /\ ppid \in [Pid -> Pid]
  /\ masked \in BOOLEAN
  /\ inherits \in [Pid -> BOOLEAN]
  /\ ListsMatchStates
  /\ CurrentRuns

\* The fields schedule() leaves alone.
Fields ==
  /\ exit_code \in [Pid -> Int]
  /\ next_pid \in 1..MaxPid+1
  /\ at \in [Pid -> {"idle", "user", "kernel", "wait"}]
  /\ \A p \in Pid : at[p] = "idle" <=> p = Idle
  /\ wait_arg \in [Pid -> (Pid \cup {NoPid}) \X BOOLEAN]
  /\ reply \in [by : Pid, arg : Pid \cup {NoPid}, ret : Pid \cup {NoPid}, status : Int]
  /\ parent \in [Pid -> Pid]
  /\ \A p \in Pid \ {Idle} : parent[p] # p
  /\ cause \in [Pid -> {"none", "exit", "self", "kill", "fault"}]

\* A task that sleeps has ticks to wait; the pids not handed out are unused.
Sleep == /\ sleep_until \in [Pid -> Nat]
         /\ \A p \in Pid : state[p] = "SLEEPING" => sleep_until[p] > 0

Unused == \A p \in Pid : p >= next_pid => state[p] = "NONE" /\ parent[p] = 0

\* As long as its parent is not freed a task still has it as its ppid.
Lineage ==
  \A c \in Pid : (state[c] \in Live \cup Corpse /\ parent[c] # 0 /\ state[parent[c]] # "FREED")
                   => ppid[c] = parent[c]

NoneHasNoParent == \A c \in Pid : state[c] = "NONE" => parent[c] = 0

IInv == Core /\ Fields /\ Sleep /\ Unused /\ Lineage /\ NoneHasNoParent /\ EchildMeansNoChild

----------------------------------------------------------------------------
(* Lemmas about the lists.                                                 *)

\* Unlinking keeps the links injective and inside the queue.
LEMMA UnlinkedOK ==
  ASSUME RingType, NEW t \in DOMAIN next
  PROVE  /\ DOMAIN Unlinked(t) = DOMAIN next \ {t}
         /\ Unlinked(t) \in [DOMAIN next \ {t} -> DOMAIN next \ {t}]
         /\ \A p, q \in DOMAIN next \ {t} : Unlinked(t)[p] = Unlinked(t)[q] => p = q
  BY DEF RingType, RingInjective, Unlinked

\* So does linking a new task in before the current one.
LEMMA LinkedOK ==
  ASSUME RingType, current \in DOMAIN next, NEW t \in Pid, t \notin DOMAIN next
  PROVE  /\ DOMAIN Linked(t) = DOMAIN next \cup {t}
         /\ Linked(t) \in [DOMAIN next \cup {t} -> DOMAIN next \cup {t}]
         /\ \A p, q \in DOMAIN next \cup {t} : Linked(t)[p] = Linked(t)[q] => p = q
  BY DEF RingType, RingInjective, Linked

\* Pushing a task on a sublist of dead_list.
LEMMA PushedOK ==
  ASSUME DeadType, NEW F, NEW t \in Pid
  PROVE  /\ DOMAIN Pushed(t, Without(F, dead_list)) = (DOMAIN dead_list \ F) \cup {t}
         /\ Pushed(t, Without(F, dead_list))
              \in [(DOMAIN dead_list \ F) \cup {t} -> 1..deaths+1]
  BY DEF DeadType, Pushed, Without

LEMMA WithoutOK ==
  ASSUME DeadType, NEW F
  PROVE  /\ DOMAIN Without(F, dead_list) = DOMAIN dead_list \ F
         /\ Without(F, dead_list) \in [DOMAIN dead_list \ F -> 1..deaths]
  BY DEF DeadType, Without

\* Orphaning yields a ppid for every task, and clears it only for freed parents.
LEMMA OrphanOK ==
  ASSUME ppid \in [Pid -> Pid], NEW F
  PROVE  /\ sched_orphan_children(F) \in [Pid -> Pid]
         /\ \A p \in Pid : sched_orphan_children(F)[p] # ppid[p] => ppid[p] \in F
  BY SchedAssumption DEF sched_orphan_children, Pid

----------------------------------------------------------------------------
(* schedule(), called with the states st.                                  *)

\* What holds of st at each of its calls: the callers change the state of the
\* current task, or wake sleepers, and nothing else.
StOK(st) ==
  /\ st \in [Pid -> States]
  /\ \A p \in Pid \ {current} :
       /\ st[p] \in Live <=> state[p] \in Live
       /\ st[p] \notin Live => st[p] = state[p]
       /\ st[p] # "RUNNING"
  /\ st[current] \in {"RUNNING", "SLEEPING", "DEAD"} \/ current = Idle
  /\ IF current = Idle THEN st[Idle] \in {"READY", "RUNNING"} ELSE st[Idle] = "READY"

\* What schedule() guarantees besides Core: what became of every task.
After(st) ==
  /\ \A p \in Pid : /\ state'[p] = "SLEEPING" => st[p] = "SLEEPING"
                    /\ state'[p] = "NONE" <=> st[p] = "NONE"
                    /\ st[p] = "FREED" => state'[p] = "FREED"
                    /\ ppid'[p] # ppid[p] => state'[ppid[p]] = "FREED"

LEMMA SwitchOK ==
  ASSUME Core, NEW st, StOK(st), NEW F \in SUBSET DOMAIN dead_list,
         NEW n \in DOMAIN next, n # current, st[n] = "READY", NEW how, NEW m,
         SwitchTo(n, st, F, how, m)
  PROVE  Core' /\ After(st)
<1> DEFINE pp == sched_orphan_children(F)
           dies == st[current] = "DEAD"
<1> USE DEF Live, Corpse, States
<1>0. /\ pp \in [Pid -> Pid]
      /\ \A p \in Pid : pp[p] # ppid[p] => ppid[p] \in F
  BY OrphanOK DEF Core
<1>1. /\ ppid' = pp /\ current' = n
      /\ inherits' = [inherits EXCEPT ![current] = (how = "call")]
      /\ masked' = (at[n] \in {"kernel", "wait"} /\ inherits[n] /\ m)
  BY DEF SwitchTo, context_switch
<1>2. current \in DOMAIN next /\ current \in Pid /\ n \in Pid
  BY DEF Core, CurrentRuns, RingType
<1>3. \A p \in F : p \in Pid /\ p # n /\ p # current /\ state[p] \in Corpse /\ st[p] \in Corpse
  BY <1>2 DEF Core, ListsMatchStates, StOK, DeadType
<1>4. /\ state' \in [Pid -> States]
      /\ state'[n] = "RUNNING"
      /\ \A p \in F : state'[p] = "FREED"
      /\ \A p \in Pid \ (F \cup {n, current}) : state'[p] = st[p]
      /\ ~dies => state'[current] \in Live \ {"RUNNING"}
      /\ st[current] = "SLEEPING" <=> state'[current] = "SLEEPING"
      /\ dies => state'[current] \in Corpse
      /\ current = Idle => state'[current] = "READY"
  BY <1>2, <1>3 DEF SwitchTo, StOK
<1>5. RingType'
  <2>1. CASE dies
    <3>1. next' = Unlinked(current)
      BY <2>1 DEF SwitchTo
    <3>2. RingType
      BY DEF Core
    <3>3. DOMAIN next \ {current} \subseteq Pid
      BY <3>2 DEF RingType
    <3>4. /\ DOMAIN next' = DOMAIN next \ {current}
          /\ next' \in [DOMAIN next \ {current} -> DOMAIN next \ {current}]
          /\ \A p, q \in DOMAIN next \ {current} : next'[p] = next'[q] => p = q
      BY Zenon, <3>1, <3>2, <1>2, UnlinkedOK
    <3>5. QED BY <3>3, <3>4 DEF RingType, RingInjective
  <2>2. CASE ~dies
    BY <2>2 DEF SwitchTo, RingType, RingInjective, Core
  <2>3. QED BY <2>1, <2>2
<1>6. DeadType'
  <2> HIDE DEF Corpse, Live, States
  <2>0. DeadType /\ DOMAIN dead_list \subseteq Pid /\ deaths \in Nat
    BY DEF Core, DeadType
  <2>1. CASE dies
    <3>1. /\ dead_list' = Pushed(current, Without(F, dead_list))
          /\ deaths' = deaths + 1
      BY <2>1 DEF SwitchTo
    <3>2. /\ DOMAIN dead_list' = (DOMAIN dead_list \ F) \cup {current}
          /\ dead_list' \in [(DOMAIN dead_list \ F) \cup {current} -> 1..deaths']
      BY Zenon, <3>1, <2>0, <1>2, PushedOK
    <3>3. QED BY <3>1, <3>2, <2>0, <1>2 DEF DeadType
  <2>2. CASE ~dies
    <3>1. dead_list' = Without(F, dead_list) /\ deaths' = deaths
      BY <2>2 DEF SwitchTo
    <3>2. /\ DOMAIN dead_list' = DOMAIN dead_list \ F
          /\ dead_list' \in [DOMAIN dead_list \ F -> 1..deaths']
      BY Zenon, <3>1, <2>0, WithoutOK
    <3>3. QED BY <3>1, <3>2, <2>0 DEF DeadType
  <2>3. QED BY <2>1, <2>2
<1>7. DOMAIN next' = IF dies THEN DOMAIN next \ {current} ELSE DOMAIN next
  BY Zenon, UnlinkedOK, <1>2 DEF SwitchTo, Core
<1>8. DOMAIN dead_list' = IF dies THEN (DOMAIN dead_list \ F) \cup {current}
                                  ELSE DOMAIN dead_list \ F
  BY Zenon, PushedOK, WithoutOK, <1>2 DEF SwitchTo, Core
<1>9. ListsMatchStates'
  <2>1. \A p \in Pid : p \in DOMAIN next' <=> state'[p] \in Live
    BY <1>2, <1>3, <1>4, <1>7 DEF Core, ListsMatchStates, StOK
  <2>2. \A p \in Pid : p \in DOMAIN dead_list' <=> state'[p] \in Corpse
    BY <1>2, <1>3, <1>4, <1>8 DEF Core, ListsMatchStates, StOK
  <2>3. QED BY SMTT(60), <2>1, <2>2, <1>5, <1>6 DEF ListsMatchStates, RingType, DeadType
<1>10. CurrentRuns'
  <2>1. n \in DOMAIN next'
    BY <1>7
  <2>2. \A p \in Pid : state'[p] = "RUNNING" => p = n
    BY <1>3, <1>4 DEF StOK
  <2>3. Idle \in Pid
    BY SchedAssumption DEF Idle, Pid
  <2>4. state'[Idle] \in {"READY", "RUNNING"}
    BY <1>3, <1>4, <2>3 DEF StOK
  <2>5. QED BY <2>1, <2>2, <2>4, <1>1, <1>4 DEF CurrentRuns
<1>11. masked' \in BOOLEAN /\ inherits' \in [Pid -> BOOLEAN]
  BY <1>1 DEF Core
<1>12. Core'
  BY <1>0, <1>1, <1>2, <1>4, <1>5, <1>6, <1>9, <1>10, <1>11 DEF Core
<1>13. After(st)
  BY <1>0, <1>1, <1>2, <1>3, <1>4 DEF After, StOK
<1>14. QED BY <1>12, <1>13

LEMMA NoSwitchOK ==
  ASSUME Core, NEW st, StOK(st), NEW F \in SUBSET DOMAIN dead_list, NEW how, NEW m,
         st[current] = "RUNNING" \/ current = Idle,
         NoSwitch(st, F, how, m)
  PROVE  Core' /\ After(st)
<1> USE DEF Live, Corpse, States
<1>0. /\ ppid' \in [Pid -> Pid]
      /\ \A p \in Pid : ppid'[p] # ppid[p] => ppid[p] \in F
  BY OrphanOK DEF Core, NoSwitch
<1>1. \A p \in F : p \in Pid /\ p # current /\ state[p] \in Corpse /\ st[p] \in Corpse
  BY DEF Core, ListsMatchStates, StOK, DeadType, CurrentRuns
<1>2. /\ state' \in [Pid -> States]
      /\ \A p \in F : state'[p] = "FREED"
      /\ \A p \in Pid \ F : state'[p] = st[p]
  BY <1>1 DEF NoSwitch, StOK
<1>3. DeadType' /\ DOMAIN dead_list' = DOMAIN dead_list \ F
  <2>0. DeadType /\ DOMAIN dead_list \subseteq Pid /\ deaths \in Nat
    BY DEF Core, DeadType
  <2>1. dead_list' = Without(F, dead_list) /\ deaths' = deaths
    BY DEF NoSwitch
  <2>2. /\ DOMAIN dead_list' = DOMAIN dead_list \ F
        /\ dead_list' \in [DOMAIN dead_list \ F -> 1..deaths']
    BY <2>0, <2>1, WithoutOK
  <2>3. QED BY <2>0, <2>1, <2>2 DEF DeadType
<1>4. RingType'
  BY DEF NoSwitch, RingType, RingInjective, Core
<1>5. ListsMatchStates'
  BY <1>1, <1>2, <1>3, <1>4 DEF NoSwitch, Core, ListsMatchStates, StOK, CurrentRuns, RingType, DeadType
<1>6. CurrentRuns'
  BY SMTT(60), <1>1, <1>2, SchedAssumption DEF NoSwitch, Core, StOK, CurrentRuns, Idle, Pid
<1>7. Core'
  BY <1>0, <1>2, <1>3, <1>4, <1>5, <1>6 DEF NoSwitch, Core
<1>8. After(st)
  BY <1>0, <1>1, <1>2 DEF After, StOK
<1>9. QED BY <1>7, <1>8

LEMMA ScheduleOK ==
  ASSUME Core, NEW st, StOK(st), NEW how, NEW m, schedule(st, how, m)
  PROVE  Core' /\ After(st)
<1>1. PICK F \in SUBSET DOMAIN dead_list :
        \/ \E n \in DOMAIN next : FirstReady(st, n) /\ SwitchTo(n, st, F, how, m)
        \/ /\ ~(current # Idle /\ st[Idle] = "READY") \/ st[current] = "RUNNING"
           /\ NoSwitch(st, F, how, m)
        \/ /\ current # Idle /\ st[Idle] = "READY"
           /\ SwitchTo(Idle, st, F, how, m)
  BY DEF schedule
<1>2. CASE \E n \in DOMAIN next : FirstReady(st, n) /\ SwitchTo(n, st, F, how, m)
  BY <1>2, SwitchOK DEF FirstReady, Ready
<1>3. CASE /\ ~(current # Idle /\ st[Idle] = "READY") \/ st[current] = "RUNNING"
           /\ NoSwitch(st, F, how, m)
  BY <1>3, NoSwitchOK DEF StOK
<1>4. CASE /\ current # Idle /\ st[Idle] = "READY"
           /\ SwitchTo(Idle, st, F, how, m)
  <2>1. Idle \in DOMAIN next
    BY SchedAssumption DEF Core, ListsMatchStates, CurrentRuns, Live, Pid, Idle
  <2>2. QED BY <1>4, <2>1, SwitchOK
<1>5. QED BY <1>1, <1>2, <1>3, <1>4

----------------------------------------------------------------------------
(* The conjuncts of the invariant that relate tasks, over any action that  *)
(* ends in schedule().                                                     *)

LEMMA RelationsOK ==
  ASSUME IInv, NEW st, StOK(st), Core', After(st),
         next_pid' = next_pid, parent' = parent, reply' = NoReply
  PROVE  Unused' /\ Lineage' /\ NoneHasNoParent' /\ EchildMeansNoChild'
<1> USE DEF Live, Corpse, States
<1>1. \A c \in Pid : /\ st[c] = "NONE" <=> state[c] = "NONE"
                     /\ state[c] = "FREED" => st[c] = "FREED"
                     /\ st[c] \in Live \cup Corpse => state[c] \in Live \cup Corpse
  BY Zenon, SchedAssumption DEF IInv, Core, StOK, CurrentRuns, Pid, Idle
<1>2. Unused' /\ NoneHasNoParent'
  BY <1>1 DEF IInv, After, Unused, NoneHasNoParent
<1>3. Lineage'
  <2> SUFFICES ASSUME NEW c \in Pid, state'[c] \in Live \cup Corpse, parent[c] # 0,
                      state'[parent[c]] # "FREED"
               PROVE  ppid'[c] = parent[c]
    BY DEF Lineage
  <2>1. parent[c] \in Pid
    BY DEF IInv, Fields
  <2>2. st[c] \in States /\ st[c] # "NONE" /\ st[c] # "FREED"
    BY DEF After, StOK
  <2>3. state[c] \in Live \cup Corpse /\ state[parent[c]] # "FREED"
    BY <2>1, <2>2, <1>1 DEF After
  <2>4. ppid[c] = parent[c]
    BY <2>3 DEF IInv, Lineage
  <2>5. QED BY <2>4 DEF After
<1>4. EchildMeansNoChild'
  BY DEF EchildMeansNoChild, NoReply
<1>5. QED BY <1>2, <1>3, <1>4

LEMMA NoReplyOK == NoReply \in [by : Pid, arg : Pid \cup {NoPid}, ret : Pid \cup {NoPid}, status : Int]
  BY SchedAssumption DEF NoReply, Pid, Idle, NoPid

\* The states handed to schedule() by a call that keeps or changes the state of
\* a current task other than idle.
LEMMA CallStOK ==
  ASSUME IInv, current # Idle, NEW s \in {"RUNNING", "SLEEPING", "DEAD"}
  PROVE  StOK([state EXCEPT ![current] = s])
  BY SchedAssumption DEF IInv, Core, CurrentRuns, StOK, Live, Corpse, States, Pid, Idle

LEMMA KeepStOK ==
  ASSUME IInv, current # Idle
  PROVE  StOK(state)
  BY SchedAssumption DEF IInv, Core, CurrentRuns, StOK, Live, Corpse, States, Pid, Idle

----------------------------------------------------------------------------
(* One lemma per action.                                                   *)

LEMMA TimerIRQStep == IInv /\ TimerIRQ => IInv'
<1> SUFFICES ASSUME IInv, TimerIRQ PROVE IInv'
  OBVIOUS
<1> DEFINE st == [p \in Pid |-> IF p \in DOMAIN next /\ Expired(p) THEN "READY" ELSE state[p]]
<1>1. StOK(st)
  BY SchedAssumption
     DEF IInv, Core, CurrentRuns, StOK, Live, Corpse, States, Pid, Idle, Expired, ListsMatchStates
<1>2. Core' /\ After(st)
  BY Zenon, <1>1, ScheduleOK DEF TimerIRQ, IInv
<1>3. Fields'
  BY NoReplyOK DEF TimerIRQ, IInv, Fields, treeVars
<1>4. Sleep'
  <2>1. sleep_until' = [p \in Pid |-> IF state[p] = "SLEEPING" THEN sleep_until[p] - 1 ELSE 0]
    BY DEF TimerIRQ
  <2>2. sleep_until' \in [Pid -> Nat]
    BY <2>1 DEF IInv, Sleep
  <2>3. ASSUME NEW p \in Pid, state'[p] = "SLEEPING" PROVE sleep_until'[p] > 0
    <3>1. st[p] = "SLEEPING"
      BY <1>2, <2>3 DEF After
    <3>2. state[p] = "SLEEPING" /\ p \in DOMAIN next /\ ~Expired(p)
      BY <3>1 DEF IInv, Core, ListsMatchStates, Live
    <3>3. QED BY <3>2, <2>1 DEF IInv, Sleep, Expired
  <2>4. QED BY <2>2, <2>3 DEF Sleep
<1>5. Unused' /\ Lineage' /\ NoneHasNoParent' /\ EchildMeansNoChild'
  BY <1>1, <1>2, RelationsOK DEF TimerIRQ, treeVars
<1>6. QED BY <1>2, <1>3, <1>4, <1>5 DEF IInv

LEMMA YieldStep == IInv /\ Yield => IInv'
<1> SUFFICES ASSUME IInv, Yield PROVE IInv'
  OBVIOUS
<1>1. StOK(state)
  BY Zenon, KeepStOK, SchedAssumption DEF Yield, InUser, IInv, Fields, Idle, Pid, Core
<1>2. Core' /\ After(state)
  BY Zenon, <1>1, ScheduleOK DEF Yield, IInv
<1>3. Fields'
  BY NoReplyOK DEF Yield, IInv, Fields, treeVars
<1>4. Sleep'
  BY <1>2 DEF Yield, IInv, Sleep, After
<1>5. Unused' /\ Lineage' /\ NoneHasNoParent' /\ EchildMeansNoChild'
  BY <1>1, <1>2, RelationsOK DEF Yield, treeVars
<1>6. QED BY <1>2, <1>3, <1>4, <1>5 DEF IInv

LEMMA WaitYieldsStep == IInv /\ WaitYields => IInv'
<1> SUFFICES ASSUME IInv, WaitYields PROVE IInv'
  OBVIOUS
<1>1. StOK(state)
  BY Zenon, KeepStOK, SchedAssumption DEF WaitYields, IInv, Fields, Idle, Pid, Core
<1>2. Core' /\ After(state)
  BY <1>1, ScheduleOK DEF WaitYields, IInv
<1>3. Fields'
  BY NoReplyOK DEF WaitYields, IInv, Fields, treeVars
<1>4. Sleep'
  BY <1>2 DEF WaitYields, IInv, Sleep, After
<1>5. Unused' /\ Lineage' /\ NoneHasNoParent' /\ EchildMeansNoChild'
  BY <1>1, <1>2, RelationsOK DEF WaitYields, treeVars
<1>6. QED BY <1>2, <1>3, <1>4, <1>5 DEF IInv

LEMMA SleepStep == ASSUME NEW ms \in Millis PROVE IInv /\ sleep_ms(ms) => IInv'
<1> SUFFICES ASSUME IInv, sleep_ms(ms) PROVE IInv'
  OBVIOUS
<1> DEFINE st == [state EXCEPT ![current] = "SLEEPING"]
<1>0. current # Idle /\ current \in Pid
  BY Zenon, SchedAssumption DEF sleep_ms, IInv, Fields, Idle, Pid, Core
<1>1. StOK(st)
  BY <1>0, CallStOK
<1>2. Core' /\ After(st)
  BY <1>1, ScheduleOK DEF sleep_ms, IInv
<1>3. Fields'
  BY NoReplyOK DEF sleep_ms, IInv, Fields, treeVars
<1>4. Sleep'
  <2>1. TicksNeeded(ms) \in Nat \ {0}
    BY SchedAssumption DEF TicksNeeded, TIMER_INTERVAL_MS
  <2>2. sleep_until' = [sleep_until EXCEPT ![current] = TicksNeeded(ms)]
    BY DEF sleep_ms
  <2>3. QED BY <2>1, <2>2, <1>0, <1>2 DEF IInv, Sleep, After
<1>5. Unused' /\ Lineage' /\ NoneHasNoParent' /\ EchildMeansNoChild'
  BY <1>1, <1>2, RelationsOK DEF sleep_ms, treeVars
<1>6. QED BY <1>2, <1>3, <1>4, <1>5 DEF IInv

LEMMA ExitStep ==
  ASSUME NEW code \in Int, NEW why \in {"exit", "self", "fault"}
  PROVE  IInv /\ task_exit(code, why) => IInv'
<1> SUFFICES ASSUME IInv, task_exit(code, why) PROVE IInv'
  OBVIOUS
<1> DEFINE st == [state EXCEPT ![current] = "DEAD"]
<1>0. current # Idle /\ current \in Pid
  BY SchedAssumption DEF task_exit, InUser, IInv, Fields, Idle, Pid, Core
<1>1. StOK(st)
  BY <1>0, CallStOK
<1>2. Core' /\ After(st)
  BY <1>1, ScheduleOK DEF task_exit, IInv
<1>3. Fields'
  BY NoReplyOK, <1>0 DEF task_exit, IInv, Fields, treeVars
<1>4. Sleep'
  BY <1>0, <1>2 DEF task_exit, IInv, Sleep, After
<1>5. Unused' /\ Lineage' /\ NoneHasNoParent' /\ EchildMeansNoChild'
  BY <1>1, <1>2, RelationsOK DEF task_exit, treeVars
<1>6. QED BY <1>2, <1>3, <1>4, <1>5 DEF IInv

\* The states of every other action: nothing but one task changes.
LEMMA KillStep == ASSUME NEW pid \in Pid PROVE IInv /\ KillOther(pid) => IInv'
<1> SUFFICES ASSUME IInv, KillOther(pid) PROVE IInv'
  OBVIOUS
<1> USE DEF Live, Corpse, States
<1>1. pid \in DOMAIN next /\ pid # Idle /\ pid # current /\ state[pid] \in Live
  BY DEF KillOther, IInv, Core, ListsMatchStates
<1>2. RingType'
  <2>1. /\ DOMAIN next' = DOMAIN next \ {pid}
        /\ next' \in [DOMAIN next \ {pid} -> DOMAIN next \ {pid}]
        /\ \A p, q \in DOMAIN next \ {pid} : next'[p] = next'[q] => p = q
    BY Zenon, <1>1, UnlinkedOK DEF KillOther, IInv, Core
  <2>2. QED BY <2>1 DEF IInv, Core, RingType, RingInjective
<1>3. DeadType' /\ DOMAIN dead_list' = DOMAIN dead_list \cup {pid}
  BY DEF KillOther, IInv, Core, DeadType, Pushed
<1>4. ListsMatchStates'
  <2>1. DOMAIN next' = DOMAIN next \ {pid}
    BY DEF KillOther, Unlinked
  <2>2. QED BY <1>1, <1>3, <2>1 DEF KillOther, IInv, Core, ListsMatchStates
<1>5. CurrentRuns'
  <2>1. DOMAIN next' = DOMAIN next \ {pid}
    BY DEF KillOther, Unlinked
  <2>2. QED BY <1>1, <2>1 DEF KillOther, IInv, Core, CurrentRuns, Idle
<1>6. Core'
  BY <1>2, <1>3, <1>4, <1>5 DEF KillOther, IInv, Core
<1>7. Fields' /\ Sleep' /\ Unused' /\ NoneHasNoParent'
  BY <1>1, NoReplyOK DEF KillOther, IInv, Fields, Sleep, Unused, NoneHasNoParent, treeVars
<1>8. Lineage' /\ EchildMeansNoChild'
  BY <1>1 DEF KillOther, IInv, Core, Fields, Lineage, EchildMeansNoChild, NoReply, treeVars
<1>9. QED BY <1>6, <1>7, <1>8 DEF IInv

LEMMA ForkStep == IInv /\ Fork => IInv'
<1> SUFFICES ASSUME IInv, Fork PROVE IInv'
  OBVIOUS
<1> USE DEF Live, Corpse, States
<1>1. next_pid \in Pid /\ next_pid # Idle /\ state[next_pid] = "NONE" /\ current # next_pid
      /\ current # Idle
  <2>1. next_pid \in Pid /\ next_pid # Idle
    BY SchedAssumption DEF Fork, IInv, Fields, Pid, Idle
  <2>2. next_pid >= next_pid
    BY SchedAssumption DEF IInv, Fields
  <2>3. state[next_pid] = "NONE"
    BY <2>1, <2>2 DEF IInv, Unused
  <2>4. current \in Pid /\ at[current] = "user" /\ current # Idle
    BY DEF Fork, InUser, IInv, Core, Fields
  <2>5. state[current] = "RUNNING"
    BY <2>4 DEF IInv, Core, CurrentRuns
  <2>6. QED BY <2>1, <2>3, <2>4, <2>5
<1>2. next_pid \notin DOMAIN next /\ next_pid \notin DOMAIN dead_list
  BY <1>1 DEF IInv, Core, ListsMatchStates
<1>3. /\ DOMAIN next' = DOMAIN next \cup {next_pid}
      /\ next' \in [DOMAIN next' -> DOMAIN next']
      /\ \A p, q \in DOMAIN next' : next'[p] = next'[q] => p = q
  BY Zenon, <1>1, <1>2, LinkedOK DEF Fork, IInv, Core, CurrentRuns
<1>4. RingType'
  BY <1>1, <1>3 DEF IInv, Core, RingType, RingInjective
<1>5. ListsMatchStates' /\ CurrentRuns'
  BY <1>1, <1>2, <1>3 DEF Fork, IInv, Core, ListsMatchStates, CurrentRuns, Idle
<1>6. Core'
  BY <1>1, <1>4, <1>5 DEF Fork, IInv, Core, DeadType
<1>7. Fields'
  <2>1. next_pid' \in 1..MaxPid+1
    BY SchedAssumption DEF Fork, IInv, Fields
  <2>2. current \in Pid
    BY DEF IInv, Core
  <2>3. QED BY <1>1, <2>1, <2>2, NoReplyOK DEF Fork, IInv, Fields
<1>8. Sleep' /\ Unused' /\ NoneHasNoParent'
  BY <1>1 DEF Fork, IInv, Core, Fields, Sleep, Unused, NoneHasNoParent, Pid
<1>9. Lineage' /\ EchildMeansNoChild'
  BY <1>1 DEF Fork, IInv, Core, Fields, Lineage, EchildMeansNoChild, NoReply
<1>10. QED BY <1>6, <1>7, <1>8, <1>9 DEF IInv

LEMMA ForkFailsStep == IInv /\ ForkFails => IInv'
<1> SUFFICES ASSUME IInv, ForkFails PROVE IInv'
  OBVIOUS
<1>1. Core'
  BY DEF ForkFails, IInv, Core, RingType, RingInjective, DeadType, ListsMatchStates, CurrentRuns
<1>2. next_pid' \in 1..MaxPid+1
  BY SchedAssumption DEF ForkFails, IInv, Fields
<1>3. Fields'
  BY <1>2, NoReplyOK DEF ForkFails, IInv, Fields
<1>4. Unused'
  <2>1. next_pid \in Int /\ next_pid' = next_pid + 1 /\ state' = state /\ parent' = parent
    BY DEF ForkFails, IInv, Fields
  <2>2. \A p \in Pid : p >= next_pid' => p >= next_pid
    BY <2>1, SchedAssumption DEF Pid
  <2>3. QED BY <2>1, <2>2 DEF IInv, Unused
<1>5. Sleep' /\ Lineage' /\ NoneHasNoParent' /\ EchildMeansNoChild'
  BY DEF ForkFails, IInv, Sleep, Lineage, NoneHasNoParent, EchildMeansNoChild, NoReply
<1>6. QED BY <1>1, <1>3, <1>4, <1>5 DEF IInv

LEMMA KillRefusedStep == ASSUME NEW pid \in Pid PROVE IInv /\ KillRefused(pid) => IInv'
<1> SUFFICES ASSUME IInv, KillRefused(pid) PROVE IInv'
  OBVIOUS
<1>1. Core'
  BY DEF KillRefused, IInv, Core, RingType, RingInjective, DeadType, ListsMatchStates, CurrentRuns
<1>2. Fields' /\ Unused' /\ Sleep' /\ Lineage' /\ NoneHasNoParent' /\ EchildMeansNoChild'
  BY NoReplyOK DEF KillRefused, IInv, Fields, Unused, Sleep, Lineage, NoneHasNoParent,
                   EchildMeansNoChild, NoReply, treeVars
<1>3. QED BY <1>1, <1>2 DEF IInv

LEMMA WaitpidStep ==
  ASSUME NEW pid_arg \in PidArgs, NEW nohang \in BOOLEAN
  PROVE  IInv /\ Waitpid(pid_arg, nohang) => IInv'
<1> SUFFICES ASSUME IInv, Waitpid(pid_arg, nohang) PROVE IInv'
  OBVIOUS
<1>1. Core'
  BY DEF Waitpid, IInv, Core, RingType, RingInjective, DeadType, ListsMatchStates, CurrentRuns
<1>2. pid_arg \in Pid \cup {NoPid} /\ current \in Pid /\ current # Idle
  BY SchedAssumption DEF Waitpid, InUser, Pid, NoPid, IInv, Core, Fields
<1>3. Fields'
  BY <1>2, NoReplyOK DEF Waitpid, IInv, Fields, treeVars
<1>4. Unused' /\ Sleep' /\ Lineage' /\ NoneHasNoParent' /\ EchildMeansNoChild'
  BY DEF Waitpid, IInv, Unused, Sleep, Lineage, NoneHasNoParent,
         EchildMeansNoChild, NoReply, treeVars
<1>5. QED BY <1>1, <1>3, <1>4 DEF IInv

\* What a return from waitpid writes has its type.
LEMMA ReturnFields ==
  ASSUME IInv, at[current] = "wait", NEW ret \in Pid \cup {NoPid}, NEW status \in Int,
         WaitReturns(ret, status)
  PROVE  Fields' /\ masked' \in BOOLEAN
<1>1. current \in Pid /\ current # Idle
  BY DEF IInv, Core, Fields
<1>2. wait_arg[current][1] \in Pid \cup {NoPid}
  BY <1>1 DEF IInv, Fields
<1>3. NoPid \in Pid \cup {NoPid} /\ <<NoPid, FALSE>> \in (Pid \cup {NoPid}) \X BOOLEAN
  BY Zenon
<1>4. wait_arg' \in [Pid -> (Pid \cup {NoPid}) \X BOOLEAN]
  BY <1>1, <1>3 DEF WaitReturns, IInv, Fields
<1>5. reply' \in [by : Pid, arg : Pid \cup {NoPid}, ret : Pid \cup {NoPid}, status : Int]
  BY <1>1, <1>2 DEF WaitReturns
<1>6. QED BY Zenon, <1>1, <1>4, <1>5 DEF WaitReturns, IInv, Fields, treeVars

LEMMA StatusInt == ASSUME NEW code \in Int PROVE Status(code) \in Int
  BY DEF Status

LEMMA CollectsStep == IInv /\ WaitCollects => IInv'
<1> SUFFICES ASSUME IInv, WaitCollects PROVE IInv'
  OBVIOUS
<1> USE DEF Live, Corpse, States
<1>1. PICK c \in DOMAIN dead_list :
        /\ dead_list' = Without({c}, dead_list)
        /\ state' = [state EXCEPT ![c] = "FREED"]
        /\ WaitReturns(c, Status(exit_code[c]))
  BY Zenon DEF WaitCollects
<1>2. c \in Pid /\ state[c] \in Corpse /\ Status(exit_code[c]) \in Int
  BY StatusInt DEF IInv, Core, DeadType, ListsMatchStates, Fields
<1>3. Fields' /\ masked' \in BOOLEAN
  BY <1>1, <1>2, ReturnFields DEF WaitCollects
<1>4. DOMAIN dead_list' = DOMAIN dead_list \ {c} /\ dead_list' \in [DOMAIN dead_list' -> 1..deaths]
  BY SMTT(60), <1>1, WithoutOK DEF IInv, Core
<1>5. RingType' /\ DeadType'
  BY ZenonT(60), <1>1, <1>4 DEF WaitReturns, IInv, Core, RingType, RingInjective, DeadType
<1>6. ListsMatchStates' /\ CurrentRuns'
  <2>1. c # current /\ c # Idle
    BY SMTT(60), <1>2, SchedAssumption DEF IInv, Core, ListsMatchStates, CurrentRuns, Pid, Idle
  <2>2. next' = next /\ current' = current /\ state' = [state EXCEPT ![c] = "FREED"]
    BY <1>1 DEF WaitReturns
  <2>3. ListsMatchStates'
    BY <1>2, <1>4, <2>2 DEF IInv, Core, ListsMatchStates
  <2>4. CurrentRuns'
    BY SMTT(60), <1>2, <2>1, <2>2 DEF IInv, Core, CurrentRuns, Idle
  <2>5. QED BY <2>3, <2>4
<1>7. Core'
  BY SMTT(60), <1>1, <1>2, <1>3, <1>5, <1>6 DEF WaitReturns, IInv, Core
<1>8. Sleep' /\ Unused' /\ NoneHasNoParent' /\ Lineage'
  BY <1>1, <1>2 DEF WaitReturns, IInv, Fields, Sleep, Unused, NoneHasNoParent, Lineage, treeVars
<1>9. EchildMeansNoChild'
  BY <1>1, <1>2 DEF WaitReturns, EchildMeansNoChild, Pid
<1>10. QED BY <1>3, <1>7, <1>8, <1>9 DEF IInv

LEMMA EchildStep == IInv /\ WaitEchild => IInv'
<1> SUFFICES ASSUME IInv, WaitEchild PROVE IInv'
  OBVIOUS
<1> USE DEF Live, Corpse, States
<1>1. Fields' /\ masked' \in BOOLEAN
  BY ReturnFields DEF WaitEchild, NoPid
<1>2. Core'
  BY <1>1 DEF WaitEchild, WaitReturns, IInv, Core, RingType, RingInjective, DeadType,
              ListsMatchStates, CurrentRuns
<1>3. Sleep' /\ Unused' /\ NoneHasNoParent' /\ Lineage'
  BY DEF WaitEchild, WaitReturns, IInv, Sleep, Unused, NoneHasNoParent, Lineage, treeVars
<1>4. EchildMeansNoChild'
  <2> SUFFICES ASSUME NEW c \in Pid, parent[c] = current, wait_arg[current][1] \in {NoPid, c},
                      state[c] # "FREED"
               PROVE  FALSE
    BY DEF WaitEchild, WaitReturns, EchildMeansNoChild, treeVars
  <2>1. current \in Pid /\ current # 0 /\ state[current] \in Live
    BY DEF WaitEchild, IInv, Core, CurrentRuns, ListsMatchStates, Fields, Idle
  <2>2. state[c] \in Live \cup Corpse
    BY <2>1 DEF IInv, Core, NoneHasNoParent
  <2>3. Matches(current, c)
    BY <2>1, <2>2 DEF IInv, Lineage, Matches
  <2>4. c # current
    BY <2>1 DEF IInv, Fields, Idle
  <2>5. c \in DOMAIN next \/ c \in DOMAIN dead_list
    BY <2>2 DEF IInv, Core, ListsMatchStates
  <2>6. QED BY <2>3, <2>4, <2>5 DEF WaitEchild, has_matching_child
<1>5. QED BY <1>1, <1>2, <1>3, <1>4 DEF IInv

LEMMA NohangStep == IInv /\ WaitNohang => IInv'
<1> SUFFICES ASSUME IInv, WaitNohang PROVE IInv'
  OBVIOUS
<1>1. Fields' /\ masked' \in BOOLEAN
  BY ReturnFields, SchedAssumption DEF WaitNohang, Pid
<1>2. Core'
  BY <1>1 DEF WaitNohang, WaitReturns, IInv, Core, RingType, RingInjective, DeadType,
              ListsMatchStates, CurrentRuns
<1>3. Sleep' /\ Unused' /\ NoneHasNoParent' /\ Lineage' /\ EchildMeansNoChild'
  BY DEF WaitNohang, WaitReturns, IInv, Sleep, Unused, NoneHasNoParent, Lineage,
         EchildMeansNoChild, treeVars
<1>4. QED BY <1>1, <1>2, <1>3 DEF IInv

----------------------------------------------------------------------------
(* The invariant holds initially and every step keeps it.                  *)

LEMMA InitIInv == Init => IInv
<1> SUFFICES ASSUME Init PROVE IInv
  OBVIOUS
<1> USE SchedAssumption DEF Init, Idle, Pid, Boot, KTask, Live, Corpse, States
<1>1. RingType
  <2>1. DOMAIN next = 0..NUser+NKernel
    OBVIOUS
  <2>2. \A p \in 0..NUser+NKernel : next[p] = IF p = NUser + NKernel THEN 0 ELSE p + 1
    OBVIOUS
  <2>3. \A p \in 0..NUser+NKernel : next[p] \in 0..NUser+NKernel
    BY <2>2
  <2>4. \A p, q \in 0..NUser+NKernel : next[p] = next[q] => p = q
    BY <2>2
  <2>5. next \in [0..NUser+NKernel -> 0..NUser+NKernel]
    BY <2>1, <2>3
  <2>6. QED BY <2>1, <2>4, <2>5 DEF RingType, RingInjective
<1>2. DeadType
  BY DEF DeadType
<1>3. ListsMatchStates /\ CurrentRuns
  BY DEF ListsMatchStates, CurrentRuns
<1>4. Core
  <2>1. current \in Pid /\ state \in [Pid -> States] /\ ppid \in [Pid -> Pid]
    OBVIOUS
  <2>2. masked \in BOOLEAN /\ inherits \in [Pid -> BOOLEAN]
    BY Zenon
  <2> HIDE DEF Init, Pid, States
  <2>3. QED BY <1>1, <1>2, <1>3, <2>1, <2>2 DEF Core
<1>5. wait_arg \in [Pid -> (Pid \cup {NoPid}) \X BOOLEAN]
  BY Zenon DEF NoPid
<1>6. reply \in [by : Pid, arg : Pid \cup {NoPid}, ret : Pid \cup {NoPid}, status : Int]
  BY NoReplyOK
<1>7. Fields
  <2>1. exit_code \in [Pid -> Int] /\ next_pid \in 1..MaxPid+1
    OBVIOUS
  <2>2. /\ at \in [Pid -> {"idle", "user", "kernel", "wait"}]
        /\ \A p \in Pid : at[p] = "idle" <=> p = Idle
    OBVIOUS
  <2>3. /\ parent \in [Pid -> Pid] /\ \A p \in Pid \ {Idle} : parent[p] # p
        /\ cause \in [Pid -> {"none", "exit", "self", "kill", "fault"}]
    OBVIOUS
  <2> HIDE DEF Init, Pid, Idle
  <2>4. QED BY <1>5, <1>6, <2>1, <2>2, <2>3 DEF Fields
<1>8. Sleep /\ Unused /\ Lineage /\ NoneHasNoParent
  BY DEF Sleep, Unused, Lineage, NoneHasNoParent
<1>9. EchildMeansNoChild
  BY DEF EchildMeansNoChild, NoReply
<1>10. QED BY <1>4, <1>7, <1>8, <1>9 DEF IInv

LEMMA NextIInv == IInv /\ [Next]_vars => IInv'
<1> SUFFICES ASSUME IInv, [Next]_vars PROVE IInv'
  OBVIOUS
<1>1. CASE TimerIRQ
  BY <1>1, TimerIRQStep
<1>2. CASE Yield
  BY <1>2, YieldStep
<1>3. CASE \E ms \in Millis : sleep_ms(ms)
  BY <1>3, SleepStep
<1>4. CASE Exit \/ Fault \/ KillSelf
  <2>1. -1 \in Int /\ 0 \in Int /\ ExitCodes \subseteq Int
    BY SchedAssumption
  <2>2. QED BY <1>4, <2>1, ExitStep DEF Exit, Fault, KillSelf
<1>5. CASE \E pid \in Pid : KillOther(pid) \/ KillRefused(pid)
  BY <1>5, KillStep, KillRefusedStep
<1>6. CASE Fork \/ ForkFails
  BY <1>6, ForkStep, ForkFailsStep
<1>7. CASE \E pid_arg \in PidArgs, nohang \in BOOLEAN : Waitpid(pid_arg, nohang)
  BY <1>7, WaitpidStep
<1>8. CASE sched_waitpid
  BY SMTT(60), <1>8, CollectsStep, EchildStep, NohangStep, WaitYieldsStep DEF sched_waitpid
<1>9. CASE UNCHANGED vars
  BY <1>9 DEF vars, IInv, Core, RingType, RingInjective, DeadType, ListsMatchStates, CurrentRuns,
              Fields, Sleep, Unused, Lineage, NoneHasNoParent, EchildMeansNoChild
<1>10. QED
  BY <1>1, <1>2, <1>3, <1>4, <1>5, <1>6, <1>7, <1>8, <1>9 DEF Next, Faultless, Syscall, KernelSleeps

LEMMA Invariance == Spec => []IInv
  BY InitIInv, NextIInv, PTL DEF Spec

----------------------------------------------------------------------------

\* Every field keeps its type (task_t and the scheduler's globals).
THEOREM TypeCorrect == Spec => []TypeOK
<1>1. IInv => TypeOK
  BY DEF IInv, Core, Fields, Sleep, RingType, DeadType, TypeOK, States
<1>2. QED BY <1>1, Invariance, PTL

\* No list of the scheduler ever reaches a task_t that was freed, however many
\* tasks there are and however fork, exit, kill, waitpid and the timer interleave.
THEOREM NoFreedTaskLinked == Spec => []ListsMatchStates
<1>1. IInv => ListsMatchStates
  BY DEF IInv, Core
<1>2. QED BY <1>1, Invariance, PTL

\* schedule() always leaves the CPU with one live task, and idle is always there
\* to fall back on.
THEOREM OneTaskRuns == Spec => []CurrentRuns
<1>1. IInv => CurrentRuns
  BY DEF IInv, Core
<1>2. QED BY <1>1, Invariance, PTL

\* waitpid says ECHILD only to a caller whose matching children were all
\* collected: neither the reaper nor orphaning ever takes one from it.
THEOREM EchildIsHonest == Spec => []EchildMeansNoChild
<1>1. IInv => EchildMeansNoChild
  BY DEF IInv
<1>2. QED BY <1>1, Invariance, PTL

\* What the reaper removes from dead_list has no parent, or its parent is freed.
LEMMA ReapedOK ==
  ASSUME Core, NEW st, NEW how, NEW m, schedule(st, how, m),
         NEW c \in DOMAIN dead_list, c \notin DOMAIN dead_list'
  PROVE  ppid[c] = 0 \/ state'[ppid[c]] = "FREED"
<1>1. PICK F \in SUBSET DOMAIN dead_list :
        /\ sched_reap(F)
        /\ \/ \E n \in DOMAIN next : SwitchTo(n, st, F, how, m)
           \/ NoSwitch(st, F, how, m)
           \/ SwitchTo(Idle, st, F, how, m)
  BY DEF schedule
<1>2. F \subseteq Pid /\ F \cap DOMAIN next = {} /\ Idle \in DOMAIN next
  <2>1. F \subseteq Pid
    BY DEF Core, DeadType
  <2>2. \A p \in F : p \notin DOMAIN next
    BY DEF Core, ListsMatchStates, Live, Corpse
  <2>3. Idle \in Pid
    BY SchedAssumption DEF Idle, Pid
  <2>4. Idle \in DOMAIN next
    BY SMTT(60), <2>3 DEF Core, ListsMatchStates, CurrentRuns, Live
  <2>5. QED BY <2>1, <2>2, <2>4
<1>3. \A p \in F : state'[p] = "FREED"
  BY ZenonT(60), <1>1, <1>2 DEF SwitchTo, NoSwitch
<1>4. c \in F
  BY ZenonT(60), <1>1 DEF SwitchTo, NoSwitch, Pushed, Without
<1>5. QED BY SMTT(60), <1>1, <1>3, <1>4 DEF sched_reap

\* Only the parent's waitpid, and with the right status, takes a zombie whose
\* parent is not freed off dead_list.
THEOREM ZombiesAreHeld == Spec => ZombieHeld
<1> DEFINE Held ==
      \A c \in DOMAIN dead_list \ DOMAIN dead_list' :
        \/ ppid[c] = 0
        \/ state'[ppid[c]] = "FREED"
        \/ /\ reply'.by = ppid[c] /\ reply'.ret = c
           /\ reply'.status = Status(exit_code[c])
<1>1. IInv /\ [Next]_vars => [Held]_vars
  <2> SUFFICES ASSUME IInv, Next, NEW c \in DOMAIN dead_list, c \notin DOMAIN dead_list'
               PROVE  \/ ppid[c] = 0
                      \/ state'[ppid[c]] = "FREED"
                      \/ /\ reply'.by = ppid[c] /\ reply'.ret = c
                         /\ reply'.status = Status(exit_code[c])
    OBVIOUS
  <2>0. Core
    BY DEF IInv
  <2>1. CASE \E st, how, m : schedule(st, how, m)
    BY <2>0, <2>1, ReapedOK
  <2>2. CASE WaitCollects
    BY <2>2 DEF WaitCollects, WaitReturns, Without, Matches
  <2>3. CASE \E pid \in Pid : KillOther(pid)
    BY <2>3 DEF KillOther, Pushed
  <2>4. CASE dead_list' = dead_list
    BY <2>4
  <2>5. TimerIRQ \/ Yield \/ WaitYields => \E st, how, m : schedule(st, how, m)
    BY Zenon DEF TimerIRQ, Yield, WaitYields
  <2>6. ASSUME NEW ms, sleep_ms(ms) PROVE \E st, how, m : schedule(st, how, m)
    BY <2>6 DEF sleep_ms
  <2>7. ASSUME NEW code, NEW why, task_exit(code, why) PROVE \E st, how, m : schedule(st, how, m)
    BY <2>7 DEF task_exit
  <2>8. ASSUME WaitEchild \/ WaitNohang \/ Fork \/ ForkFails PROVE dead_list' = dead_list
    BY <2>8 DEF WaitEchild, WaitNohang, Fork, ForkFails
  <2>9. ASSUME NEW pid, KillRefused(pid) PROVE dead_list' = dead_list
    BY <2>9 DEF KillRefused
  <2>10. ASSUME NEW a, NEW b, Waitpid(a, b) PROVE dead_list' = dead_list
    BY SMTT(60), <2>10 DEF Waitpid
  <2>11. QED
    BY <2>1, <2>2, <2>3, <2>4, <2>5, <2>6, <2>7, <2>8, <2>9, <2>10, Zenon
       DEF Next, Faultless, Syscall, KernelSleeps, sched_waitpid, Exit, Fault, KillSelf
<1>2. QED BY <1>1, Invariance, PTL DEF Spec, ZombieHeld

----------------------------------------------------------------------------
(* What waitpid reports.                                                   *)

\* A parent link that is still set is the true one, and a corpse carries the code
\* that goes with its death.
PpidIsParent == \A c \in Pid : ppid[c] # 0 => ppid[c] = parent[c]

CodeTellsCause ==
  \A c \in Pid : state[c] \in Corpse => (exit_code[c] < 0 <=> cause[c] \in {"kill", "fault"})

Reports == PpidIsParent /\ CodeTellsCause /\ NohangMeansAlive /\ StatusTellsCause

\* schedule() makes no corpse of a task that was not DEAD when it was called, and
\* only ever clears a parent link.
LEMMA ScheduleCorpses ==
  ASSUME Core, NEW st, StOK(st), NEW how, NEW m, schedule(st, how, m)
  PROVE  \A p \in Pid : /\ state'[p] \in Corpse => st[p] \in Corpse
                        /\ ppid'[p] \in {ppid[p], 0}
<1>1. PICK F \in SUBSET DOMAIN dead_list :
        \/ \E n \in DOMAIN next : SwitchTo(n, st, F, how, m)
        \/ NoSwitch(st, F, how, m)
        \/ SwitchTo(Idle, st, F, how, m)
  BY SMTT(60) DEF schedule
<1>2. ppid' = sched_orphan_children(F)
  BY Zenon, <1>1 DEF SwitchTo, NoSwitch
<1>3. \A p \in Pid : ppid'[p] \in {ppid[p], 0}
  BY <1>2 DEF sched_orphan_children
<1>4. ASSUME NEW n, SwitchTo(n, st, F, how, m)
      PROVE  \A p \in Pid : state'[p] \in Corpse => st[p] \in Corpse
  <2>1. \A p \in Pid : \/ state'[p] \in {"RUNNING", "FREED", "READY", st[p]}
                       \/ state'[p] = "ZOMBIE" /\ p = current /\ st[current] = "DEAD"
    BY <1>4 DEF SwitchTo
  <2>2. QED BY SMTT(60), <2>1 DEF Corpse
<1>5. ASSUME NoSwitch(st, F, how, m)
      PROVE  \A p \in Pid : state'[p] \in Corpse => st[p] \in Corpse
  BY <1>5 DEF NoSwitch, Corpse
<1>6. QED BY SMTT(60), <1>1, <1>3, <1>4, <1>5

\* The part that is the same for every caller of schedule().
LEMMA ScheduleReports ==
  ASSUME IInv, Reports, NEW st, StOK(st), NEW how, NEW m, schedule(st, how, m),
         parent' = parent, reply' = NoReply,
         \A c \in Pid : st[c] \in Corpse /\ state[c] \notin Corpse =>
                          (exit_code'[c] < 0 <=> cause'[c] \in {"kill", "fault"}),
         \A c \in Pid : state[c] \in Corpse =>
                          exit_code'[c] = exit_code[c] /\ cause'[c] = cause[c]
  PROVE  Reports'
<1>0. Core
  BY DEF IInv
<1>1. \A p \in Pid : /\ state'[p] \in Corpse => st[p] \in Corpse
                     /\ ppid'[p] \in {ppid[p], 0}
  BY <1>0, ScheduleCorpses
<1>2. PpidIsParent'
  BY <1>1 DEF Reports, PpidIsParent
<1>3. CodeTellsCause'
  BY SMTT(60), <1>1 DEF Reports, CodeTellsCause
<1>4. NohangMeansAlive' /\ StatusTellsCause'
  BY DEF NohangMeansAlive, StatusTellsCause, NoReply
<1>5. QED BY <1>2, <1>3, <1>4 DEF Reports

\* The status word is the signalled one for the negative codes only.
LEMMA StatusSigned == ASSUME NEW code \in Int PROVE Status(code) = 128 + 11 <=> code < 0
<1>1. code % 256 \in Int
  OBVIOUS
<1>2. \A k \in Int : k * 256 # 139
  OBVIOUS
<1>3. QED BY <1>1, <1>2 DEF Status

LEMMA InitReports == Init => Reports
  BY SchedAssumption DEF Init, Reports, PpidIsParent, CodeTellsCause, NohangMeansAlive,
     StatusTellsCause, NoReply, Corpse

LEMMA NextReports ==
  ASSUME ExitCodes \subseteq Nat
  PROVE  IInv /\ Reports /\ [Next]_vars => Reports'
<1> SUFFICES ASSUME IInv, Reports, [Next]_vars PROVE Reports'
  OBVIOUS
<1>0. /\ Core /\ current \in Pid /\ exit_code \in [Pid -> Int]
      /\ cause \in [Pid -> {"none", "exit", "self", "kill", "fault"}]
      /\ state \in [Pid -> States] /\ ppid \in [Pid -> Pid] /\ parent \in [Pid -> Pid]
      /\ state[current] \in Live
      /\ at[current] # "idle" => current # Idle
  BY SMTT(60) DEF IInv, Core, Fields, ListsMatchStates, CurrentRuns
<1>q. ASSUME reply' = NoReply PROVE NohangMeansAlive' /\ StatusTellsCause'
  BY <1>q DEF NohangMeansAlive, StatusTellsCause, NoReply
<1>1. CASE TimerIRQ
  <2> DEFINE st == [p \in Pid |-> IF p \in DOMAIN next /\ Expired(p) THEN "READY" ELSE state[p]]
  <2>1. StOK(st)
    BY SchedAssumption
       DEF IInv, Core, CurrentRuns, StOK, Live, Corpse, States, Pid, Idle, Expired, ListsMatchStates
  <2>2. \A c \in Pid : st[c] \in Corpse => state[c] \in Corpse
    BY DEF Corpse
  <2>3. schedule(st, "irq", TRUE) /\ parent' = parent /\ reply' = NoReply
        /\ exit_code' = exit_code /\ cause' = cause
    BY Zenon, <1>1 DEF TimerIRQ, treeVars
  <2> HIDE DEF st
  <2>4. QED BY Zenon, <2>1, <2>2, <2>3, ScheduleReports
<1>2. CASE Yield \/ WaitYields
  <2>1. current # Idle
    BY Zenon, <1>0, <1>2 DEF Yield, WaitYields, InUser
  <2>2. StOK(state)
    BY <2>1, KeepStOK
  <2>3. PICK m : schedule(state, "call", m)
    BY Zenon, <1>2 DEF Yield, WaitYields
  <2>4. parent' = parent /\ reply' = NoReply /\ exit_code' = exit_code /\ cause' = cause
    BY Zenon, <1>2 DEF Yield, WaitYields, treeVars
  <2>5. QED BY <2>2, <2>3, <2>4, ScheduleReports
<1>3. ASSUME NEW ms \in Millis, sleep_ms(ms) PROVE Reports'
  <2> DEFINE st == [state EXCEPT ![current] = "SLEEPING"]
  <2>1. current # Idle
    BY <1>0, <1>3 DEF sleep_ms
  <2>2. StOK(st)
    BY <2>1, CallStOK
  <2>3. schedule(st, "call", at[current] = "kernel" /\ masked)
    BY <1>3 DEF sleep_ms
  <2>4. parent' = parent /\ reply' = NoReply /\ exit_code' = exit_code /\ cause' = cause
    BY <1>3 DEF sleep_ms, treeVars
  <2>5. \A c \in Pid : st[c] \in Corpse => state[c] \in Corpse
    BY SMTT(60), <1>0 DEF Corpse
  <2> HIDE DEF st
  <2>6. QED BY <2>2, <2>3, <2>4, <2>5, ScheduleReports
<1>4. ASSUME NEW code \in Int, NEW why \in {"exit", "self", "fault"}, task_exit(code, why),
             code < 0 <=> why = "fault"
      PROVE  Reports'
  <2> DEFINE st == [state EXCEPT ![current] = "DEAD"]
  <2>1. current # Idle
    BY <1>0, <1>4 DEF task_exit, InUser
  <2>2. StOK(st)
    BY <2>1, CallStOK
  <2>3. schedule(st, "call", why = "fault")
    BY <1>4 DEF task_exit
  <2>4. /\ parent' = parent /\ reply' = NoReply
        /\ exit_code' = [exit_code EXCEPT ![current] = code]
        /\ cause' = [cause EXCEPT ![current] = why]
    BY <1>4 DEF task_exit, treeVars
  <2>5. \A c \in Pid : st[c] \in Corpse /\ state[c] \notin Corpse =>
                         (exit_code'[c] < 0 <=> cause'[c] \in {"kill", "fault"})
    BY <1>0, <1>4, <2>4
  <2>6. \A c \in Pid : state[c] \in Corpse => exit_code'[c] = exit_code[c] /\ cause'[c] = cause[c]
    BY <1>0, <2>4 DEF Live, Corpse
  <2> HIDE DEF st
  <2>7. QED BY <2>2, <2>3, <2>4, <2>5, <2>6, ScheduleReports
<1>5. CASE Exit \/ Fault \/ KillSelf
  <2>1. CASE Exit
    BY <1>4, <2>1 DEF Exit
  <2>2. CASE Fault
    BY <1>4, <2>2 DEF Fault
  <2>3. CASE KillSelf
    BY <1>4, <2>3 DEF KillSelf
  <2>4. QED BY <1>5, <2>1, <2>2, <2>3
<1>6. ASSUME NEW pid \in Pid, KillOther(pid) PROVE Reports'
  <2>1. /\ exit_code' = [exit_code EXCEPT ![pid] = -1]
        /\ cause' = [cause EXCEPT ![pid] = "kill"]
        /\ ppid' = ppid /\ parent' = parent /\ reply' = NoReply
        /\ \A c \in Pid \ {pid} : state'[c] = state[c]
    BY <1>0, <1>6 DEF KillOther, treeVars
  <2>2. PpidIsParent' /\ CodeTellsCause'
    BY <1>0, <2>1 DEF Reports, PpidIsParent, CodeTellsCause
  <2>3. QED BY <1>q, <2>1, <2>2 DEF Reports
<1>7. ASSUME \/ \E pid \in Pid : KillRefused(pid)
             \/ \E a \in PidArgs, b \in BOOLEAN : Waitpid(a, b)
             \/ ForkFails
      PROVE  Reports'
  <2>1. /\ ppid' = ppid /\ parent' = parent /\ state' = state /\ exit_code' = exit_code
        /\ cause' = cause /\ reply' = NoReply
    BY <1>7 DEF KillRefused, Waitpid, ForkFails, treeVars
  <2>2. QED BY <1>q, <2>1 DEF Reports, PpidIsParent, CodeTellsCause
<1>8. CASE Fork
  <2>1. /\ next_pid \in Pid
        /\ ppid' = [ppid EXCEPT ![next_pid] = current]
        /\ parent' = [parent EXCEPT ![next_pid] = current]
        /\ state' = [state EXCEPT ![next_pid] = "READY"]
        /\ exit_code' = exit_code /\ cause' = cause /\ reply' = NoReply
    BY <1>8, SchedAssumption DEF Fork, IInv, Fields, Pid
  <2>2. PpidIsParent' /\ CodeTellsCause'
    BY <1>0, <2>1 DEF Reports, PpidIsParent, CodeTellsCause, Corpse
  <2>3. QED BY SMTT(60), <1>q, <2>1, <2>2 DEF Reports
<1>9. CASE WaitCollects
  <2>1. PICK c \in DOMAIN dead_list :
          /\ state' = [state EXCEPT ![c] = "FREED"]
          /\ WaitReturns(c, Status(exit_code[c]))
    BY Zenon, <1>9 DEF WaitCollects
  <2>2. c \in Pid /\ state[c] \in Corpse /\ c # Idle
    BY SchedAssumption DEF IInv, Core, DeadType, ListsMatchStates, CurrentRuns, Corpse, Idle, Pid
  <2>3. /\ ppid' = ppid /\ parent' = parent /\ exit_code' = exit_code /\ cause' = cause
        /\ reply'.ret = c /\ reply'.status = Status(exit_code[c])
    BY ZenonT(60), <2>1 DEF WaitReturns, treeVars
  <2>4. PpidIsParent' /\ CodeTellsCause'
    BY <1>0, <2>1, <2>2, <2>3 DEF Reports, PpidIsParent, CodeTellsCause, Corpse
  <2>5. NohangMeansAlive'
    BY <2>2, <2>3 DEF NohangMeansAlive, Idle
  <2>6. StatusTellsCause'
    <3>1. exit_code[c] < 0 <=> cause[c] \in {"kill", "fault"}
      BY <2>2 DEF Reports, CodeTellsCause
    <3>2. Status(exit_code[c]) = 128 + 11 <=> exit_code[c] < 0
      BY <1>0, <2>2, StatusSigned
    <3>3. QED BY <2>3, <3>1, <3>2 DEF StatusTellsCause
  <2>7. QED BY SMTT(60), <2>4, <2>5, <2>6 DEF Reports
<1>10. CASE WaitEchild
  <2>1. /\ ppid' = ppid /\ parent' = parent /\ state' = state /\ exit_code' = exit_code
        /\ cause' = cause /\ reply'.ret = -1
    BY <1>10 DEF WaitEchild, WaitReturns, treeVars
  <2>2. QED BY <2>1 DEF Reports, PpidIsParent, CodeTellsCause, NohangMeansAlive, StatusTellsCause
<1>11. CASE WaitNohang
  <2>1. /\ ppid' = ppid /\ parent' = parent /\ state' = state /\ exit_code' = exit_code
        /\ cause' = cause
        /\ reply'.by = current /\ reply'.arg = wait_arg[current][1] /\ reply'.ret = 0
    BY <1>11 DEF WaitNohang, WaitReturns, treeVars
  <2>2. PICK c \in DOMAIN next : Matches(current, c)
    BY <1>11 DEF WaitNohang, NoMatchingCorpse, has_matching_child
  <2>3. c \in Pid /\ state[c] \in Live
    BY DEF IInv, Core, ListsMatchStates
  <2>4. current # 0
    BY <1>0, <1>11 DEF WaitNohang, Idle
  <2>5. parent[c] = current
    BY SMTT(60), <2>2, <2>3, <2>4 DEF Matches, Reports, PpidIsParent
  <2>6. NohangMeansAlive'
    BY <2>1, <2>2, <2>3, <2>5 DEF NohangMeansAlive, Matches
  <2>7. QED BY <2>1, <2>6 DEF Reports, PpidIsParent, CodeTellsCause, StatusTellsCause
<1>12. CASE UNCHANGED vars
  BY <1>12 DEF vars, Reports, PpidIsParent, CodeTellsCause, NohangMeansAlive, StatusTellsCause
<1>13. QED
  BY <1>1, <1>2, <1>3, <1>5, <1>6, <1>7, <1>8, <1>9, <1>10, <1>11, <1>12
     DEF Next, Faultless, Syscall, KernelSleeps, sched_waitpid

\* waitpid tells the truth for any number of tasks, as long as programs exit with
\* codes that are not negative: ECHILD, a child still running, and how a child died.
THEOREM WaitIsTruthful ==
  ASSUME ExitCodes \subseteq Nat
  PROVE  Spec => []WaitTellsTruth
<1>1. IInv /\ Reports /\ [Next]_vars => IInv' /\ Reports'
  BY NextIInv, NextReports
<1>2. IInv /\ Reports => WaitTellsTruth
  BY DEF IInv, Reports, WaitTellsTruth
<1>3. QED BY <1>1, <1>2, InitIInv, InitReports, PTL DEF Spec

\* The lists, the states of the tasks and the CPU agree for any number of tasks.
THEOREM QueueIsSound == Spec => []QueueSound
  BY TypeCorrect, NoFreedTaskLinked, OneTaskRuns, PTL DEF QueueSound

============================================================================
