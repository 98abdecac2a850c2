------------------------------- MODULE Sched -------------------------------
(***************************************************************************)
(* The process core of the kernel: the run queue, schedule(), exit, kill,  *)
(* sleep, fork's scheduler half, waitpid, the reaper, and the timer IRQ    *)
(* that drives preemption (sched/sched.c, exception/timer/timer.c).        *)
(*                                                                         *)
(* Granularity: one action per C function.  A timer IRQ lands between      *)
(* actions; IRQs that land inside schedule() are the subject of another    *)
(* module.  A task blocked in waitpid() is in a loop in the kernel, and    *)
(* each iteration is an action, so IRQs do land between iterations.        *)
(*                                                                         *)
(* context_switch() saves no PSTATE.  A task that gave the CPU up by       *)
(* calling schedule() resumes with the IRQ mask of whoever switched to it; *)
(* one that was preempted resumes through eret, which restores its own.    *)
(* The variables masked and inherits carry that.                           *)
(***************************************************************************)
EXTENDS Integers, FiniteSets

CONSTANTS NUser,      \* tasks kernel_main starts with sched_create_task
          NKernel,    \* tasks it starts with sched_create_kernel_task (netd)
          MaxPid,     \* bound on the pids handed out
          PidArgs,    \* the pid arguments of waitpid that are explored
          ExitCodes,  \* the arguments of SYS_EXIT that are explored
          Millis      \* the arguments of sleep_ms that are explored

ASSUME SchedAssumption ==
  /\ NUser \in Nat /\ NKernel \in Nat /\ MaxPid \in Nat
  /\ NUser + NKernel <= MaxPid
  /\ PidArgs \subseteq 0..MaxPid \cup {-1}
  /\ ExitCodes \subseteq Int
  /\ Millis \subseteq Nat

Idle == 0
Pid == 0..MaxPid
NoPid == -1              \* an argument or result of -1
KTask == NUser+1 .. NUser+NKernel
Boot == 1 .. NUser+NKernel

TIMER_INTERVAL_MS == 10

VARIABLES
  next,         \* task_t.next on the run queue; its DOMAIN is the run queue
  current,
  state,        \* task_t.state, or NONE before kmalloc and FREED after kfree
  ppid,
  exit_code,
  sleep_until,  \* ticks that remain until task_t.sleep_until
  next_pid,
  dead_list,    \* members of the list; the larger the value the nearer the head
  deaths,       \* how many tasks were ever pushed on dead_list
  masked,       \* PSTATE.I of the CPU
  inherits,     \* the saved context is a call of schedule(), not an IRQ frame
  at,           \* where the task executes: user code, kernel code, waitpid's loop
  wait_arg,     \* <<pid_arg, options & WNOHANG>> of the waitpid in progress
  reply,        \* what waitpid handed to user code, if the last step was its return
  parent,       \* auxiliary: the task that forked this one, never cleared
  cause         \* auxiliary: how the task died

vars == <<next, current, state, ppid, exit_code, sleep_until, next_pid, dead_list,
          deaths, masked, inherits, at, wait_arg, reply, parent, cause>>

\* What only fork, waitpid and the death of a task touch.
treeVars == <<next_pid, parent>>

Live == {"READY", "RUNNING", "SLEEPING"}
Corpse == {"DEAD", "ZOMBIE"}
NoReply == [by |-> Idle, arg |-> NoPid, ret |-> 0, status |-> 0]

----------------------------------------------------------------------------
(* The circular run queue.                                                 *)

\* hop(k): the task k links after t.
Hop(t) == LET hop[k \in 0..MaxPid+1] == IF k = 0 THEN t ELSE next[hop[k-1]]
          IN  hop

\* Mutant: the new task points into the ring but nothing points to it.
LinkedHalf(t) == [p \in DOMAIN next \cup {t} |-> IF p = t THEN current ELSE next[p]]

\* Link t in just before the current task.
Linked(t) == [p \in DOMAIN next \cup {t} |->
               IF p = t THEN current ELSE IF next[p] = current THEN t ELSE next[p]]

Unlinked(t) == [p \in DOMAIN next \ {t} |->
                 IF next[p] = t THEN next[t] ELSE next[p]]

\* Push t on the head of the list dl.
Pushed(t, dl) == [p \in DOMAIN dl \cup {t} |-> IF p = t THEN deaths + 1 ELSE dl[p]]

----------------------------------------------------------------------------
(* sched_reap() makes one pass from the head.  F is the set of corpses it  *)
(* frees: those without a parent, and those orphaned earlier in the same   *)
(* pass.  sched_orphan_children() walks the list from dead_list, which the *)
(* pass has reset to empty: the walk starts at the first survivor met so   *)
(* far, if there is one, and follows the stale links through every corpse  *)
(* that is still to be visited.                                            *)

Ahead(c, d) == dead_list[c] > dead_list[d]

ReachedFrom(F, c) == \E s \in DOMAIN dead_list \ F : Ahead(s, c)

\* Mutant: the pass does not look at ppid.
sched_reap_all(F) == F = DOMAIN dead_list

\* Mutant: the pass ends at the first zombie.
sched_reap_stops(F) ==
  F = {c \in DOMAIN dead_list : ppid[c] = 0 /\ ~ReachedFrom(F, c)}

sched_reap(F) ==
  F = {c \in DOMAIN dead_list :
        \/ ppid[c] = 0
        \/ /\ ppid[c] \in F
           /\ Ahead(ppid[c], c)
           /\ ReachedFrom(F, ppid[c])}

\* The children that sched_orphan_children() reaches, for the parents in F.
sched_orphan_children(F) ==
  [p \in Pid |->
    IF /\ ppid[p] \in F
       /\ \/ p \in DOMAIN next
          \/ p \in DOMAIN dead_list /\ (p \in F \/ Ahead(p, ppid[p]))
    THEN 0 ELSE ppid[p]]

Without(F, dl) == [p \in DOMAIN dl \ F |-> dl[p]]

----------------------------------------------------------------------------
(* schedule().  st is the state of the tasks when it is called, how says   *)
(* whether the caller is the IRQ handler or calls it as a function, m is   *)
(* the IRQ mask of the caller.                                             *)

Ready(st, p) == p # Idle /\ st[p] = "READY"

\* Mutant: every scan starts at idle instead of after current.
FirstReadyFromIdle(st, n) ==
  \E k \in 1..MaxPid+1 :
    /\ Hop(Idle)[k] = n
    /\ n # current /\ Ready(st, n)
    /\ \A j \in 1..k-1 : Hop(Idle)[j] = current \/ ~Ready(st, Hop(Idle)[j])

\* The first READY task after current, idle excepted.
FirstReady(st, n) ==
  \E k \in 1..MaxPid+1 :
    /\ Hop(current)[k] = n
    /\ n # current /\ Ready(st, n)
    /\ \A j \in 1..k-1 : Hop(current)[j] # current /\ ~Ready(st, Hop(current)[j])

NobodyReady(st) == \A p \in DOMAIN next \ {current} : ~Ready(st, p)

\* The mask n resumes with: a context saved by a call of schedule() returns
\* into the kernel with the mask of the CPU; any other ends in an eret.
context_switch(n, how, m) ==
  /\ current' = n
  /\ inherits' = [inherits EXCEPT ![current] = (how = "call")]
  /\ masked' = (at[n] \in {"kernel", "wait"} /\ inherits[n] /\ m)

SwitchTo(n, st, F, how, m) ==
  LET pp   == sched_orphan_children(F)
      dies == st[current] = "DEAD"
  IN  /\ state' = [p \in Pid |->
                    IF p = n THEN "RUNNING"
                    ELSE IF p \in F THEN "FREED"
                    ELSE IF p # current THEN st[p]
                    ELSE IF st[p] = "RUNNING" THEN "READY"
                    ELSE IF dies /\ pp[p] # 0 THEN "ZOMBIE"
                    ELSE st[p]]
      /\ next' = IF dies THEN Unlinked(current) ELSE next
      /\ dead_list' = IF dies THEN Pushed(current, Without(F, dead_list))
                              ELSE Without(F, dead_list)
      /\ deaths' = IF dies THEN deaths + 1 ELSE deaths
      /\ ppid' = pp
      /\ context_switch(n, how, m)

NoSwitch(st, F, how, m) ==
  /\ state' = [p \in Pid |-> IF p \in F THEN "FREED" ELSE st[p]]
  /\ dead_list' = Without(F, dead_list)
  /\ ppid' = sched_orphan_children(F)
  /\ masked' = (how = "call" /\ m)
  /\ UNCHANGED <<next, current, deaths, inherits>>

schedule(st, how, m) ==
  LET fallback == current # Idle /\ st[Idle] = "READY"
  IN  \E F \in SUBSET DOMAIN dead_list :
        /\ sched_reap(F)
        /\ \/ \E n \in DOMAIN next : FirstReady(st, n) /\ SwitchTo(n, st, F, how, m)
           \/ /\ NobodyReady(st)
              /\ ~fallback \/ st[current] = "RUNNING"
              /\ NoSwitch(st, F, how, m)
           \/ /\ NobodyReady(st)
              /\ fallback /\ st[current] # "RUNNING"
              /\ SwitchTo(Idle, st, F, how, m)

----------------------------------------------------------------------------
(* The timer IRQ: exception_dispatch, timer_handle_irq, sched_wake_sleepers *)
(* and the schedule() at the end of the IRQ path.                          *)

Expired(p) == state[p] = "SLEEPING" /\ sleep_until[p] <= 1

TimerIRQ ==
  /\ ~masked
  /\ sleep_until' = [p \in Pid |-> IF state[p] = "SLEEPING" THEN sleep_until[p] - 1 ELSE 0]
  /\ schedule([p \in Pid |-> IF p \in DOMAIN next /\ Expired(p) THEN "READY" ELSE state[p]],
              "irq", TRUE)
  /\ reply' = NoReply
  /\ UNCHANGED <<exit_code, at, wait_arg, cause, treeVars>>

----------------------------------------------------------------------------
(* Syscalls of the current user task.  syscall_dispatch unmasks IRQs.      *)

InUser == at[current] = "user"

Yield ==
  /\ InUser
  /\ schedule(state, "call", FALSE)
  /\ reply' = NoReply
  /\ UNCHANGED <<exit_code, sleep_until, at, wait_arg, cause, treeVars>>

\* ms / TIMER_INTERVAL_MS ticks, and at least one.
TicksNeeded(ms) == IF ms \div TIMER_INTERVAL_MS = 0 THEN 1 ELSE ms \div TIMER_INTERVAL_MS

\* sleep_ms(), from a syscall or called directly by a kernel task.
sleep_ms(ms) ==
  /\ at[current] \in {"user", "kernel"}
  /\ sleep_until' = [sleep_until EXCEPT ![current] = TicksNeeded(ms)]
  /\ schedule([state EXCEPT ![current] = "SLEEPING"], "call",
              at[current] = "kernel" /\ masked)
  /\ reply' = NoReply
  /\ UNCHANGED <<exit_code, at, wait_arg, cause, treeVars>>

\* task_exit(code); why is "exit", "self" (a task that kills itself) or "fault".  A fault is taken with
\* IRQs masked and the handler never unmasks them.
task_exit(code, why) ==
  /\ InUser
  /\ exit_code' = [exit_code EXCEPT ![current] = code]
  /\ cause' = [cause EXCEPT ![current] = why]
  /\ schedule([state EXCEPT ![current] = "DEAD"], "call", why = "fault")
  /\ reply' = NoReply
  /\ UNCHANGED <<sleep_until, at, wait_arg, treeVars>>

Exit == \E code \in ExitCodes : task_exit(code, "exit")
Fault == task_exit(-1, "fault")
KillSelf == task_exit(0, "self")

\* Mutant: the victim stays linked on the run queue.
KillOtherLinked(pid) ==
  /\ InUser
  /\ pid \in DOMAIN next \ {Idle, current}
  /\ dead_list' = Pushed(pid, dead_list)
  /\ deaths' = deaths + 1
  /\ state' = [state EXCEPT ![pid] = IF ppid[pid] # 0 THEN "ZOMBIE" ELSE "DEAD"]
  /\ exit_code' = [exit_code EXCEPT ![pid] = -1]
  /\ cause' = [cause EXCEPT ![pid] = "kill"]
  /\ reply' = NoReply
  /\ UNCHANGED <<next, current, ppid, sleep_until, masked, inherits, at, wait_arg, treeVars>>

\* sched_kill_task of another task on the run queue.
KillOther(pid) ==
  /\ InUser
  /\ pid \in DOMAIN next \ {Idle, current}
  /\ next' = Unlinked(pid)
  /\ dead_list' = Pushed(pid, dead_list)
  /\ deaths' = deaths + 1
  /\ state' = [state EXCEPT ![pid] = IF ppid[pid] # 0 THEN "ZOMBIE" ELSE "DEAD"]
  /\ exit_code' = [exit_code EXCEPT ![pid] = -1]
  /\ cause' = [cause EXCEPT ![pid] = "kill"]
  /\ reply' = NoReply
  /\ UNCHANGED <<current, ppid, sleep_until, masked, inherits, at, wait_arg, treeVars>>

\* sched_kill_task of idle, or of a pid that is not on the run queue.
KillRefused(pid) ==
  /\ InUser
  /\ pid = Idle \/ pid \notin DOMAIN next
  /\ reply' = NoReply
  /\ UNCHANGED <<next, current, state, ppid, exit_code, sleep_until, dead_list, deaths,
                 masked, inherits, at, wait_arg, cause, treeVars>>

\* sched_fork, as far as the scheduler sees it: the child is READY, just
\* before its parent on the run queue, and will enter EL0 through fork_return.
Fork ==
  /\ InUser
  /\ next_pid <= MaxPid
  /\ next' = Linked(next_pid)
  /\ state' = [state EXCEPT ![next_pid] = "READY"]
  /\ ppid' = [ppid EXCEPT ![next_pid] = current]
  /\ parent' = [parent EXCEPT ![next_pid] = current]
  /\ at' = [at EXCEPT ![next_pid] = "user"]
  /\ next_pid' = next_pid + 1
  /\ reply' = NoReply
  /\ UNCHANGED <<current, exit_code, sleep_until, dead_list, deaths, masked, inherits,
                 wait_arg, cause>>

\* fd_table_clone() is out of memory: the pid drawn before it is not reused.
ForkFails ==
  /\ InUser
  /\ next_pid <= MaxPid
  /\ next_pid' = next_pid + 1
  /\ reply' = NoReply
  /\ UNCHANGED <<next, current, state, ppid, exit_code, sleep_until, dead_list, deaths,
                 masked, inherits, at, wait_arg, parent, cause>>

----------------------------------------------------------------------------
(* sched_waitpid.                                                          *)

Matches(p, c) == /\ ppid[c] = p
                 /\ wait_arg[p][1] \in {NoPid, c}

\* The status word: the signalled encoding for a negative exit code.
Status(code) == IF code < 0 THEN 128 + 11 ELSE (code % 256) * 256

\* Mutant: only dead children count.
has_dead_child(p) == \E c \in DOMAIN dead_list : Matches(p, c)

has_matching_child(p) ==
  \/ \E c \in DOMAIN next \ {p} : Matches(p, c)
  \/ \E c \in DOMAIN dead_list : Matches(p, c)

\* SYS_WAITPID up to the loop.
Waitpid(pid_arg, nohang) ==
  /\ InUser
  /\ at' = [at EXCEPT ![current] = "wait"]
  /\ wait_arg' = [wait_arg EXCEPT ![current] = <<pid_arg, nohang>>]
  /\ reply' = NoReply
  /\ UNCHANGED <<next, current, state, ppid, exit_code, sleep_until, dead_list, deaths,
                 masked, inherits, cause, treeVars>>

\* Leave the loop, and the kernel, with ret and the status word.
WaitReturns(ret, status) ==
  /\ at' = [at EXCEPT ![current] = "user"]
  /\ wait_arg' = [wait_arg EXCEPT ![current] = <<NoPid, FALSE>>]
  /\ masked' = FALSE
  /\ reply' = [by |-> current, arg |-> wait_arg[current][1], ret |-> ret, status |-> status]
  /\ UNCHANGED <<next, current, ppid, exit_code, sleep_until, deaths, inherits, cause,
                 treeVars>>

\* Mutant: a zombie is not recognised as an exited child.
WaitCollectsDead ==
  /\ at[current] = "wait"
  /\ \E c \in DOMAIN dead_list :
       /\ Matches(current, c)
       /\ state[c] = "DEAD"
       /\ dead_list' = Without({c}, dead_list)
       /\ state' = [state EXCEPT ![c] = "FREED"]
       /\ WaitReturns(c, Status(exit_code[c]))

\* The first matching corpse from the head of dead_list is unlinked and freed.
WaitCollects ==
  /\ at[current] = "wait"
  /\ \E c \in DOMAIN dead_list :
       /\ Matches(current, c)
       /\ \A d \in DOMAIN dead_list : Matches(current, d) => ~Ahead(d, c)
       /\ dead_list' = Without({c}, dead_list)
       /\ state' = [state EXCEPT ![c] = "FREED"]
       /\ WaitReturns(c, Status(exit_code[c]))

NoMatchingCorpse == \A c \in DOMAIN dead_list : ~Matches(current, c)

WaitEchild ==
  /\ at[current] = "wait"
  /\ NoMatchingCorpse
  /\ ~has_matching_child(current)
  /\ WaitReturns(-1, 0)
  /\ UNCHANGED <<dead_list, state>>

WaitNohang ==
  /\ at[current] = "wait"
  /\ NoMatchingCorpse
  /\ has_matching_child(current)
  /\ wait_arg[current][2]
  /\ WaitReturns(0, 0)
  /\ UNCHANGED <<dead_list, state>>

WaitYields ==
  /\ at[current] = "wait"
  /\ NoMatchingCorpse
  /\ has_matching_child(current)
  /\ ~wait_arg[current][2]
  /\ schedule(state, "call", masked)
  /\ reply' = NoReply
  /\ UNCHANGED <<exit_code, sleep_until, at, wait_arg, cause, treeVars>>

sched_waitpid == WaitCollects \/ WaitEchild \/ WaitNohang \/ WaitYields

----------------------------------------------------------------------------
(* kernel_main up to its wfi loop: idle is pid 0 and current, every boot   *)
(* task is linked in before it, in order of creation.                      *)

Init ==
  /\ next = [p \in Boot \cup {Idle} |-> IF p = NUser + NKernel THEN Idle ELSE p + 1]
  /\ current = Idle
  /\ state = [p \in Pid |-> IF p \in Boot \cup {Idle} THEN "READY" ELSE "NONE"]
  /\ ppid = [p \in Pid |-> 0]
  /\ exit_code = [p \in Pid |-> 0]
  /\ sleep_until = [p \in Pid |-> 0]
  /\ next_pid = NUser + NKernel + 1
  /\ dead_list = [p \in {} |-> 0]
  /\ deaths = 0
  /\ masked = FALSE
  /\ inherits = [p \in Pid |-> FALSE]
  /\ at = [p \in Pid |-> IF p = Idle THEN "idle" ELSE IF p \in KTask THEN "kernel" ELSE "user"]
  /\ wait_arg = [p \in Pid |-> <<NoPid, FALSE>>]
  /\ reply = NoReply
  /\ parent = [p \in Pid |-> 0]
  /\ cause = [p \in Pid |-> "none"]

Syscall ==
  \/ Yield
  \/ \E ms \in Millis : InUser /\ sleep_ms(ms)
  \/ Exit \/ KillSelf
  \/ \E pid \in Pid : KillOther(pid) \/ KillRefused(pid)
  \/ Fork \/ ForkFails
  \/ \E pid_arg \in PidArgs, nohang \in BOOLEAN : Waitpid(pid_arg, nohang)

\* netd: work that leaves the scheduler alone, then sleep_ms.
KernelSleeps == \E ms \in Millis : at[current] = "kernel" /\ sleep_ms(ms)

\* What happens as long as no program takes a fatal fault.
Faultless == TimerIRQ \/ Syscall \/ sched_waitpid \/ KernelSleeps

Next == Faultless \/ Fault

Spec == Init /\ [][Next]_vars

\* A level-triggered timer interrupt is taken at the first unmasked instruction.
\* An iteration of waitpid's loop is a walk of two lists, and netd's work between
\* two sleeps a bounded number of polls, so a task that keeps being scheduled
\* there, for however short a slice, gets through it.
Fairness ==
  /\ SF_vars(TimerIRQ)
  /\ \A p \in Pid : SF_vars(current = p /\ sched_waitpid)
  /\ \A p \in Pid : SF_vars(current = p /\ KernelSleeps)

FairSpec == Spec /\ Fairness
FaultlessSpec == Init /\ [][Faultless]_vars /\ Fairness

----------------------------------------------------------------------------
(* Properties.                                                             *)

\* sched.c: the ring's links stay inside the ring, and every field of a task keeps its type.
TypeOK ==
  /\ DOMAIN next \subseteq Pid /\ next \in [DOMAIN next -> DOMAIN next]
  /\ current \in Pid
  /\ state \in [Pid -> Live \cup Corpse \cup {"NONE", "FREED"}]
  /\ ppid \in [Pid -> Pid]
  /\ exit_code \in [Pid -> Int]
  /\ sleep_until \in [Pid -> Nat]
  /\ next_pid \in 1..MaxPid+1
  /\ deaths \in Nat
  /\ DOMAIN dead_list \subseteq Pid /\ dead_list \in [DOMAIN dead_list -> 1..deaths]
  /\ masked \in BOOLEAN
  /\ inherits \in [Pid -> BOOLEAN]
  /\ at \in [Pid -> {"idle", "user", "kernel", "wait"}]
  /\ wait_arg \in [Pid -> (Pid \cup {NoPid}) \X BOOLEAN]
  /\ reply \in [by : Pid, arg : Pid \cup {NoPid}, ret : Pid \cup {NoPid}, status : Int]
  /\ parent \in [Pid -> Pid]
  /\ cause \in [Pid -> {"none", "exit", "self", "kill", "fault"}]

\* The run queue holds the live tasks, dead_list the corpses, and a task that
\* was freed is linked on neither: no walk of either list, and no switch,
\* reaches a task_t after kfree() (sched_kill_task, schedule, sched_free_task).
ListsMatchStates ==
  /\ DOMAIN next = {p \in Pid : state[p] \in Live}
  /\ DOMAIN dead_list = {p \in Pid : state[p] \in Corpse}

\* The links form one cycle through idle: every walk that starts at
\* sched_first_task() sees every live task and comes back.
RingIsOneCycle ==
  DOMAIN next = {Hop(Idle)[k] : k \in 0..MaxPid+1}

\* The CPU runs one live task, and only it is RUNNING; whenever idle is not
\* running it is READY, so a task that dies or sleeps always leaves the CPU.
CurrentRuns ==
  /\ current \in DOMAIN next
  /\ \A p \in Pid : state[p] = "RUNNING" => p = current
  /\ state[current] = "RUNNING" \/ current = Idle
  /\ state[Idle] \in {"READY", "RUNNING"}

\* A corpse whose parent has not collected it is a zombie: only a waitpid of
\* that parent removes it from dead_list, never the reaper, unless the parent
\* itself was freed and the corpse was orphaned.
ZombieHeld ==
  [][\A c \in DOMAIN dead_list \ DOMAIN dead_list' :
       \/ ppid[c] = 0
       \/ state'[ppid[c]] = "FREED"
       \/ /\ reply'.by = ppid[c] /\ reply'.ret = c
          /\ reply'.status = Status(exit_code[c])]_vars

\* waitpid fails with ECHILD only when the caller has no child left that
\* matches: every child it ever forked was collected (has_matching_child).
EchildMeansNoChild ==
  reply.ret = -1 =>
    \A c \in Pid : (parent[c] = reply.by /\ reply.arg \in {NoPid, c}) => state[c] = "FREED"

\* WNOHANG returns 0 only to a caller with a matching child that is alive.
NohangMeansAlive ==
  (reply.by # Idle /\ reply.ret = 0) =>
    \E c \in Pid : parent[c] = reply.by /\ reply.arg \in {NoPid, c} /\ state[c] \in Live

\* How many links current is away from p.
Distance(p) == CHOOSE k \in 0..MaxPid+1 :
                 Hop(current)[k] = p /\ \A j \in 0..k-1 : Hop(current)[j] # p

\* Round robin: while a task is READY the CPU moves towards it with every
\* switch, and no fork, exit or kill moves it away.  It is overtaken at most once
\* by each task ahead of it, and by no child forked while it waits.
RoundRobin ==
  [][\A p \in Pid \ {Idle} :
       (state[p] = "READY" /\ state'[p] = "READY") =>
         /\ Distance(p)' <= Distance(p)
         /\ current' # current => Distance(p)' < Distance(p)]_vars

\* A READY task runs again, or is killed.
ReadyRuns == \A p \in Pid \ {Idle} : state[p] = "READY" ~> state[p] # "READY"

\* A sleeping task wakes, or is killed (sched_wake_sleepers).
SleepersWake == \A p \in Pid : state[p] = "SLEEPING" ~> state[p] # "SLEEPING"

\* Whoever waits for a child that has died gets out of waitpid.
WaiterCollects ==
  \A p, c \in Pid :
    (at[p] = "wait" /\ state[c] = "ZOMBIE" /\ Matches(p, c)) ~> (at[p] # "wait" \/ state[p] \notin Live)

\* A corpse without a parent is freed by some later schedule().
OrphansReaped == \A p \in Pid : state[p] = "DEAD" ~> state[p] = "FREED"

\* No zombie outlives its parent: when a task is freed its children are
\* detached, so that each can be collected or is reaped.
NoStrandedZombie ==
  \A c \in Pid : state[c] = "ZOMBIE" => state[ppid[c]] # "FREED"

\* waitpid tells a parent how its child died, however long the corpse waited and
\* whatever else died meanwhile: the signalled status for a fault or a kill by
\* another task, the exited status for exit with a code that is not negative
\* and for a task that kills itself (sched.c:892, 917, 1092-1101).
StatusTellsCause ==
  reply.ret > 0 =>
    (reply.status = 128 + 11 <=> cause[reply.ret] \in {"kill", "fault"})

\* The scheduler's lists, the states of the tasks and the CPU agree after any calls and ticks
\* (sched.c:787-865).
QueueSound == TypeOK /\ ListsMatchStates /\ CurrentRuns

\* What waitpid reports is true when it returns: ECHILD, a child still alive, or how a child
\* died (sched.c:1070-1130).
WaitTellsTruth == EchildMeansNoChild /\ NohangMeansAlive /\ StatusTellsCause

\* No task is forgotten by the scheduler, ready or asleep.
EveryoneRuns == ReadyRuns /\ SleepersWake
============================================================================
