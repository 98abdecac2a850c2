------------------------------ MODULE MCSched ------------------------------
(* Instances of Sched for TLC.  The exit code is wider than 8 bits.        *)
EXTENDS Sched

OneCode == {299}
Short == {5}
Sleeps == {5, 20}
AnyChild == {-1}
AnyOrThird == {-1, 3}

\* What later steps depend on: the fields of a freed task_t are dead, the list
\* order matters but not the numbers that represent it, and how a context was
\* saved matters only for a task that is switched out in the kernel.
View ==
  LET gone(p) == state[p] = "FREED"
  IN  <<next, current, state, next_pid, masked, reply,
        {e \in (DOMAIN dead_list) \X (DOMAIN dead_list) : Ahead(e[1], e[2])},
        [p \in Pid |-> IF gone(p) THEN 0
                       ELSE <<ppid[p], exit_code[p], sleep_until[p], at[p], wait_arg[p],
                              parent[p], cause[p], p # current /\ at[p] # "user" /\ inherits[p]>>]>>
============================================================================
