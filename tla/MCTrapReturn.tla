--------------------------- MODULE MCTrapReturn ---------------------------
(* Instances of TrapReturn for TLC: two boot tasks and a forked one.       *)
EXTENDS TrapReturn

CONSTANTS ta, tb, tc
Tasks == {ta, tb, tc}
BootTasks == {ta, tb}
Symmetric == {[t \in Tasks |-> t], [t \in Tasks |-> IF t = ta THEN tb ELSE IF t = tb THEN ta ELSE tc]}
\* The trampoline has a window of its own; leave it out to see the syscall's.
Trampoline == {"tramp_eret"}
============================================================================
