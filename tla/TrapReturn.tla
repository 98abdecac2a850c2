---------------------------- MODULE TrapReturn ----------------------------
(***************************************************************************)
(* Exception entry and return at the granularity at which an IRQ can land: *)
(* vector.S, the trampolines and context_switch of switch.S, and the parts *)
(* of exception_dispatch, syscall_dispatch and sched_fork that decide the  *)
(* IRQ mask, the saved frame and the task that runs next.                  *)
(*                                                                         *)
(* A task's pc is "user" (EL0), "svc" or "irq" (the C handler of a syscall *)
(* or of an IRQ), or a point of a return sequence:                         *)
(*   ret_elr  ret_spsr  ret_regs  eret       the tail of exception_common   *)
(*   fork_elr fork_spsr fork_regs fork_eret  fork_return                    *)
(*   tramp    tramp_elr tramp_eret           task_trampoline                *)
(* named after what comes next.  Any EL1 point can be interrupted while     *)
(* IRQs are unmasked, and syscall_dispatch never masks them again.          *)
(***************************************************************************)
EXTENDS Integers, Sequences, FiniteSets

CONSTANTS Task,        \* the tasks
          Boot,        \* those that start in task_trampoline; the others are forked
          QuietAt,     \* points at which the timer is assumed not to fire
          MaxDepth     \* bound on nested trap frames

ASSUME TrapAssumption ==
  /\ Boot \subseteq Task /\ Boot # {}
  /\ MaxDepth \in Nat \ {0}

FRAME_SIZE == 688
FORK_FRAME == 288      \* what fork_return takes off the stack

EretAt == {"eret", "fork_eret", "tramp_eret"}
Points == {"user", "svc", "irq", "ret_elr", "ret_spsr", "ret_regs", "fork_elr",
           "fork_spsr", "fork_regs", "tramp", "tramp_elr"} \cup EretAt

\* From the write of ELR_EL1 to the eret.
Windows == {"ret_spsr", "ret_regs", "fork_spsr", "fork_regs"} \cup EretAt

Kernel == "kernel"     \* what C code leaves in the FP registers

VARIABLES
  cur,       \* the task on the CPU
  pc,        \* where each task is, or "none"
  masked,    \* PSTATE.I
  elr, spsr, \* ELR_EL1 and the mask bit of SPSR_EL1
  fp,        \* whose values the caller-clobbered FP registers hold
  frames,    \* the trap frames on each kernel stack, the innermost first
  used,      \* bytes of each kernel stack in use at exception level
  pending,   \* auxiliary: the points interrupted, and their masks, not yet resumed
  user_fp    \* auxiliary: the FP values the task last had in user code

trapvars == <<cur, pc, masked, elr, spsr, fp, frames, used, pending, user_fp>>

Goto(p) == pc' = [pc EXCEPT ![cur] = p]
At(p) == pc[cur] = p
Frame == Head(frames[cur])

----------------------------------------------------------------------------
(* Exception entry: the CPU sets ELR_EL1 and SPSR_EL1 and masks IRQs, the  *)
(* vector saves them and the FP registers in a frame.                      *)

\* Mutant: the frame is filled from ELR_EL1 as the previous exception left it.
EnterStale(handler, m) ==
  /\ elr' = pc[cur] /\ spsr' = masked
  /\ frames' = [frames EXCEPT ![cur] = <<[elr |-> elr, spsr |-> masked, fp |-> fp]>> \o @]
  /\ used' = [used EXCEPT ![cur] = @ + FRAME_SIZE]
  /\ pending' = [pending EXCEPT ![cur] = <<<<pc[cur], masked>>>> \o @]
  /\ user_fp' = IF At("user") THEN [user_fp EXCEPT ![cur] = fp] ELSE user_fp
  /\ fp' = Kernel
  /\ masked' = m
  /\ Goto(handler)
  /\ UNCHANGED cur

Enter(handler, m) ==
  /\ elr' = pc[cur] /\ spsr' = masked
  /\ frames' = [frames EXCEPT ![cur] = <<[elr |-> pc[cur], spsr |-> masked, fp |-> fp]>> \o @]
  /\ used' = [used EXCEPT ![cur] = @ + FRAME_SIZE]
  /\ pending' = [pending EXCEPT ![cur] = <<<<pc[cur], masked>>>> \o @]
  /\ user_fp' = IF At("user") THEN [user_fp EXCEPT ![cur] = fp] ELSE user_fp
  /\ fp' = Kernel
  /\ masked' = m
  /\ Goto(handler)
  /\ UNCHANGED cur

IRQ ==
  /\ ~masked
  /\ pc[cur] \notin QuietAt
  /\ Len(frames[cur]) < MaxDepth
  /\ Enter("irq", TRUE)

\* syscall_dispatch unmasks IRQs first thing.
SVC ==
  /\ At("user")
  /\ Len(frames[cur]) < MaxDepth
  /\ Enter("svc", FALSE)

\* User code computes with the FP registers.
Compute ==
  /\ At("user")
  /\ fp' = cur
  /\ UNCHANGED <<cur, pc, masked, elr, spsr, frames, used, pending, user_fp>>

----------------------------------------------------------------------------
(* schedule() from either handler.  PSTATE is not part of the context.     *)

context_switch(n) ==
  /\ At("svc") \/ At("irq")
  /\ n # cur /\ pc[n] # "none"
  /\ cur' = n
  /\ UNCHANGED <<pc, masked, elr, spsr, fp, frames, used, pending, user_fp>>

\* sched_fork copies the parent's frame to the top of the child's stack.
sched_fork(c) ==
  /\ At("svc")
  /\ pc[c] = "none"
  /\ pc' = [pc EXCEPT ![c] = "fork_elr"]
  /\ frames' = [frames EXCEPT ![c] = <<Frame>>]
  /\ used' = [used EXCEPT ![c] = FRAME_SIZE]
  /\ pending' = [pending EXCEPT ![c] = <<<<Frame.elr, Frame.spsr>>>>]
  /\ user_fp' = [user_fp EXCEPT ![c] = Frame.fp]
  /\ UNCHANGED <<cur, masked, elr, spsr, fp>>

\* exception_dispatch returns.
HandlerDone ==
  /\ At("svc") \/ At("irq")
  /\ Goto("ret_elr")
  /\ UNCHANGED <<cur, masked, elr, spsr, fp, frames, used, pending, user_fp>>

----------------------------------------------------------------------------
(* The return sequences.                                                   *)

LoadElr(from, to) ==
  /\ At(from)
  /\ elr' = Frame.elr
  /\ Goto(to)
  /\ UNCHANGED <<cur, masked, spsr, fp, frames, used, pending, user_fp>>

LoadSpsr(from, to) ==
  /\ At(from)
  /\ spsr' = Frame.spsr
  /\ Goto(to)
  /\ UNCHANGED <<cur, masked, elr, fp, frames, used, pending, user_fp>>

\* Mutant: the FP registers are not loaded, and the frame is taken for the short one.
LoadRegsShort(from, to, floats, bytes) ==
  /\ At(from)
  /\ frames' = [frames EXCEPT ![cur] = Tail(@)]
  /\ used' = [used EXCEPT ![cur] = @ - FORK_FRAME]
  /\ Goto(to)
  /\ UNCHANGED <<cur, masked, elr, spsr, fp, pending, user_fp>>

\* Load the registers and drop the frame.
LoadRegs(from, to, floats, bytes) ==
  /\ At(from)
  /\ fp' = IF floats THEN Frame.fp ELSE fp
  /\ frames' = [frames EXCEPT ![cur] = Tail(@)]
  /\ used' = [used EXCEPT ![cur] = @ - bytes]
  /\ Goto(to)
  /\ UNCHANGED <<cur, masked, elr, spsr, pending, user_fp>>

Eret ==
  /\ pc[cur] \in EretAt
  /\ pending[cur] # << >>
  /\ Goto(elr)
  /\ masked' = spsr
  /\ pending' = [pending EXCEPT ![cur] = Tail(@)]
  /\ UNCHANGED <<cur, elr, spsr, fp, frames, used, user_fp>>

exception_return ==
  \/ LoadElr("ret_elr", "ret_spsr")
  \/ LoadSpsr("ret_spsr", "ret_regs")
  \/ LoadRegs("ret_regs", "eret", TRUE, FRAME_SIZE)

fork_return ==
  \/ LoadElr("fork_elr", "fork_spsr")
  \/ LoadSpsr("fork_spsr", "fork_regs")
  \/ LoadRegs("fork_regs", "fork_eret", FALSE, FORK_FRAME)

\* task_trampoline unmasks IRQs, then sets ELR_EL1, then SPSR_EL1.
task_trampoline ==
  \/ /\ At("tramp")
     /\ masked' = FALSE
     /\ Goto("tramp_elr")
     /\ UNCHANGED <<cur, elr, spsr, fp, frames, used, pending, user_fp>>
  \/ /\ At("tramp_elr")
     /\ elr' = "user" /\ spsr' = FALSE
     /\ user_fp' = [user_fp EXCEPT ![cur] = fp]
     /\ Goto("tramp_eret")
     /\ UNCHANGED <<cur, masked, fp, frames, used, pending>>

----------------------------------------------------------------------------

\* A boot task was just switched in from the timer IRQ that preempted idle.
TrapInit ==
  /\ cur \in Boot
  /\ pc = [t \in Task |-> IF t \in Boot THEN "tramp" ELSE "none"]
  /\ masked = TRUE
  /\ elr = "user" /\ spsr = FALSE
  /\ fp = Kernel
  /\ frames = [t \in Task |-> << >>]
  /\ used = [t \in Task |-> 0]
  /\ pending = [t \in Task |-> IF t \in Boot THEN <<<<"user", FALSE>>>> ELSE << >>]
  /\ user_fp = [t \in Task |-> Kernel]

TrapNext ==
  \/ IRQ \/ SVC \/ Compute \/ HandlerDone \/ Eret
  \/ \E n \in Task : context_switch(n) \/ sched_fork(n)
  \/ exception_return \/ fork_return \/ task_trampoline

TrapSpec == TrapInit /\ [][TrapNext]_trapvars

----------------------------------------------------------------------------
(* Properties.                                                             *)

\* vector.S, switch.S: the program counters and the saved ELR and SPSR name points of the code.
TrapTypeOK ==
  /\ cur \in Task
  /\ pc \in [Task -> Points \cup {"none"}]
  /\ masked \in BOOLEAN /\ elr \in Points /\ spsr \in BOOLEAN
  /\ \A t \in Task : \A f \in {frames[t][i] : i \in DOMAIN frames[t]} :
       f.elr \in Points /\ f.spsr \in BOOLEAN
  /\ used \in [Task -> Nat]

\* An eret resumes what its exception interrupted, with the mask it had, however
\* IRQs nest and whichever handler switched the task out and in (the tail of
\* exception_common, fork_return, task_trampoline).
EretResumes ==
  pc[cur] \in EretAt => <<elr, spsr>> = Head(pending[cur])

\* A return to user code through exception_common gives back the FP registers the
\* task had, although handlers and other tasks used them in between.
FpPreserved ==
  (pc[cur] = "eret" /\ Len(pending[cur]) = 1) => fp = user_fp[cur]

\* A boot task in user code has an empty kernel stack: no path through nested
\* frames and switches leaks stack (FRAME_SIZE in vector.S).
StackEmptyInUser ==
  \A t \in Boot : pc[t] = "user" => used[t] = 0

\* A forked child starts with its parent's FP registers (sched_fork copies the
\* whole frame).
ForkedHasParentFp ==
  pc[cur] = "fork_eret" => fp = user_fp[cur]

\* What a task gets back on return to user code: its registers and an empty kernel stack.
StateRestored == TrapTypeOK /\ FpPreserved /\ StackEmptyInUser
============================================================================
