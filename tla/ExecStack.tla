----------------------------- MODULE ExecStack ------------------------------
(***************************************************************************)
(* The argument vector of sys_exec (syscall/syscall.c): the loop that copies *)
(* the caller's argv into the kernel before anything is torn down, and the  *)
(* layout of the new program's stack: argc, argv, envp and the auxiliary    *)
(* vector from the stack pointer up, the argument strings and the 16 bytes  *)
(* of AT_RANDOM at the top.                                                 *)
(***************************************************************************)
EXTENDS Integers

CONSTANTS STACK_HI, STACK_BYTES, \* top and size of the initial user stack
          EXEC_MAX_ARGC, EXEC_ARG_BYTES_MAX,
          ArgLens                \* the lengths of argument strings that are tried

ASSUME XsAssumption ==
    /\ STACK_HI \in Nat /\ STACK_BYTES \in Nat
    /\ STACK_HI % 16 = 0 /\ STACK_BYTES % 16 = 0
    /\ EXEC_MAX_ARGC \in Nat /\ EXEC_ARG_BYTES_MAX \in Nat
    /\ 700 + 8 * EXEC_MAX_ARGC + EXEC_ARG_BYTES_MAX <= STACK_BYTES
    /\ STACK_BYTES <= STACK_HI
    /\ ArgLens \subseteq Nat

VARIABLES argc, arg_bytes,       \* arguments and bytes captured so far
          arg_offset,               \* offset of the last string captured
          xres                   \* "args", then "refused" or "started"
xsvars == <<argc, arg_bytes, arg_offset, xres>>

Down16(a) == a - (a % 16)
Up16(a) == Down16(a + 15)

aux_max == 17                    \* pairs of the auxiliary vector, at most
aux_random_size == 16
\* The pairs aux_put writes: 15 always, AT_EXECFN if there is an argument, AT_NULL.
aux_count(n) == 16 + (IF n > 0 THEN 1 ELSE 0)

\* Mutant: the terminating NULL of argv is forgotten.
EnvpTooLow(n) == 8 + n * 8
envp_off(n) == 8 + (n + 1) * 8
auxv_off(n) == envp_off(n) + 8
auxv_base(n) == Up16(auxv_off(n) + aux_max * 16)
strings_lo(bytes) == Down16(STACK_HI - bytes - aux_random_size)
new_sp(n, bytes) == strings_lo(bytes) - auxv_base(n)
random_va(bytes) == strings_lo(bytes) + bytes

StackFits == new_sp(argc, arg_bytes) >= STACK_HI - STACK_BYTES

\* A pointer of argv is not in user memory, or its string too long for the buffer.
BadArgument ==
    /\ xres = "args" /\ argc < EXEC_MAX_ARGC
    /\ xres' = "refused"
    /\ UNCHANGED <<argc, arg_bytes, arg_offset>>

RoomFor(len) == arg_bytes + len + 1 <= EXEC_ARG_BYTES_MAX

CaptureArgument(len) ==
    /\ xres = "args" /\ argc < EXEC_MAX_ARGC
    /\ RoomFor(len)
    /\ arg_offset' = arg_bytes
    /\ arg_bytes' = arg_bytes + len + 1
    /\ argc' = argc + 1
    /\ UNCHANGED xres

\* The NULL of argv, or its limit: the layout is checked before anything else.
StartProgram ==
    /\ xres = "args"
    /\ xres' = IF StackFits THEN "started" ELSE "refused"
    /\ UNCHANGED <<argc, arg_bytes, arg_offset>>

XsInit == argc = 0 /\ arg_bytes = 0 /\ arg_offset = 0 /\ xres = "args"
XsNext == BadArgument \/ (\E len \in ArgLens : CaptureArgument(len)) \/ StartProgram
XsSpec == XsInit /\ [][XsNext]_xsvars
-----------------------------------------------------------------------------
\* The stack a program starts on is well formed whatever its arguments: the
\* stack pointer is aligned and on the stack; argc, argv with its NULL, envp
\* with its NULL, the auxiliary vector, the strings and the random bytes follow
\* each other without overlapping and end below the top.
StackWellFormed(n, bytes) ==
    LET sp == new_sp(n, bytes)
    IN  /\ sp % 16 = 0
        /\ sp >= STACK_HI - STACK_BYTES
        /\ sp + 8 + 8 * (n + 1) <= sp + envp_off(n)
        /\ sp + envp_off(n) + 8 <= sp + auxv_off(n)
        /\ aux_count(n) <= aux_max
        /\ sp + auxv_off(n) + 16 * aux_max <= strings_lo(bytes)
        /\ strings_lo(bytes) + bytes <= random_va(bytes)
        /\ random_va(bytes) + aux_random_size <= STACK_HI

\* The bounds on the arguments are what keeps the layout on the stack: the
\* check before the swap never refuses, and every stack a program is started
\* on is well formed, with each string inside the part reserved for strings.
StartsWellFormed ==
    /\ xres = "started" =>
           /\ StackWellFormed(argc, arg_bytes)
           /\ argc > 0 => arg_offset < arg_bytes
    /\ argc <= EXEC_MAX_ARGC /\ arg_bytes <= EXEC_ARG_BYTES_MAX
    /\ xres = "args" => StackFits
=============================================================================
