------------------------------ MODULE ProcMem -------------------------------
(***************************************************************************)
(* The memory of the tasks: what sched_create_task, sched_fork, sys_exec,  *)
(* the two demand-paging handlers, mmap and sched_free_task allocate, copy *)
(* and give back, with a failure possible at every allocation, and the     *)
(* address-space identifiers (ASIDs) the tasks' translations carry.        *)
(*                                                                         *)
(* A page number stands for one allocation: a page, the contiguous pages   *)
(* of a stack or of an ELF segment, or a root table with the tables below. *)
(* An allocation may fail with pages left, since memory is shared with the *)
(* heap and a block needs contiguous pages.                                *)
(***************************************************************************)
EXTENDS Integers, Sequences, FiniteSets, Functions

CONSTANTS PTask,                  \* the task structures
          NumPages,              \* allocations memory has room for
          MAX_ASID,              \* 65535 in the kernel
          USER_STACK_GROWN_MAX,  \* grown stack pages a task may have
          ELF_MAX_REGIONS,       \* segments of an executable
          MaxVmas, MaxRegion,    \* bounds: regions of a task, pages of a region
          MaxWraps,              \* bound on the wraps of the ASID counter
          ForkFails              \* the steps of fork at which memory may run out

ASSUME PmAssumption ==
    /\ MAX_ASID \in Nat \ {0}
    /\ {NumPages, USER_STACK_GROWN_MAX, ELF_MAX_REGIONS, MaxRegion, MaxWraps} \subseteq Nat
    /\ ForkFails \subseteq {"kstack", "l0", "image", "ustack", "grown", "tls",
                            "clone", "privatise", "fds"}

VARIABLES task,                  \* what each task structure records
          pmfree,                \* the free pages
          next_asid, wraps,      \* the ASID counter, and how often it wrapped
          cached                 \* translations in the TLB: their ASID and tables
pmvars == <<task, pmfree, next_asid, wraps, cached>>

Pages == 1 .. NumPages
None == [state |-> "none", stack_phys |-> 0, l0 |-> 0, ustack_phys |-> 0, tls_phys |-> 0,
         grown |-> <<>>, image |-> <<>>, vmas |-> <<>>, asid |-> 0, epoch |-> 0]

IsTask(t) == task[t].state = "live"
User(t) == IsTask(t) /\ task[t].l0 # 0

\* The pages a region, a set of regions and a task record.
Backing(region) == {region[j] : j \in DOMAIN region} \ {0}
Backed(vmas) == UNION {Backing(vmas[i]) : i \in DOMAIN vmas}
Image(r) == {r.image[i] : i \in DOMAIN r.image}
Grown(r) == {r.grown[i] : i \in DOMAIN r.grown}
Held(r) == ({r.stack_phys, r.l0, r.ustack_phys, r.tls_phys} \ {0})
           \cup Image(r) \cup Grown(r) \cup Backed(r.vmas)
Unaccounted == Pages \ (pmfree \cup UNION {Held(task[t]) : t \in PTask})

\* The i-th member of a set of numbers, and the next n pages handed out.
Nth(S, i) == CHOOSE p \in S : Cardinality({q \in S : q < p}) = i - 1
Take(n) == [i \in 1 .. n |-> Nth(pmfree, i)]
Has(n) == n <= Cardinality(pmfree)
-----------------------------------------------------------------------------
Wraps == next_asid = MAX_ASID
\* The counter restarts at 1 with an empty TLB once its last value is given.
sched_asid_alloc(kept) ==
    /\ Wraps => wraps < MaxWraps
    /\ next_asid' = IF Wraps THEN 1 ELSE next_asid + 1
    /\ wraps' = IF Wraps THEN wraps + 1 ELSE wraps
    /\ cached' = IF Wraps THEN {} ELSE kept

\* A call that fails with `taken` pages in hand and gives back `released`.
FailsWith(taken, released) ==
    /\ Has(Cardinality(taken))
    /\ pmfree' = pmfree \ (taken \ released)
    /\ UNCHANGED <<task, next_asid, wraps, cached>>

sched_create_kernel_task(t) ==
    /\ task[t] = None
    /\ \/ FailsWith({}, {})
       \/ /\ Has(1)
          /\ task' = [task EXCEPT ![t] = [None EXCEPT !.state = "live", !.stack_phys = Take(1)[1]]]
          /\ pmfree' = pmfree \ {Take(1)[1]}
          /\ UNCHANGED <<next_asid, wraps, cached>>

\* The kernel stack, the tables, the user stack and the TLS page, in this
\* order; what is in hand at each step that may fail, and what it gives back.
CreateTaken(p, at) ==
    CASE at = "kstack" -> {} [] at = "l0" -> {p[1]}
      [] at \in {"entry", "ustack"} -> {p[1], p[2]} [] at = "tls" -> {p[1], p[2], p[3]}
CreateReleases(p, at) ==
    CASE at = "kstack" -> {} [] at = "l0" -> {p[1]}
      [] at \in {"entry", "ustack"} -> {p[2], p[1]} [] at = "tls" -> {p[3], p[2], p[1]}

sched_create_task(t) ==
    /\ task[t] = None /\ Has(4)
    /\ LET p == Take(4)
       IN  \/ \E at \in {"kstack", "l0", "entry", "ustack", "tls"} :
                  FailsWith(CreateTaken(p, at), CreateReleases(p, at))
           \/ /\ task' = [task EXCEPT ![t] =
                     [None EXCEPT !.state = "live", !.stack_phys = p[1], !.l0 = p[2],
                                  !.ustack_phys = p[3], !.tls_phys = p[4],
                                  !.asid = next_asid, !.epoch = wraps]]
              /\ pmfree' = pmfree \ Range(p)
              /\ sched_asid_alloc(cached)
-----------------------------------------------------------------------------
\* What fork has copied when it reaches a step: a page of the child is named
\* here by the page of the parent it copies, k counts the copies of the list
\* being copied, and V holds the regions copied.
ForkCopied(r, at, k, V) ==
    LET image == {r.stack_phys, r.l0} \cup {r.image[i] : i \in 1 .. Len(r.image)}
        grown == image \cup {r.ustack_phys} \cup {r.grown[i] : i \in 1 .. k}
    IN  CASE at = "kstack" -> {}
          [] at = "l0" -> {r.stack_phys}
          [] at = "image" -> {r.stack_phys, r.l0} \cup {r.image[i] : i \in 1 .. k}
          [] at = "ustack" -> image
          [] at = "tls" -> grown
          [] OTHER -> grown \cup {r.tls_phys} \cup UNION {Backing(r.vmas[i]) : i \in V}

\* Of these, what fork gives back when it fails there.
ForkReleases(r, at, k) ==
    CASE at \in {"l0", "image", "ustack"} ->
             ForkCopied(r, at, k, {}) \ (IF at = "ustack" THEN Image(r) ELSE {})
      [] at \in {"tls", "fds"} -> {r.stack_phys, r.l0, r.ustack_phys}
      [] OTHER -> {}

\* The regions the child ends with, and the pages of the parent that go free.
\* vma_clone copies the records with the parent's pages in them; failing, it
\* destroys the records it has, and they free the pages they name. Privatising
\* replaces the pages one by one; failing, it unmaps the region, which frees
\* the copies it has made and the parent's pages it has not come to.
vma_clone_fails(r) ==
    IF "clone" \notin ForkFails THEN {}
    ELSE {[kept |-> {}, freed |-> UNION {Backing(r.vmas[j]) : j \in 1 .. i - 1}] :
              i \in DOMAIN r.vmas}
NotCopied(region, k) ==
    {region[j] : j \in {i \in DOMAIN region :
                           /\ region[i] # 0
                           /\ Cardinality({h \in 1 .. i - 1 : region[h] # 0}) >= k}}
Privatised(r) ==
    LET failing == {D \in SUBSET {i \in DOMAIN r.vmas : Backing(r.vmas[i]) # {}} :
                        "privatise" \in ForkFails \/ D = {}}
    IN  UNION {{[kept |-> DOMAIN r.vmas \ D,
                 freed |-> UNION {NotCopied(r.vmas[i], k[i]) : i \in D}] :
                    k \in {f \in [D -> 0 .. MaxRegion] :
                               \A i \in D : f[i] < Cardinality(Backing(r.vmas[i]))}} :
                  D \in failing}

\* Each page of S with the page that copies it.
Copies(S) == [p \in S |-> Nth(pmfree, 1 + Cardinality({q \in S : q < p}))]
\* Mutant: the child shares the parent's pages.
CopyShares(copy, seq) == seq
CopyOf(copy, seq) == [i \in DOMAIN seq |-> IF seq[i] = 0 THEN 0 ELSE copy[seq[i]]]

ForkChild(r, copy, k, V) ==
    [state |-> "live", stack_phys |-> copy[r.stack_phys], l0 |-> copy[r.l0],
     ustack_phys |-> copy[r.ustack_phys], tls_phys |-> copy[r.tls_phys],
     grown |-> CopyOf(copy, SubSeq(r.grown, 1, k)), image |-> CopyOf(copy, r.image),
     vmas |-> [i \in 1 .. Cardinality(V) |-> CopyOf(copy, r.vmas[Nth(V, i)])],
     asid |-> next_asid, epoch |-> wraps]

\* Memory runs out at a step the child cannot do without.
ForkFailing(r) ==
    \E at \in ForkFails \cap {"kstack", "l0", "image", "ustack", "tls"} :
    \E k \in 0 .. Len(IF at = "image" THEN r.image ELSE r.grown) :
        LET copied == ForkCopied(r, at, k, {})
        IN  /\ at = "image" => k < Len(r.image)
            /\ at = "tls" /\ "grown" \notin ForkFails => k = Len(r.grown)
            /\ at \in {"kstack", "l0", "ustack"} => k = 0
            /\ Has(Cardinality(copied))
            /\ FailsWith({Copies(copied)[p] : p \in copied},
                         {Copies(copied)[p] : p \in ForkReleases(r, at, k)})

\* The child is complete, but for its descriptors, which may fail as well.
ForkBuilt(r, c) ==
    \E k \in IF "grown" \in ForkFails THEN 0 .. Len(r.grown) ELSE {Len(r.grown)} :
    \E v \in vma_clone_fails(r) \cup Privatised(r) :
    \E at \in {"ok"} \cup (ForkFails \cap {"fds"}) :
        LET copied == ForkCopied(r, at, k, v.kept)
            copy == Copies(copied)
            lost == {copy[p] : p \in copied \ ForkReleases(r, at, k)}
        IN  /\ Has(Cardinality(copied))
            /\ pmfree' = (pmfree \ lost) \cup v.freed
            /\ task' = IF at = "ok" THEN [task EXCEPT ![c] = ForkChild(r, copy, k, v.kept)]
                       ELSE task
            /\ sched_asid_alloc(cached)

sched_fork_memory(p, c) ==
    /\ User(p) /\ task[c] = None
    /\ ForkFailing(task[p]) \/ ForkBuilt(task[p], c)
-----------------------------------------------------------------------------
\* Mutants: the TLS page is not given back; no invalidation before reuse.
ExecForgetsTls(r) == Backed(r.vmas) \cup {r.ustack_phys, r.l0} \cup Image(r)
KeepsEntries(r, entries) == entries

\* What exec gives back of the old image. The pages the stack has grown by are
\* forgotten: the count is reset and nothing frees them.
ExecReleases(r) == Backed(r.vmas) \cup {r.ustack_phys, r.tls_phys, r.l0} \cup Image(r)

\* The translations the invalidation by ASID of an image torn down leaves.
tlbi_aside1(r, entries) == {e \in entries : e.asid # r.asid}

\* The new stack, tables, segments (n of them) and TLS page, in this order. A
\* binary that cannot be opened or read fails with none of them in hand;
\* elf_load frees the segments it has loaded before it fails.
ExecTaken(p, at, n) ==
    CASE at \in {"open", "stack"} -> {} [] at = "l0" -> {p[1]}
      [] OTHER -> {p[1], p[2]} \cup {p[2 + i] : i \in 1 .. n}
ExecGivesBack(p, at, n) ==
    CASE at \in {"open", "stack"} -> {} [] at = "l0" -> {p[1]}
      [] OTHER -> {p[2], p[1]} \cup {p[2 + i] : i \in 1 .. n}

\* Until the image is swapped nothing of the caller's has been touched.
sys_exec(t) ==
    /\ User(t)
    /\ \E n \in 1 .. ELF_MAX_REGIONS :
        /\ Has(3 + n)
        /\ LET r == task[t]
               p == Take(3 + n)
           IN  \/ \E at \in {"open", "stack", "l0", "elf", "tls"} :
                      FailsWith(ExecTaken(p, at, n), ExecGivesBack(p, at, n))
               \/ /\ task' = [task EXCEPT ![t] =
                         [state |-> r.state, stack_phys |-> r.stack_phys, l0 |-> p[2],
                          ustack_phys |-> p[1], tls_phys |-> p[3 + n], grown |-> <<>>,
                          image |-> SubSeq(p, 3, 2 + n), vmas |-> <<>>,
                          asid |-> next_asid, epoch |-> wraps]]
                  /\ pmfree' = (pmfree \ Range(p)) \cup ExecReleases(r)
                  /\ sched_asid_alloc(tlbi_aside1(r, cached))
-----------------------------------------------------------------------------
\* The demand-paging handlers and mmap, as far as pages go: the pages a fault
\* records in the task (see AddressSpace for where they are mapped and why).
sched_try_grow_stack(t) ==
    /\ User(t) /\ Len(task[t].grown) < USER_STACK_GROWN_MAX /\ Has(1)
    /\ task' = [task EXCEPT ![t].grown = Append(@, Take(1)[1])]
    /\ pmfree' = pmfree \ {Take(1)[1]}
    /\ UNCHANGED <<next_asid, wraps, cached>>

sys_mmap(t, n) ==
    /\ User(t) /\ Len(task[t].vmas) < MaxVmas
    /\ task' = [task EXCEPT ![t].vmas = Append(@, [j \in 1 .. n |-> 0])]
    /\ UNCHANGED <<pmfree, next_asid, wraps, cached>>

sched_try_handle_vma_fault(t, i, j) ==
    /\ User(t) /\ task[t].vmas[i][j] = 0 /\ Has(1)
    /\ task' = [task EXCEPT ![t].vmas[i][j] = Take(1)[1]]
    /\ pmfree' = pmfree \ {Take(1)[1]}
    /\ UNCHANGED <<next_asid, wraps, cached>>

\* The task runs and the hardware caches a translation of its tables.
Walk(t) ==
    /\ User(t)
    /\ cached' = cached \cup {[asid |-> task[t].asid, l0 |-> task[t].l0]}
    /\ UNCHANGED <<task, pmfree, next_asid, wraps>>

task_exit(t) ==
    /\ IsTask(t)
    /\ task' = [task EXCEPT ![t].state = "dead"]
    /\ UNCHANGED <<pmfree, next_asid, wraps, cached>>

\* The parent waits for a dead task, or the idle task reaps it.
sched_free_task(t) ==
    /\ task[t].state = "dead"
    /\ pmfree' = pmfree \cup Held(task[t])
    /\ cached' = IF task[t].l0 # 0 THEN tlbi_aside1(task[t], cached) ELSE cached
    /\ task' = [task EXCEPT ![t] = None]
    /\ UNCHANGED <<next_asid, wraps>>
-----------------------------------------------------------------------------
PmInit ==
    /\ task = [t \in PTask |-> None]
    /\ pmfree = Pages
    /\ next_asid = 1 /\ wraps = 0
    /\ cached = {}

PmNext ==
    \/ \E t \in PTask : \/ sched_create_kernel_task(t) \/ sched_create_task(t)
                       \/ sys_exec(t) \/ sched_try_grow_stack(t)
                       \/ Walk(t) \/ task_exit(t) \/ sched_free_task(t)
    \/ \E p, c \in PTask : sched_fork_memory(p, c)
    \/ \E t \in PTask, n \in 1 .. MaxRegion : sys_mmap(t, n)
    \/ \E t \in PTask : \E i \in DOMAIN task[t].vmas : \E j \in DOMAIN task[t].vmas[i] :
           sched_try_handle_vma_fault(t, i, j)

PmSpec == PmInit /\ [][PmNext]_pmvars
-----------------------------------------------------------------------------
\* sched.c, mmu.c, syscall.c: a task holds pages of memory only, never more grown stack pages
\* than USER_STACK_GROWN_MAX, and ASIDs stay in 1 .. MAX_ASID.
PmTypeOK ==
    /\ pmfree \subseteq Pages
    /\ next_asid \in 1 .. MAX_ASID /\ wraps \in 0 .. MaxWraps
    /\ \A e \in cached : e.asid \in 1 .. MAX_ASID /\ e.l0 \in Pages
    /\ \A t \in PTask : /\ task[t].state \in {"none", "live", "dead"}
                       /\ Held(task[t]) \subseteq Pages
                       /\ Len(task[t].grown) <= USER_STACK_GROWN_MAX

\* The number of places in a task that record a page.
Records(r) == Cardinality({f \in {"stack_phys", "l0", "ustack_phys", "tls_phys"} : r[f] # 0})
              + Len(r.image) + Len(r.grown)
              + Cardinality({x \in (DOMAIN r.vmas) \X (1 .. MaxRegion) :
                                 x[2] \in DOMAIN r.vmas[x[1]] /\ r.vmas[x[1]][x[2]] # 0})

\* "Nothing is freed twice" (vma.h), for all the memory of a task: a page some
\* task records is not free, and no two tasks and no two places of a task
\* record the same page, through any interleaving of create, fork, exec,
\* faults, exit and reap.
PagesHeldOnce ==
    /\ \A t \in PTask : Held(task[t]) \cap pmfree = {}
    /\ \A t, u \in PTask : t # u => Held(task[t]) \cap Held(task[u]) = {}
    /\ \A t \in PTask : Records(task[t]) = Cardinality(Held(task[t]))

\* "Nothing leaks" (vma.h): a page stays with a task or goes back to the
\* allocator, whatever call fails where. The exceptions are those of the code:
\* exec forgets the pages the old stack had grown by, and a fork that fails
\* after it has copied the image leaves behind what it copied of the image and
\* of the grown stack, and from the descriptors on the TLS page and regions.
LeakIsKnown ==
    LET new == Unaccounted' \ Unaccounted
    IN  new # {} =>
        \/ \E t \in PTask : sys_exec(t) /\ new = Grown(task[t])
        \/ \E p \in PTask :
              /\ User(p) /\ task' = task
              /\ \/ /\ next_asid' = next_asid
                    /\ Cardinality(new) <= Len(task[p].image) + Len(task[p].grown)
                 \/ /\ next_asid' # next_asid
                    /\ Cardinality(new) <= Records(task[p]) - 3
\* No step of the kernel leaks but in these ways (sched_fork, sys_exec).
LeaksAreKnown == [][LeakIsKnown]_pmvars

\* A translation in the TLB belongs to tables some task still has: none
\* survives the tables it was read from, so a recycled ASID cannot bring back
\* pages that have been handed out again, across exec, reap and wraps.
TlbNamesLiveTables ==
    \A e \in cached : \E t \in PTask : task[t].l0 = e.l0 /\ task[t].asid = e.asid

\* Two tasks have the same ASID only if the counter has wrapped between them.
AsidClashNeedsWrap ==
    \A t, u \in PTask :
        t # u /\ task[t].l0 # 0 /\ task[u].l0 # 0 /\ task[t].asid = task[u].asid
            => task[t].epoch # task[u].epoch

\* ASIDs and the TLB through exec, reap and wraps (sched.c:29-44, 195).
TlbSound == PmTypeOK /\ TlbNamesLiveTables /\ AsidClashNeedsWrap
=============================================================================
