---------------------------- MODULE AddressSpace ----------------------------
(***************************************************************************)
(* The address space of one user task: the VMA list (vma.c), the mmap,     *)
(* munmap, mprotect and brk calls (syscall.c), the page-fault paths        *)
(* (exception.c, sched.c), the leaf page tables and the TLB (mmu.c), and   *)
(* the release of it all when the task ends.                               *)
(*                                                                         *)
(* Addresses are bytes; a page has PAGE_SIZE of them, a leaf table covers  *)
(* L3_SPAN of them.  The calls run with IRQs on, but only the task itself  *)
(* touches its list and tables, so each call is one step.  A kmalloc may   *)
(* fail: oom says so, and F where, in a call that makes several.           *)
(***************************************************************************)
EXTENDS Integers, FiniteSets, SequencesExt

CONSTANTS PAGE_SIZE, L3_SPAN, TLBI_STRIDE,
          STACK_MAX_LO, STACK_INITIAL_LO,     \* where the stack grows
          USER_MMAP_BASE, USER_VA_TOP,        \* where mmap looks
          USER_BRK_BASE, BRK_RESERVE,         \* the arena of brk, in bytes
          VPage,                              \* the addresses of the pages of all these
          VMA_MAX_PER_TASK, USER_STACK_GROWN_MAX,
          MmapTop,                            \* bound: where mappings of mmap end
          NumFrames,                          \* bound: free pages of the PMM
          CachedPages,                        \* bound: pages whose translations the TLB keeps
          Prot,                               \* protections asked for
          MmapArgs, MunmapArgs, MprotectArgs, BrkArgs,      \* arguments of the calls
          Kinds                               \* accesses: "r", "w", "x"

ASSUME AsAssumption ==
    /\ PAGE_SIZE \in Nat \ {0} /\ VMA_MAX_PER_TASK \in Nat
    /\ \A a \in {L3_SPAN, TLBI_STRIDE, STACK_MAX_LO, STACK_INITIAL_LO, USER_MMAP_BASE,
                 USER_VA_TOP, USER_BRK_BASE, BRK_RESERVE} : a % PAGE_SIZE = 0
    /\ VPage = {a \in STACK_MAX_LO .. (USER_VA_TOP - 1) : a % PAGE_SIZE = 0}
    /\ STACK_MAX_LO < STACK_INITIAL_LO /\ STACK_INITIAL_LO <= USER_MMAP_BASE
    /\ USER_MMAP_BASE < USER_BRK_BASE /\ USER_BRK_BASE + BRK_RESERVE <= USER_VA_TOP

VARIABLES vmas,                  \* t->vmas: the packed, address-ordered array
          brk_cur,
          grown,                 \* stack_grown_va / stack_grown_phys
          l3,                    \* the leaf table of each span, or 0
          pte,                   \* the leaf descriptors
          tlb,                   \* translations the hardware has cached
          free,                  \* pages the PMM can hand out
          access,                \* the user access being retried, if any
          alive,
          failed                 \* auxiliary: the last call returned an error

asvars == <<vmas, brk_cur, grown, l3, pte, tlb, free, access, alive, failed>>
tables == <<l3, pte, tlb>>

Span == {a \in 0 .. (USER_VA_TOP - 1) : a % L3_SPAN = 0}
SpanOf(va) == va - (va % L3_SPAN)
Frame == 1 .. NumFrames
Invalid == [pa |-> 0, perm |-> {}]
NoAccess == [va |-> -1, kind |-> "none"]
Static == -1                     \* a table made with the task, for its first stack pages
RW == {"r", "w"}

PAGE_ALIGN_DOWN(a) == a - (a % PAGE_SIZE)
PAGE_ALIGN_UP(a) == PAGE_ALIGN_DOWN(a + PAGE_SIZE - 1)
Npages(from, to) == (to - from) \div PAGE_SIZE
PagesIn(start, end) == {a \in VPage : start <= a /\ a < end}
Zeros(n) == [i \in 1 .. n |-> 0]

-----------------------------------------------------------------------------
(* vma.c.  A VMA's pages are the meaningful entries of its array.          *)

vma_find(set, va) == SelectInSeq(set, LAMBDA v : v.start <= va /\ va < v.end)
vma_find_overlap(set, start, end) ==
    SelectInSeq(set, LAMBDA v : start < v.end /\ v.start < end)

vma_insert_sorted(set, vma) ==
    InsertAt(set, 1 + SelectLastInSeq(set, LAMBDA v : v.start <= vma.start), vma)

vma_addable(set, start, end) ==
    /\ start < end
    /\ start % PAGE_SIZE = 0 /\ end % PAGE_SIZE = 0
    /\ Len(set) < VMA_MAX_PER_TASK
    /\ vma_find_overlap(set, start, end) = 0

vma_add(set, start, end, prot, flags) ==
    vma_insert_sorted(set, [start |-> start, end |-> end, prot |-> prot, flags |-> flags,
                            pages |-> Zeros(Npages(start, end))])

HeadOf(v, va) == [v EXCEPT !.end = va, !.pages = SubSeq(v.pages, 1, Npages(v.start, va))]

TailOf(v, va) ==
    [v EXCEPT !.start = va, !.pages = SubSeq(v.pages, Npages(v.start, va) + 1, Len(v.pages))]

SplitRefused(set, i, va) == [ok |-> FALSE, set |-> set]

vma_split_at(set, va, oom) ==
    LET i == vma_find(set, va) IN
    IF i = 0 \/ set[i].start = va
    THEN [ok |-> TRUE, set |-> set]
    ELSE IF Len(set) >= VMA_MAX_PER_TASK \/ oom
    THEN SplitRefused(set, i, va)
    ELSE [ok |-> TRUE, set |-> vma_insert_sorted(ReplaceAt(set, i, HeadOf(set[i], va)),
                                                 TailOf(set[i], va))]

\* Mutant: contiguous regions are welded whatever their protection.
WeldsAny(a, b) == a.end = b.start /\ a.flags = b.flags

Welds(a, b) == a.end = b.start /\ a.prot = b.prot /\ a.flags = b.flags
Weld(a, b) == [a EXCEPT !.end = b.end, !.pages = a.pages \o b.pages]

\* A pair whose new array cannot be had stays as it is.
vma_merge_adjacent(set, F) ==
    FoldLeft(LAMBDA done, v :
               IF done # <<>> /\ Welds(Last(done), v) /\ v.start \notin F.welds
               THEN Append(Front(done), Weld(Last(done), v))
               ELSE Append(done, v),
             <<>>, set)

\* Both cuts of a range: when the second fails the first one stays.
Cut(set, start, end, F) ==
    LET lo == vma_split_at(set, start, FALSE)
        hi == vma_split_at(lo.set, end, F.cut = "hi")
    IN  IF lo.ok THEN hi ELSE lo

Inside(v, start, end) == v.start >= start /\ v.end <= end
Resident(set) == UNION {ToSet(set[i].pages) : i \in DOMAIN set} \ {0}

vma_unmap_range(set, start, end, F) ==
    vma_merge_adjacent(SelectSeq(set, LAMBDA v : ~Inside(v, start, end)), F)
Released(set, start, end) == Resident(SelectSeq(set, LAMBDA v : Inside(v, start, end)))

vma_protect_range(set, start, end, prot, F) ==
    vma_merge_adjacent([i \in DOMAIN set |-> IF Inside(set[i], start, end)
                                             THEN [set[i] EXCEPT !.prot = prot] ELSE set[i]], F)

-----------------------------------------------------------------------------
(* The leaf tables and the TLB (mmu.c).  perm is what EL0 may do.          *)

mmu_prot_to_flags(prot) ==
    (IF "w" \in prot THEN {"r", "w"} ELSE prot \cap {"r"}) \cup (prot \cap {"x"})

\* TLBI VAE1 drops the entries of the given addresses that carry the ASID of
\* its operand (or are global, which user entries never are).
ThisAsid == 1
TlbiVae1(asid, vas) ==
    [v \in VPage |-> IF asid = ThisAsid /\ v \in vas THEN Invalid ELSE tlb[v]]

\* One TLBI per stride, with the ASID field of the operand left 0.
invalidate_user_span(start, end) ==
    TlbiVae1(0, {v \in PagesIn(start, end) : (v - start) % TLBI_STRIDE = 0})

\* Mutant: the descriptors stay.
UnmapKeepsLast(start, end) ==
    /\ pte' = [v \in VPage |-> IF v \in PagesIn(start, end - PAGE_SIZE) THEN Invalid ELSE pte[v]]
    /\ tlb' = invalidate_user_span(start, end)
    /\ UNCHANGED l3

mmu_unmap_user_range(start, end) ==
    /\ pte' = [v \in VPage |-> IF v \in PagesIn(start, end) THEN Invalid ELSE pte[v]]
    /\ tlb' = invalidate_user_span(start, end)
    /\ UNCHANGED l3

mmu_protect_user_range(start, end, prot) ==
    /\ pte' = [v \in VPage |-> IF v \in PagesIn(start, end) /\ pte[v] # Invalid
                               THEN [pte[v] EXCEPT !.perm = mmu_prot_to_flags(prot)]
                               ELSE pte[v]]
    /\ tlb' = invalidate_user_span(start, end)
    /\ UNCHANGED l3

pmm_allocate_page(pool) == Min(pool)

\* The leaf is written unless walk_levels finds no page for a missing table.
\* The caller has already taken a page for the data, and cannot tell.
mmu_map_user_range(va, pa, prot) ==
    LET pool == free \ {pa}
        span == SpanOf(va)
        leaf == [pte EXCEPT ![va] = [pa |-> pa, perm |-> mmu_prot_to_flags(prot)]]
    IN  /\ tlb' = TlbiVae1(ThisAsid, {va})
        /\ \/ /\ l3[span] # 0
              /\ pte' = leaf /\ free' = pool /\ UNCHANGED l3
           \/ /\ l3[span] = 0 /\ pool # {}
              /\ l3' = [l3 EXCEPT ![span] = pmm_allocate_page(pool)]
              /\ pte' = leaf /\ free' = pool \ {pmm_allocate_page(pool)}
           \/ /\ l3[span] = 0 /\ pool = {}
              /\ free' = pool /\ UNCHANGED <<l3, pte>>

-----------------------------------------------------------------------------
(* The system calls.                                                       *)

Calling == alive /\ access = NoAccess
\* An early return with an error, for the arguments or because kmalloc failed.
Refused == failed' = TRUE /\ UNCHANGED <<vmas, brk_cur, grown, tables, free, access, alive>>
Done == failed' = FALSE
Nothing == Done /\ UNCHANGED <<vmas, brk_cur, grown, tables, free, access, alive>>

mmap_range_ok(start, end) == start < end /\ end <= USER_VA_TOP

\* The lowest gap of len bytes at or above USER_MMAP_BASE, or 0.
mmap_find_free(len) ==
    LET from[c \in 0 .. USER_VA_TOP] ==
          LET hit == vma_find_overlap(vmas, c, c + len) IN
          IF c + len > USER_VA_TOP THEN 0
          ELSE IF hit = 0 THEN c ELSE from[PAGE_ALIGN_UP(vmas[hit].end)]
    IN  from[USER_MMAP_BASE]

sys_mmap(addr, length, fixed, prot) ==
    LET start == IF fixed THEN addr ELSE mmap_find_free(PAGE_ALIGN_UP(length))
        end == IF fixed THEN addr + length ELSE start + PAGE_ALIGN_UP(length)
        ok == /\ length # 0
              /\ fixed => addr % PAGE_SIZE = 0
              /\ start # 0 /\ mmap_range_ok(start, end)
              /\ vma_addable(vmas, start, end)
    IN  /\ ok /\ end <= MmapTop /\ Done
        /\ vmas' = vma_add(vmas, start, end, prot, "mmap")
        /\ UNCHANGED <<brk_cur, grown, tables, free, access, alive>>

\* The range munmap and mprotect work on, rounded from its last byte.
RangeEnd(addr, length) == PAGE_ALIGN_DOWN(addr + length - 1) + PAGE_SIZE
RangeOk(addr, length) ==
    /\ addr % PAGE_SIZE = 0 /\ addr # 0 /\ length # 0
    /\ length <= USER_VA_TOP /\ addr <= USER_VA_TOP - length
    /\ RangeEnd(addr, length) <= USER_VA_TOP

\* munmap(0, n) and mprotect(0, n, prot) succeed and do nothing.
NullRange(addr, length) == addr = 0 /\ length # 0 /\ Nothing

\* A call whose second cut failed keeps the first one.
CutFails(cut) ==
    /\ failed' = TRUE /\ vmas' = cut.set
    /\ UNCHANGED <<brk_cur, grown, tables, free, access, alive>>

sys_munmap(addr, length, F) ==
    LET end == RangeEnd(addr, length)
        cut == Cut(vmas, addr, end, F)
    IN  \/ ~cut.ok /\ CutFails(cut)
        \/ /\ cut.ok /\ Done
           /\ vmas' = vma_unmap_range(cut.set, addr, end, F)
           /\ free' = free \cup Released(cut.set, addr, end)
           /\ mmu_unmap_user_range(addr, end)
           /\ UNCHANGED <<brk_cur, grown, access, alive>>

sys_mprotect(addr, length, prot, F) ==
    LET end == RangeEnd(addr, length)
        cut == Cut(vmas, addr, end, F)
    IN  \/ ~cut.ok /\ CutFails(cut)
        \/ /\ cut.ok /\ Done
           /\ vmas' = vma_protect_range(cut.set, addr, end, prot, F)
           /\ mmu_protect_user_range(addr, end, prot)
           /\ UNCHANGED <<brk_cur, grown, free, access, alive>>

BrkInRange(addr) == USER_BRK_BASE <= addr /\ addr <= USER_BRK_BASE + BRK_RESERVE

BrkMoves(addr) ==
    /\ Done /\ brk_cur' = addr
    /\ UNCHANGED <<grown, tables, free, access, alive>>

\* brk: the break is exact, the region is rounded up to pages.  vma_find on the
\* break itself decides between a new region and a longer one; the answer of
\* vma_add is not looked at.
sys_brk(addr) ==
    LET new_end == PAGE_ALIGN_UP(addr)
        i == vma_find(vmas, brk_cur)
        v == vmas[i]
    IN  /\ BrkInRange(addr) /\ brk_cur <= addr
        /\ \/ /\ i = 0 /\ vma_addable(vmas, USER_BRK_BASE, new_end)
              /\ vmas' = vma_add(vmas, USER_BRK_BASE, new_end, RW, "brk")
           \/ i = 0 /\ UNCHANGED vmas
           \/ /\ i # 0 /\ v.end < new_end
              /\ vmas' = [vmas EXCEPT ![i].end = new_end,
                                      ![i].pages = @ \o Zeros(Npages(v.end, new_end))]
           \/ i # 0 /\ v.end >= new_end /\ UNCHANGED vmas
        /\ BrkMoves(addr)

-----------------------------------------------------------------------------
(* User accesses and the abort handlers.  After a handler that says it     *)
(* fixed the fault, the same instruction is executed again: access.        *)

Executes(va, kind) == alive /\ access \in {NoAccess, [va |-> va, kind |-> kind]}

\* What the MMU sees: a cached translation if there is one.
Translation(va) == IF tlb[va] # Invalid THEN tlb[va] ELSE pte[va]

\* The access goes through; the TLB may keep the translation it used.
Succeeds(va, kind) ==
    /\ Executes(va, kind) /\ kind \in Translation(va).perm
    /\ access' = NoAccess /\ Done
    /\ \/ UNCHANGED tlb
       \/ va \in CachedPages /\ tlb' = [tlb EXCEPT ![va] = Translation(va)]
    /\ UNCHANGED <<vmas, brk_cur, grown, l3, pte, free, alive>>

\* A cached translation may be dropped at any time.
Evict(va) ==
    /\ tlb[va] # Invalid /\ Done
    /\ tlb' = [tlb EXCEPT ![va] = Invalid]
    /\ UNCHANGED <<vmas, brk_cur, grown, l3, pte, free, access, alive>>

TranslationFault(va, kind) == Executes(va, kind) /\ Translation(va) = Invalid
PermissionFault(va, kind) ==
    Executes(va, kind) /\ Translation(va) # Invalid /\ kind \notin Translation(va).perm

Retry(va, kind) == access' = [va |-> va, kind |-> kind] /\ Done

CanGrow(va, kind) ==
    /\ kind # "x"
    /\ STACK_MAX_LO <= va /\ va < STACK_INITIAL_LO
    /\ Len(grown) < USER_STACK_GROWN_MAX
    /\ free # {}

sched_try_grow_stack(va, kind) ==
    LET pa == pmm_allocate_page(free) IN
    /\ TranslationFault(va, kind) /\ CanGrow(va, kind)
    /\ mmu_map_user_range(va, pa, RW)
    /\ grown' = Append(grown, [va |-> va, pa |-> pa])
    /\ Retry(va, kind)
    /\ UNCHANGED <<vmas, brk_cur, alive>>

\* The entry of a page in the array of its region.
Slot(v, va) == 1 + Npages(v.start, va)

NotYetIn(v, va) == v.pages[Slot(v, va)] = 0

CanFaultIn(va, kind) ==
    LET i == vma_find(vmas, va) IN
    /\ i # 0
    /\ kind \in vmas[i].prot
    /\ NotYetIn(vmas[i], va)
    /\ free # {}

sched_try_handle_vma_fault(va, kind) ==
    LET i == vma_find(vmas, va)
        pa == pmm_allocate_page(free)
    IN  /\ TranslationFault(va, kind) /\ ~CanGrow(va, kind) /\ CanFaultIn(va, kind)
        /\ mmu_map_user_range(va, pa, vmas[i].prot)
        /\ vmas' = [vmas EXCEPT ![i].pages[Slot(vmas[i], va)] = pa]
        /\ Retry(va, kind)
        /\ UNCHANGED <<brk_cur, grown, alive>>

\* Every other abort ends the task.
Killed(va, kind) ==
    /\ \/ PermissionFault(va, kind)
       \/ TranslationFault(va, kind) /\ ~CanGrow(va, kind) /\ ~CanFaultIn(va, kind)
    /\ alive' = FALSE /\ access' = NoAccess /\ Done
    /\ UNCHANGED <<vmas, brk_cur, grown, tables, free>>

Exits ==
    /\ alive' = FALSE /\ Done
    /\ UNCHANGED <<vmas, brk_cur, grown, tables, free, access>>

vma_destroy(set) == Resident(set)
mmu_free_user_tables == {l3[s] : s \in Span} \ {0, Static}
GrownPages == {grown[i].pa : i \in DOMAIN grown}

Fresh ==
    /\ vmas = <<>> /\ brk_cur = USER_BRK_BASE /\ grown = <<>>
    /\ l3 = [s \in Span |-> IF s = SpanOf(STACK_MAX_LO) THEN Static ELSE 0]
    /\ pte = [v \in VPage |-> Invalid] /\ tlb = [v \in VPage |-> Invalid]
    /\ access = NoAccess /\ alive = TRUE /\ failed = FALSE

\* sched_free_task gives everything back; the pages then serve another task.
sched_free_task ==
    /\ ~alive
    /\ free' = free \cup GrownPages \cup vma_destroy(vmas) \cup mmu_free_user_tables
    /\ vmas' = <<>> /\ brk_cur' = USER_BRK_BASE /\ grown' = <<>>
    /\ l3' = [s \in Span |-> IF s = SpanOf(STACK_MAX_LO) THEN Static ELSE 0]
    /\ pte' = [v \in VPage |-> Invalid] /\ tlb' = [v \in VPage |-> Invalid]
    /\ access' = NoAccess /\ alive' = TRUE /\ failed' = FALSE

\* The second cut fails for want of an array, or all welds do, or nothing does; when the
\* first cut fails the call is Refused.
Failures == {[cut |-> "hi", welds |-> {}], [cut |-> "none", welds |-> {}],
             [cut |-> "none", welds |-> VPage]}

AsInit == Fresh /\ free = Frame

AsCall ==
    /\ Calling
    /\ \/ \E m \in MmapArgs, prot \in Prot : sys_mmap(m.addr, m.length, m.fixed, prot)
       \/ \E r \in MunmapArgs \cup MprotectArgs : NullRange(r.addr, r.length)
       \/ \E r \in MunmapArgs, F \in Failures :
            RangeOk(r.addr, r.length) /\ sys_munmap(r.addr, r.length, F)
       \/ \E r \in MprotectArgs, prot \in Prot, F \in Failures :
            RangeOk(r.addr, r.length) /\ sys_mprotect(r.addr, r.length, prot, F)
       \/ \E addr \in BrkArgs : sys_brk(addr)
       \/ Refused
       \/ Exits

\* Mutant: the answer of the fault handler is not looked at inside a region.
AccessRespins(va, kind) ==
    \/ Succeeds(va, kind)
    \/ sched_try_grow_stack(va, kind) \/ sched_try_handle_vma_fault(va, kind)
    \/ /\ TranslationFault(va, kind) /\ vma_find(vmas, va) # 0 /\ Retry(va, kind)
       /\ UNCHANGED <<vmas, brk_cur, grown, tables, free, alive>>
    \/ vma_find(vmas, va) = 0 /\ Killed(va, kind)

AsAccess(va, kind) ==
    \/ Succeeds(va, kind)
    \/ sched_try_grow_stack(va, kind) \/ sched_try_handle_vma_fault(va, kind)
    \/ Killed(va, kind)

AsNext ==
    \/ AsCall
    \/ \E va \in VPage, kind \in Kinds : AsAccess(va, kind)
    \/ \E va \in VPage : Evict(va)
    \/ sched_free_task

\* An instruction that faults is executed again until it succeeds or the task is gone.
Retries == access # NoAccess /\ \E va \in VPage, kind \in Kinds : AsAccess(va, kind)
AsFairness == WF_asvars(Retries)

AsSpec == AsInit /\ [][AsNext]_asvars /\ AsFairness

-----------------------------------------------------------------------------
(* Properties.                                                             *)

\* Every variable of the address space has its type.
AsTypeOK ==
    /\ \A i \in DOMAIN vmas :
         /\ vmas[i].start \in 0 .. USER_VA_TOP /\ vmas[i].end \in 0 .. USER_VA_TOP
         /\ vmas[i].prot \in Prot \cup {RW} /\ vmas[i].flags \in {"mmap", "brk"}
         /\ ToSet(vmas[i].pages) \subseteq 0 .. NumFrames
    /\ brk_cur \in USER_BRK_BASE .. (USER_BRK_BASE + BRK_RESERVE)
    /\ Len(grown) <= USER_STACK_GROWN_MAX
    /\ l3 \in [Span -> 0 .. NumFrames \cup {Static}]
    /\ \A v \in VPage : {pte[v].pa, tlb[v].pa} \subseteq 0 .. NumFrames
    /\ free \subseteq Frame
    /\ alive \in BOOLEAN /\ failed \in BOOLEAN

\* After any calls, cuts, welds and failures half way, the list is what vma_find and
\* vma_insert_sorted rely on: in address order, without overlap or empty region,
\* within the array, each region with one entry per page.  (mmap stays out of the
\* arena of brk in this instance.)
VmasOrdered ==
    /\ Len(vmas) <= VMA_MAX_PER_TASK
    /\ \A i \in DOMAIN vmas :
         /\ vmas[i].start < vmas[i].end
         /\ vmas[i].start % PAGE_SIZE = 0 /\ vmas[i].end % PAGE_SIZE = 0
         /\ Len(vmas[i].pages) = Npages(vmas[i].start, vmas[i].end)
         /\ i > 1 => vmas[i - 1].end <= vmas[i].start

Places(f) ==
    Cardinality({<<i, j>> \in (DOMAIN vmas) \X (1 .. Cardinality(VPage)) :
                   j \in DOMAIN vmas[i].pages /\ vmas[i].pages[j] = f})
    + Cardinality({i \in DOMAIN grown : grown[i].pa = f})
    + Cardinality({s \in Span : l3[s] = f})
    + (IF f \in free THEN 1 ELSE 0)

\* "Nothing leaks, nothing is freed twice" (vma.h): every page is free or recorded at
\* exactly one place, a region's array, the list of grown stack pages or the page
\* tables, so munmap and the freeing of the task return what was allocated.
PagesAccounted == \A f \in Frame : Places(f) = 1

\* What the page tables let a program reach is what the records say: a descriptor
\* outside the stack maps the page recorded for that address and grants the
\* permissions of its region, one in the stack zone maps a page grown there.
PteMatchesRecord ==
    \A v \in VPage : pte[v] # Invalid =>
       IF v < STACK_INITIAL_LO
       THEN \E i \in DOMAIN grown : grown[i] = [va |-> v, pa |-> pte[v].pa]
       ELSE LET i == vma_find(vmas, v) IN
            /\ i # 0
            /\ vmas[i].pages[Slot(vmas[i], v)] = pte[v].pa
            /\ pte[v].perm = mmu_prot_to_flags(vmas[i].prot)

ViewOf(v) ==
    LET i == vma_find(vmas, v) IN
    IF i = 0 THEN [prot |-> {}, page |-> -1]
    ELSE [prot |-> vmas[i].prot, page |-> vmas[i].pages[Slot(vmas[i], v)]]
View == [v \in VPage |-> ViewOf(v)]

Promise == INSTANCE AddressMap WITH view <- View, Prot <- Prot \cup {RW}

\* The list, with its cuts, welds, slots and arrays, implements the address map: what a
\* call does to the addresses of the program does not depend on how they are recorded.
MapSpec == Promise!Init /\ [][vmas' = vmas \/ Promise!Next]_vmas

\* "In which case nothing was modified" (vma.h): an error from mmap, munmap, mprotect
\* or brk leaves every address with the protection and the page it had, although the
\* list may keep the first of two cuts.
FailedCallKeepsMap == [][failed' => View' = View]_asvars

\* A faulting access is not retried for ever: it goes through or the task is ended,
\* also when the page tables could not be extended.
AccessResolves == (access # NoAccess) ~> (access = NoAccess)

\* The regions, the pages they record and the page tables agree after any calls and faults,
\* whichever of them fail (vma.c, mmu.c:183-300).
RecordsSound == AsTypeOK /\ VmasOrdered /\ PagesAccounted /\ PteMatchesRecord

\* What the calls promise the program: MapSpec, also when they fail.
CallsAsPromised == MapSpec /\ FailedCallKeepsMap
=============================================================================
