-------------------------------- MODULE Pmm --------------------------------
(***************************************************************************)
(* The physical page allocator, src/mm/pmm/pmm.c, with each call as one    *)
(* step: calls made while IRQs are masked (boot, page faults, the reaping  *)
(* pass of the timer), or that no other call interrupts.  PmmSteps opens   *)
(* the calls up.                                                           *)
(*                                                                         *)
(* Pages are numbered from 0 as in the code (pfn).  The words of the       *)
(* bitmap have WordBits bits, 64 in the code; the last word may have bits  *)
(* for pages that do not exist.  holders is auxiliary: how many callers   *)
(* were given a page and have not given it back.                           *)
(***************************************************************************)
EXTENDS Integers, FiniteSets

CONSTANTS WordBits, total_pages, reserved_pages,
          MaxCount               \* bound: the largest block asked for

ASSUME PmmAssumption ==
    /\ WordBits \in Nat \ {0}
    /\ total_pages \in Nat
    /\ reserved_pages \in 1 .. total_pages   \* kernel image and bitmap
    /\ MaxCount \in Nat

VARIABLES bitmap, used_pages, holders, ret

pmmvars == <<bitmap, used_pages, holders, ret>>

bitmap_size == (total_pages + WordBits - 1) \div WordBits
Bits == 0 .. (bitmap_size * WordBits - 1)
Pfn == 0 .. (total_pages - 1)
Usable == reserved_pages .. (total_pages - 1)
Null == -1                       \* the address 0, which is below mem_region_start

PmmInit ==                          \* pmm_init
    /\ bitmap = [b \in Bits |-> b < reserved_pages \/ b >= total_pages]
    /\ used_pages = reserved_pages
    /\ holders = [p \in Pfn |-> 0]
    /\ ret = [count |-> 0, pfn |-> Null]

SetBits(pages) == [b \in Bits |-> bitmap[b] \/ b \in pages]
ClearBits(pages) == [b \in Bits |-> bitmap[b] /\ b \notin pages]

Gained(pages) == [p \in Pfn |-> IF p \in pages THEN holders[p] + 1 ELSE holders[p]]
Lost(pages) == [p \in Pfn |-> IF p \in pages /\ holders[p] > 0 THEN holders[p] - 1 ELSE holders[p]]

Returns(count, pfn) == ret' = [count |-> count, pfn |-> pfn]

\* Mutant: used_pages counts calls, not pages.
TakeCountsOne(count, pfn) ==
    /\ bitmap' = SetBits(pfn .. (pfn + count - 1))
    /\ used_pages' = used_pages + 1
    /\ holders' = Gained(pfn .. (pfn + count - 1))
    /\ Returns(count, pfn)

Take(count, pfn) ==
    /\ bitmap' = SetBits(pfn .. (pfn + count - 1))
    /\ used_pages' = used_pages + count
    /\ holders' = Gained(pfn .. (pfn + count - 1))
    /\ Returns(count, pfn)

OutOfMemory(count) ==
    /\ Returns(count, Null)
    /\ UNCHANGED <<bitmap, used_pages, holders>>

Word(i) == (i * WordBits) .. (i * WordBits + WordBits - 1)

\* The word whose bits the inner loop looks at: the first that is not all ones.
Scanned(i) ==
    /\ \E b \in Word(i) : ~bitmap[b]
    /\ \A j \in 0 .. (i - 1) : \A b \in Word(j) : bitmap[b]

\* The bit at which the inner loop stops: a clear one, or one past the last page.
StopsAt(i, pfn) ==
    /\ pfn >= total_pages \/ ~bitmap[pfn]
    /\ \A b \in (i * WordBits) .. (pfn - 1) : b < total_pages /\ bitmap[b]

pmm_allocate_page ==
    \/ \E i \in 0 .. (bitmap_size - 1) : \E pfn \in Word(i) :
          /\ Scanned(i) /\ StopsAt(i, pfn)
          /\ IF pfn >= total_pages THEN OutOfMemory(1) ELSE Take(1, pfn)
    \/ /\ \A i \in 0 .. (bitmap_size - 1) : ~Scanned(i)
       /\ OutOfMemory(1)

\* Mutant: the last page of the run is not tested.
ClearRunShort(start, count) ==
    /\ start >= reserved_pages /\ start + count <= total_pages
    /\ \A b \in start .. (start + count - 2) : ~bitmap[b]

\* Mutant: the search stops before the last page.
ClearRunBelowLast(start, count) ==
    /\ start >= reserved_pages /\ start + count < total_pages
    /\ \A b \in start .. (start + count - 1) : ~bitmap[b]

\* run_length reaches count at the end of the first run of count clear bits.
ClearRun(start, count) ==
    /\ start >= reserved_pages /\ start + count <= total_pages
    /\ \A b \in start .. (start + count - 1) : ~bitmap[b]

pmm_allocate_pages(count) ==
    \/ count = 0 /\ OutOfMemory(0)
    \/ count = 1 /\ pmm_allocate_page
    \/ /\ count > 1
       /\ \/ \E start \in Pfn :
                /\ ClearRun(start, count)
                /\ \A s \in 0 .. (start - 1) : ~ClearRun(s, count)
                /\ Take(count, start)
          \/ /\ \A start \in Pfn : ~ClearRun(start, count)
             /\ OutOfMemory(count)

\* pmm_free_page returns early for an address outside the region, for a
\* reserved page and for a page that is not allocated.
Freeable(pfn) == pfn \in Pfn /\ pfn >= reserved_pages /\ bitmap[pfn]

\* Callers give back pages they hold; a page they do not hold is one that
\* nobody holds (a second release), a reserved one or no page at all.
pmm_free_pages(pfn, count) ==
    LET pages == {p \in pfn .. (pfn + count - 1) : Freeable(p)}
    IN  /\ bitmap' = ClearBits(pages)
        /\ used_pages' = used_pages - Cardinality(pages)
        /\ holders' = Lost(pfn .. (pfn + count - 1))
        /\ UNCHANGED ret

PmmNext ==
    \/ \E count \in 0 .. MaxCount : pmm_allocate_pages(count)
    \/ \E pfn \in -1 .. total_pages, count \in 0 .. MaxCount : pmm_free_pages(pfn, count)

PmmSpec == PmmInit /\ [][PmmNext]_pmmvars
----------------------------------------------------------------------------
(* Properties.                                                             *)

held == {p \in Pfn : holders[p] > 0}

\* pmm.c: used_pages stays between the reserved count and the total, no page has two holders,
\* and what an allocation returns is NULL or a usable page.
PmmTypeOK ==
    /\ bitmap \in [Bits -> BOOLEAN]
    /\ used_pages \in reserved_pages .. total_pages
    /\ holders \in [Pfn -> 0 .. 1]
    /\ ret \in [count : 0 .. MaxCount, pfn : {Null} \cup Usable]

\* The bitmap is the ledger: after any calls a bit is set exactly when its page
\* is reserved, is held by a caller, or does not exist (pmm.c:71-92).  A page
\* nobody holds is never lost, and a page somebody holds is never free.
BitmapIsLedger ==
    \A b \in Bits : bitmap[b] <=> b \notin Usable \/ b \in held

\* used_pages, which /proc/meminfo reports, counts the reserved pages and those
\* held, however many releases were refused (pmm.c:94, 122, 158, 211).
UsedIsCount == used_pages = reserved_pages + Cardinality(held)

Ledger == INSTANCE PageLedger WITH Pages <- Pfn, Reserved <- Pfn \ Usable

\* The allocator implements the ledger: no page is handed out while it is held,
\* and no reserved page ever is (pmm.c:103-176).
LedgerSpec == Ledger!Spec

FreeRun(start, count) ==
    /\ start + count <= total_pages
    /\ start .. (start + count - 1) \subseteq Usable \ held

\* Allocation is first fit and complete: a request for count pages gets the
\* lowest run of count pages that nobody holds, and is refused only when there
\* is none, wherever the run lies and whatever words it crosses.  The search
\* for one page and the search for several differ (pmm.c:106-128, 147-166).
FirstFit ==
    [][\A count \in 1 .. MaxCount :
         ret'.count = count /\ pmm_allocate_pages(count) =>
            IF ret'.pfn = Null
            THEN \A start \in Usable : ~FreeRun(start, count)
            ELSE /\ FreeRun(ret'.pfn, count)
                 /\ \A start \in Usable : FreeRun(start, count) => ret'.pfn <= start]_pmmvars

\* Bitmap, counter and what the callers hold agree after any calls (pmm.c:71-212).
AccountsAgree == PmmTypeOK /\ BitmapIsLedger /\ UsedIsCount
=============================================================================
