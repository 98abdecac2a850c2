------------------------------ MODULE PmmSteps ------------------------------
(***************************************************************************)
(* The page allocator, src/mm/pmm/pmm.c, one load or store at a time.      *)
(*                                                                         *)
(* A task in Unmasked calls it from a syscall, which runs with IRQs on, so *)
(* the timer can switch to another task between any two steps.  The other  *)
(* tasks call it with IRQs masked (page faults, boot, the reaping pass):   *)
(* once such a call has begun nobody else runs until it returns.  The      *)
(* allocator has no lock.                                                  *)
(*                                                                         *)
(* bitmap is the set of the bits that are 1.  A call is a record: at, the  *)
(* step it is about to take; count, as asked for; pfn, the loop variable;  *)
(* run, the length of the run that ends before pfn; left, the pages still  *)
(* to set or to free; reg, the value loaded for a read-modify-write.  got  *)
(* is auxiliary, the pages each task was given and has not given back, and *)
(* before the books as they were when the CPU was last outside the         *)
(* allocator.                                                              *)
(***************************************************************************)
EXTENDS Integers, FiniteSets

CONSTANTS Caller, Unmasked, WordBits, total_pages, reserved_pages,
          MaxCount,              \* bound: the largest block asked for
          Width                  \* of used_pages; 64 in the code

ASSUME StepsAssumption ==
    /\ Unmasked \subseteq Caller
    /\ WordBits \in Nat \ {0}
    /\ total_pages \in Nat
    /\ reserved_pages \in 1 .. total_pages   \* kernel image and bitmap
    /\ MaxCount \in Nat
    /\ 2^Width \in Nat /\ total_pages < 2^Width   \* the counter holds every count

VARIABLES bitmap, used_pages, call, got, before

stepsvars == <<bitmap, used_pages, call, got, before>>

bitmap_size == (total_pages + WordBits - 1) \div WordBits
Pfn == 0 .. (total_pages - 1)
Usable == reserved_pages .. (total_pages - 1)
Word(i) == (i * WordBits) .. (i * WordBits + WordBits - 1)
WordOf(pfn) == pfn \div WordBits
Loaded(pfn) == bitmap \cap Word(WordOf(pfn))
Null == -1

Resting == [at |-> "idle", count |-> 0, pfn |-> 0, run |-> 0, left |-> 0, reg |-> {}]

StepsInit ==
    /\ bitmap = (0 .. (reserved_pages - 1)) \cup (total_pages .. (bitmap_size * WordBits - 1))
    /\ used_pages = reserved_pages
    /\ call = [t \in Caller |-> Resting]
    /\ got = [t \in Caller |-> {}]
    /\ before = [bitmap |-> bitmap, used |-> used_pages, holders |-> [p \in Pfn |-> 0],
                 ret |-> [count |-> 0, pfn |-> Null]]

MayRun(t) == \A u \in Caller \ Unmasked : u # t => call[u].at = "idle"

AtStep(t, step) == MayRun(t) /\ call[t].at = step
ContinueAt(t, c) == call' = [call EXCEPT ![t] = c] /\ UNCHANGED before

\* The call of t returns; the books are what it leaves behind.
CallReturns(t, ret) ==
    /\ call' = [call EXCEPT ![t] = Resting]
    /\ before' = [bitmap |-> bitmap', used |-> used_pages',
                  holders |-> [p \in Pfn |-> Cardinality({u \in Caller : p \in got'[u]})],
                  ret |-> ret]

Fail(t) ==
    /\ UNCHANGED <<bitmap, used_pages, got>>
    /\ CallReturns(t, [count |-> call[t].count, pfn |-> Null])

pmm_allocate_pages(t, count) ==
    /\ AtStep(t, "idle") /\ count > 0
    /\ ContinueAt(t, [Resting EXCEPT !.at = IF count = 1 THEN "word" ELSE "run",
                            !.count = count, !.left = count,
                            !.pfn = IF count = 1 THEN 0 ELSE reserved_pages])
    /\ UNCHANGED <<bitmap, used_pages, got>>

\* pmm_allocate_page: is word i all ones?  pfn is its first bit.
ScanWord(t) ==
    LET pfn == call[t].pfn
    IN  /\ AtStep(t, "word")
        /\ \/ /\ WordOf(pfn) = bitmap_size /\ Fail(t)
           \/ /\ WordOf(pfn) < bitmap_size
              /\ ContinueAt(t, IF Word(WordOf(pfn)) \subseteq bitmap
                         THEN [call[t] EXCEPT !.pfn = pfn + WordBits]
                         ELSE [call[t] EXCEPT !.at = "bit"])
              /\ UNCHANGED <<bitmap, used_pages, got>>

\* The inner loop.  After the last bit of a word it goes on to the next word.
ScanBit(t) ==
    LET pfn == call[t].pfn
    IN  /\ AtStep(t, "bit")
        /\ \/ pfn >= total_pages /\ Fail(t)
           \/ /\ pfn < total_pages
              /\ ContinueAt(t, IF pfn \notin bitmap
                         THEN [call[t] EXCEPT !.at = "set"]
                         ELSE [call[t] EXCEPT !.pfn = pfn + 1,
                                              !.at = IF (pfn + 1) % WordBits = 0 THEN "word" ELSE "bit"])
              /\ UNCHANGED <<bitmap, used_pages, got>>

\* Mutant: run_length is not reset at an allocated page.
ScanRunKeeps(t) ==
    LET c == call[t]
        run == IF c.pfn \in bitmap THEN c.run ELSE c.run + 1
    IN  /\ AtStep(t, "run")
        /\ \/ /\ c.pfn = total_pages /\ Fail(t)
           \/ /\ c.pfn < total_pages
              /\ ContinueAt(t, IF run = c.count
                         THEN [c EXCEPT !.at = "set", !.pfn = c.pfn + 1 - run, !.run = 0]
                         ELSE [c EXCEPT !.pfn = c.pfn + 1, !.run = run])
              /\ UNCHANGED <<bitmap, used_pages, got>>

\* The loop of pmm_allocate_pages: one test per page, until the run is long
\* enough; pfn then goes back to run_start.
ScanRun(t) ==
    LET c == call[t]
        run == IF c.pfn \in bitmap THEN 0 ELSE c.run + 1
    IN  /\ AtStep(t, "run")
        /\ \/ /\ c.pfn = total_pages /\ Fail(t)
           \/ /\ c.pfn < total_pages
              /\ ContinueAt(t, IF run = c.count
                         THEN [c EXCEPT !.at = "set", !.pfn = c.pfn + 1 - run, !.run = 0]
                         ELSE [c EXCEPT !.pfn = c.pfn + 1, !.run = run])
              /\ UNCHANGED <<bitmap, used_pages, got>>

\* bitmap_set and bitmap_clear load the word that holds the bit, then store it.
LoadWord(t, from, to) ==
    /\ AtStep(t, from)
    /\ ContinueAt(t, [call[t] EXCEPT !.at = to, !.reg = Loaded(call[t].pfn)])
    /\ UNCHANGED <<bitmap, used_pages, got>>

StoreWord(pfn, word) == bitmap' = (bitmap \ Word(WordOf(pfn))) \cup word

SetLoad(t) == LoadWord(t, "set", "set_store")

\* Mutant: the store overwrites the word instead of or-ing the bit into it.
SetStoreForgets(t) ==
    LET c == call[t]
    IN  /\ AtStep(t, "set_store")
        /\ StoreWord(c.pfn, {c.pfn})
        /\ ContinueAt(t, [c EXCEPT !.at = IF c.left = 1 THEN "count" ELSE "set",
                             !.pfn = IF c.left = 1 THEN c.pfn + 1 - c.count ELSE c.pfn + 1,
                             !.left = c.left - 1, !.reg = {}])
        /\ UNCHANGED <<used_pages, got>>

SetStore(t) ==
    LET c == call[t]
    IN  /\ AtStep(t, "set_store")
        /\ StoreWord(c.pfn, c.reg \cup {c.pfn})
        /\ ContinueAt(t, [c EXCEPT !.at = IF c.left = 1 THEN "count" ELSE "set",
                             !.pfn = IF c.left = 1 THEN c.pfn + 1 - c.count ELSE c.pfn + 1,
                             !.left = c.left - 1, !.reg = {}])
        /\ UNCHANGED <<used_pages, got>>

LoadUsed(t, from, to) ==
    /\ AtStep(t, from)
    /\ ContinueAt(t, [call[t] EXCEPT !.at = to, !.reg = {used_pages}])
    /\ UNCHANGED <<bitmap, used_pages, got>>

StoreUsed(t, n) == \E used \in call[t].reg : used_pages' = (used + n) % 2^Width

CountLoad(t) == LoadUsed(t, "count", "count_store")

\* used_pages += count, and the block is the caller's.
CountStore(t) ==
    LET c == call[t]
    IN  /\ AtStep(t, "count_store")
        /\ StoreUsed(t, c.count)
        /\ got' = [got EXCEPT ![t] = @ \cup (c.pfn .. (c.pfn + c.count - 1))]
        /\ UNCHANGED bitmap
        /\ CallReturns(t, [count |-> c.count, pfn |-> c.pfn])

\* A caller gives back a block it holds, whole or in part.
pmm_free_pages(t, pfn, count) ==
    /\ AtStep(t, "idle") /\ count > 0
    /\ pfn .. (pfn + count - 1) \subseteq got[t]
    /\ got' = [got EXCEPT ![t] = @ \ (pfn .. (pfn + count - 1))]
    /\ ContinueAt(t, [Resting EXCEPT !.at = "test", !.count = count, !.left = count, !.pfn = pfn])
    /\ UNCHANGED <<bitmap, used_pages>>

\* The next page of the loop of pmm_free_pages, or the return to the caller.
NextPage(t) ==
    LET c == call[t]
    IN  IF c.left = 1
        THEN CallReturns(t, before.ret)
        ELSE ContinueAt(t, [c EXCEPT !.at = "test", !.pfn = c.pfn + 1, !.left = c.left - 1, !.reg = {}])

\* The early returns for a reserved and for an unallocated page.
FreeTest(t) ==
    LET c == call[t]
    IN  /\ AtStep(t, "test")
        /\ UNCHANGED <<bitmap, used_pages, got>>
        /\ IF c.pfn >= reserved_pages /\ c.pfn \in bitmap
           THEN ContinueAt(t, [c EXCEPT !.at = "clear"])
           ELSE NextPage(t)

ClearLoad(t) == LoadWord(t, "clear", "clear_store")

ClearStore(t) ==
    LET c == call[t]
    IN  /\ AtStep(t, "clear_store")
        /\ StoreWord(c.pfn, c.reg \ {c.pfn})
        /\ ContinueAt(t, [c EXCEPT !.at = "uncount", !.reg = {}])
        /\ UNCHANGED <<used_pages, got>>

UncountLoad(t) == LoadUsed(t, "uncount", "uncount_store")

UncountStore(t) ==
    /\ AtStep(t, "uncount_store")
    /\ StoreUsed(t, -1)
    /\ UNCHANGED <<bitmap, got>>
    /\ NextPage(t)

Step(t) ==
    \/ \E count \in 1 .. MaxCount : pmm_allocate_pages(t, count)
    \/ ScanWord(t) \/ ScanBit(t) \/ ScanRun(t)
    \/ SetLoad(t) \/ SetStore(t) \/ CountLoad(t) \/ CountStore(t)
    \/ \E pfn \in Usable, count \in 1 .. MaxCount : pmm_free_pages(t, pfn, count)
    \/ FreeTest(t) \/ ClearLoad(t) \/ ClearStore(t) \/ UncountLoad(t) \/ UncountStore(t)

StepsNext == \E t \in Caller : Step(t)

StepsSpec == StepsInit /\ [][StepsNext]_stepsvars
-----------------------------------------------------------------------------
(* Properties.                                                             *)

\* A page has one owner: each task's pages (its TLS page, stacks, image and
\* mappings) are its own.
NoSharedPage == \A t, u \in Caller : t # u => got[t] \cap got[u] = {}

\* Whatever the interleaving of calls, and whatever updates of a word are lost by
\* it, the bits of the reserved pages and the padding of the last word stay set
\* (pmm.c:71-92), so the kernel image, the bitmap itself and pages that do not
\* exist are never handed out.
ReservedNeverGiven ==
    /\ (0 .. (bitmap_size * WordBits - 1)) \ Usable \subseteq bitmap
    /\ \A t \in Caller : got[t] \subseteq Usable

Atomic == INSTANCE Pmm WITH
    bitmap <- [b \in 0 .. (bitmap_size * WordBits - 1) |-> b \in before.bitmap],
    used_pages <- before.used,
    holders <- before.holders,
    ret <- before.ret

\* Calls that are not interrupted by another call behave as single steps of Pmm:
\* the word-by-word search, the search for a run, the bit-by-bit marking and the
\* page-by-page release (pmm.c:103-212) find, mark and count what Pmm says.
AtomicSpec == Atomic!PmmSpec
=============================================================================
