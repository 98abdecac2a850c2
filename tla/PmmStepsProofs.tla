--------------------------- MODULE PmmStepsProofs ---------------------------
(***************************************************************************)
(* The page allocator one load or store at a time, for any memory, word    *)
(* size and set of callers.  However its calls interleave, the reserved    *)
(* pages are safe.  When no call can be preempted, the second part says    *)
(* what a call knows of the books at each of its places, and that a whole  *)
(* call is one step of Pmm.                                                *)
(***************************************************************************)
EXTENDS PmmSteps, FiniteSetTheorems, TLAPS

Bits == 0 .. (bitmap_size * WordBits - 1)

\* The bits nobody may ever clear.
Fixed == Bits \ Usable

\* The bitmap has a bit for every page: bitmap_size rounds up (pmm.c:54).
LEMMA EveryPageHasABit ==
  /\ bitmap_size \in Nat /\ bitmap_size * WordBits \in Nat
  /\ total_pages <= bitmap_size * WordBits
  /\ Pfn \subseteq Bits /\ Usable \subseteq Pfn
<1> DEFINE n == total_pages + WordBits - 1
<1>1. n \in Nat /\ WordBits \in Nat \ {0}
  BY StepsAssumption
<1>2. n \div WordBits \in Nat /\ n % WordBits \in 0 .. (WordBits - 1)
  BY <1>1
<1>3. n = WordBits * (n \div WordBits) + (n % WordBits)
  BY <1>1
<1>4. bitmap_size = n \div WordBits
  BY DEF bitmap_size
<1>5. bitmap_size * WordBits \in Nat /\ bitmap_size * WordBits = WordBits * bitmap_size
  BY <1>1, <1>2, <1>4
<1>6. total_pages <= bitmap_size * WordBits
  BY <1>1, <1>2, <1>3, <1>4, <1>5, StepsAssumption
<1>7. QED BY <1>2, <1>4, <1>5, <1>6, StepsAssumption DEF Pfn, Bits, Usable

LEMMA WordFacts ==
  ASSUME NEW pfn \in Nat
  PROVE  /\ WordOf(pfn) \in Nat /\ WordOf(pfn) * WordBits \in Nat
         /\ WordOf(pfn) * WordBits <= pfn /\ pfn < WordOf(pfn) * WordBits + WordBits
         /\ pfn \in Word(WordOf(pfn)) /\ Word(WordOf(pfn)) \subseteq Nat
<1> DEFINE w == pfn \div WordBits
<1>0. WordBits \in Nat \ {0}
  BY StepsAssumption
<1>1. w \in Nat /\ pfn % WordBits \in 0 .. (WordBits - 1) /\ pfn = WordBits * w + (pfn % WordBits)
  BY <1>0
<1> HIDE DEF w
<1>2. w * WordBits \in Nat /\ w * WordBits = WordBits * w
  BY <1>0, <1>1
<1>3. w * WordBits <= pfn /\ pfn < w * WordBits + WordBits
  BY <1>0, <1>1, <1>2
<1>4. pfn \in Word(w) /\ Word(w) \subseteq Nat
  BY <1>0, <1>2, <1>3 DEF Word
<1>5. WordOf(pfn) = w
  BY DEF WordOf, w
<1>6. QED BY <1>1, <1>2, <1>3, <1>4, <1>5

----------------------------------------------------------------------------
(* Any interleaving: the reserved pages.                                   *)

Searching == {"word", "bit", "run"}
Marking == {"set", "set_store"}
Counting == {"count", "count_store"}
Freeing == {"test", "clear", "clear_store", "uncount", "uncount_store"}
Places == {"idle"} \cup Searching \cup Marking \cup Counting \cup Freeing

CallRecord == [at : Places, count : Nat, pfn : Nat, run : Nat, left : Nat, reg : SUBSET Int]

\* What a call works on lies among the usable pages, and a word it is about to
\* store has the bits of the reserved pages set, however stale it is.
Safe(c) ==
  /\ c.at # "idle" => c.count > 0
  /\ c.at \in {"word", "bit"} => c.count = 1 /\ c.left = 1
  /\ c.at = "run" => /\ c.left = c.count
                     /\ reserved_pages <= c.pfn - c.run /\ c.pfn <= total_pages
  /\ c.at \in Marking => /\ c.left \in 1 .. c.count
                         /\ reserved_pages <= c.pfn - (c.count - c.left)
                         /\ c.pfn + c.left <= total_pages
  /\ c.at \in Counting => reserved_pages <= c.pfn /\ c.pfn + c.count <= total_pages
  /\ c.at \in Freeing => /\ c.left > 0 /\ reserved_pages <= c.pfn
                         /\ c.pfn + c.left <= total_pages
  /\ c.at \in {"set_store", "clear_store"} => Fixed \cap Word(WordOf(c.pfn)) \subseteq c.reg

RInv ==
  /\ bitmap \in SUBSET Int
  /\ used_pages \in Nat
  /\ call \in [Caller -> CallRecord]
  /\ got \in [Caller -> SUBSET Usable]
  /\ Fixed \subseteq bitmap
  /\ \A t \in Caller : Safe(call[t])

LEMMA RestingSafe == Resting \in CallRecord /\ Safe(Resting)
  BY DEF Resting, CallRecord, Safe, Places, Searching, Marking, Counting, Freeing

\* One call moves on, to c, and the others stay where they are.
LEMMA Onward ==
  ASSUME RInv, NEW t \in Caller, NEW c \in CallRecord, Safe(c), call' = [call EXCEPT ![t] = c],
         bitmap' \in SUBSET Int, Fixed \subseteq bitmap', used_pages' \in Nat,
         got' \in [Caller -> SUBSET Usable]
  PROVE  RInv'
<1>1. call' \in [Caller -> CallRecord] /\ \A u \in Caller : call'[u] = IF u = t THEN c ELSE call[u]
  BY DEF RInv
<1>2. \A u \in Caller : Safe(call'[u])
  BY <1>1 DEF RInv
<1>3. QED BY <1>1, <1>2 DEF RInv

\* The same for a step that only looks.
LEMMA Looks ==
  ASSUME RInv, NEW t \in Caller, NEW c \in CallRecord, Safe(c), ContinueAt(t, c),
         UNCHANGED <<bitmap, used_pages, got>>
  PROVE  RInv'
<1>1. /\ call' = [call EXCEPT ![t] = c] /\ bitmap' = bitmap /\ used_pages' = used_pages /\ got' = got
  BY DEF ContinueAt
<1>2. QED BY <1>1, Onward DEF RInv

LEMMA FailSafe == ASSUME RInv, NEW t \in Caller, Fail(t) PROVE RInv'
<1>1. /\ call' = [call EXCEPT ![t] = Resting]
      /\ bitmap' = bitmap /\ used_pages' = used_pages /\ got' = got
  BY DEF Fail, CallReturns
<1>2. QED BY <1>1, Onward, RestingSafe DEF RInv

LEMMA AllocateSafe ==
  ASSUME RInv, NEW t \in Caller, NEW count \in 1 .. MaxCount, pmm_allocate_pages(t, count)
  PROVE  RInv'
<1> DEFINE c == [Resting EXCEPT !.at = IF count = 1 THEN "word" ELSE "run",
                                !.count = count, !.left = count,
                                !.pfn = IF count = 1 THEN 0 ELSE reserved_pages]
<1>1. PICK a \in {"word", "run"}, p \in {0, reserved_pages} :
        /\ c = [Resting EXCEPT !.at = a, !.count = count, !.left = count, !.pfn = p]
        /\ a = "word" => count = 1 /\ p = 0
        /\ a = "run" => p = reserved_pages
  <2>1. CASE count = 1
    BY <2>1
  <2>2. CASE count # 1
    BY <2>2
  <2>3. QED BY <2>1, <2>2
<1>2. ContinueAt(t, c) /\ UNCHANGED <<bitmap, used_pages, got>>
  BY DEF pmm_allocate_pages
<1> HIDE DEF c
<1>3. /\ c \in CallRecord
      /\ c.at = a /\ c.count = count /\ c.left = count /\ c.pfn = p /\ c.run = 0
  <2>1. a \in Places /\ count \in Nat /\ p \in Nat
    BY <1>1, StepsAssumption DEF Places, Searching
  <2>2. QED BY Zenon, <1>1, <2>1, RestingSafe DEF CallRecord, Resting
<1>4. Safe(c)
  BY <1>1, <1>3, StepsAssumption DEF Safe, Marking, Counting, Freeing
<1>5. QED BY <1>2, <1>3, <1>4, Looks

LEMMA ScanWordSafe == ASSUME RInv, NEW t \in Caller, ScanWord(t) PROVE RInv'
<1> DEFINE c == call[t]
           d == IF Word(WordOf(c.pfn)) \subseteq bitmap
                THEN [c EXCEPT !.pfn = c.pfn + WordBits] ELSE [c EXCEPT !.at = "bit"]
<1>1. c \in CallRecord /\ Safe(c) /\ c.at = "word"
  BY DEF RInv, ScanWord, AtStep
<1>2. CASE Fail(t)
  BY <1>2, FailSafe
<1>3. CASE ContinueAt(t, d) /\ UNCHANGED <<bitmap, used_pages, got>>
  <2>1. d \in CallRecord /\ Safe(d)
    <3> HIDE DEF c
    <3>1. CASE d = [c EXCEPT !.pfn = c.pfn + WordBits]
      BY <1>1, <3>1, StepsAssumption
         DEF CallRecord, Safe, Places, Searching, Marking, Counting, Freeing
    <3>2. CASE d = [c EXCEPT !.at = "bit"]
      BY <1>1, <3>2 DEF CallRecord, Safe, Places, Searching, Marking, Counting, Freeing
    <3>3. QED BY <3>1, <3>2
  <2> HIDE DEF d
  <2>2. QED BY <1>3, <2>1, Looks
<1>4. QED BY <1>2, <1>3 DEF ScanWord

LEMMA ScanBitSafe == ASSUME RInv, NEW t \in Caller, ScanBit(t) PROVE RInv'
<1> DEFINE c == call[t]
           d == IF c.pfn \notin bitmap
                THEN [c EXCEPT !.at = "set"]
                ELSE [c EXCEPT !.pfn = c.pfn + 1,
                               !.at = IF (c.pfn + 1) % WordBits = 0 THEN "word" ELSE "bit"]
<1>1. c \in CallRecord /\ Safe(c) /\ c.at = "bit"
  BY DEF RInv, ScanBit, AtStep
<1>2. CASE Fail(t)
  BY <1>2, FailSafe
<1>3. CASE c.pfn < total_pages /\ ContinueAt(t, d) /\ UNCHANGED <<bitmap, used_pages, got>>
  <2>0. c.pfn \in Nat /\ c.count = 1 /\ c.left = 1
    BY <1>1 DEF CallRecord, Safe
  <2>1. d \in CallRecord /\ Safe(d)
    <3> HIDE DEF c
    <3>1. CASE c.pfn \notin bitmap
      <4>1. c.pfn \in Bits /\ c.pfn \notin Fixed
        BY <1>3, <2>0, <3>1, EveryPageHasABit, StepsAssumption DEF Bits, RInv
      <4>2. reserved_pages <= c.pfn
        BY <4>1 DEF Fixed, Usable
      <4>3. d = [c EXCEPT !.at = "set"]
        BY <3>1
      <4> HIDE DEF d
      <4>4. QED
        BY <1>1, <1>3, <2>0, <4>2, <4>3, StepsAssumption
           DEF CallRecord, Safe, Places, Searching, Marking, Counting, Freeing
    <3>2. CASE c.pfn \in bitmap
      <4>1. PICK a \in {"word", "bit"} : d = [c EXCEPT !.pfn = c.pfn + 1, !.at = a]
        BY Zenon, <3>2
      <4> HIDE DEF d
      <4>2. d \in CallRecord /\ d.at = a /\ d.count = c.count /\ d.left = c.left
        <5>1. a \in Places /\ c.pfn + 1 \in Nat
          BY <2>0, <4>1 DEF Places, Searching
        <5>2. QED BY Zenon, <1>1, <4>1, <5>1 DEF CallRecord
      <4>3. Safe(d)
        BY <2>0, <4>1, <4>2 DEF Safe, Marking, Counting, Freeing
      <4>4. QED BY <4>2, <4>3
    <3>3. QED BY <3>1, <3>2
  <2> HIDE DEF d
  <2>2. QED BY <1>3, <2>1, Looks
<1>4. QED BY <1>2, <1>3 DEF ScanBit

LEMMA ScanRunSafe == ASSUME RInv, NEW t \in Caller, ScanRun(t) PROVE RInv'
<1> DEFINE c == call[t]
           r == IF c.pfn \in bitmap THEN 0 ELSE c.run + 1
           d == IF r = c.count THEN [c EXCEPT !.at = "set", !.pfn = c.pfn + 1 - r, !.run = 0]
                               ELSE [c EXCEPT !.pfn = c.pfn + 1, !.run = r]
<1>1. c \in CallRecord /\ Safe(c) /\ c.at = "run"
  BY DEF RInv, ScanRun, AtStep
<1>2. CASE Fail(t)
  BY <1>2, FailSafe
<1>3. CASE c.pfn < total_pages /\ ContinueAt(t, d) /\ UNCHANGED <<bitmap, used_pages, got>>
  <2>0. /\ c.pfn \in Nat /\ c.run \in Nat /\ c.count \in Nat \ {0} /\ c.left = c.count
        /\ reserved_pages <= c.pfn - c.run /\ c.pfn < total_pages
    BY <1>1, <1>3 DEF CallRecord, Safe
  <2>1. r \in Nat /\ reserved_pages <= c.pfn + 1 - r /\ c.pfn + 1 - r \in Nat
    BY <2>0, StepsAssumption
  <2>2. d \in CallRecord /\ Safe(d)
    <3> HIDE DEF c, r
    <3>1. CASE d = [c EXCEPT !.at = "set", !.pfn = c.pfn + 1 - r, !.run = 0] /\ r = c.count
      <4> HIDE DEF d
      <4>1. /\ d \in CallRecord /\ d.at = "set" /\ d.count = c.count /\ d.left = c.left
            /\ d.pfn = c.pfn + 1 - r
        BY Zenon, <1>1, <2>0, <2>1, <3>1 DEF CallRecord, Places, Marking
      <4>2. Safe(d)
        BY <2>0, <2>1, <3>1, <4>1, StepsAssumption DEF Safe, Marking, Counting, Freeing
      <4>3. QED BY <4>1, <4>2
    <3>2. CASE d = [c EXCEPT !.pfn = c.pfn + 1, !.run = r]
      <4> HIDE DEF d
      <4>1. /\ d \in CallRecord /\ d.at = "run" /\ d.count = c.count /\ d.left = c.left
            /\ d.pfn = c.pfn + 1 /\ d.run = r
        <5>1. c.pfn + 1 \in Nat
          BY <2>0
        <5>2. QED BY Zenon, <1>1, <2>1, <3>2, <5>1 DEF CallRecord
      <4>2. Safe(d)
        BY <2>0, <2>1, <4>1, StepsAssumption DEF Safe, Marking, Counting, Freeing
      <4>3. QED BY <4>1, <4>2
    <3>3. QED BY <3>1, <3>2
  <2> HIDE DEF d
  <2>3. QED BY <1>3, <2>2, Looks
<1>4. QED BY <1>2, <1>3 DEF ScanRun

\* A load sees the fixed bits set.
LEMMA LoadWordSafe ==
  ASSUME RInv, NEW t \in Caller, SetLoad(t) \/ ClearLoad(t) PROVE RInv'
<1> DEFINE c == call[t]
<1>1. c \in CallRecord /\ Safe(c)
  BY DEF RInv
<1>2. PICK from \in {"set", "clear"}, to \in {"set_store", "clear_store"} :
        /\ from = "set" <=> to = "set_store"
        /\ c.at = from
        /\ ContinueAt(t, [c EXCEPT !.at = to, !.reg = Loaded(c.pfn)])
        /\ UNCHANGED <<bitmap, used_pages, got>>
  <2>1. CASE SetLoad(t)
    BY <2>1, Zenon DEF SetLoad, LoadWord, AtStep
  <2>2. CASE ClearLoad(t)
    BY <2>2, Zenon DEF ClearLoad, LoadWord, AtStep
  <2>3. QED BY <2>1, <2>2
<1> DEFINE d == [c EXCEPT !.at = to, !.reg = Loaded(c.pfn)]
<1>3. Loaded(c.pfn) \in SUBSET Int /\ Fixed \cap Word(WordOf(c.pfn)) \subseteq Loaded(c.pfn)
  BY Zenon DEF RInv, Loaded
<1>4. d \in CallRecord /\ Safe(d)
  <2> HIDE DEF c
  <2>1. CASE from = "set" /\ to = "set_store"
    BY Zenon, <1>1, <1>2, <1>3, <2>1 DEF CallRecord, Safe, Places, Searching, Marking, Counting, Freeing
  <2>2. CASE from = "clear" /\ to = "clear_store"
    BY Zenon, <1>1, <1>2, <1>3, <2>2 DEF CallRecord, Safe, Places, Searching, Marking, Counting, Freeing
  <2>3. QED BY <1>2, <2>1, <2>2
<1> HIDE DEF d
<1>5. QED BY <1>2, <1>4, Looks DEF d

LEMMA SetStoreSafe == ASSUME RInv, NEW t \in Caller, SetStore(t) PROVE RInv'
<1> DEFINE c == call[t]
           d == [c EXCEPT !.at = IF c.left = 1 THEN "count" ELSE "set",
                          !.pfn = IF c.left = 1 THEN c.pfn + 1 - c.count ELSE c.pfn + 1,
                          !.left = c.left - 1, !.reg = {}]
<1>1. c \in CallRecord /\ Safe(c) /\ c.at = "set_store"
  BY DEF RInv, SetStore, AtStep
<1>2. /\ call' = [call EXCEPT ![t] = d] /\ used_pages' = used_pages /\ got' = got
      /\ bitmap' = (bitmap \ Word(WordOf(c.pfn))) \cup (c.reg \cup {c.pfn})
  BY DEF SetStore, StoreWord, ContinueAt
<1>3. /\ c.pfn \in Nat /\ c.count \in Nat /\ c.left \in 1 .. c.count /\ c.reg \in SUBSET Int
      /\ reserved_pages <= c.pfn - (c.count - c.left) /\ c.pfn + c.left <= total_pages
      /\ Fixed \cap Word(WordOf(c.pfn)) \subseteq c.reg
  BY <1>1 DEF CallRecord, Safe, Marking
<1>4. bitmap' \in SUBSET Int /\ Fixed \subseteq bitmap'
  BY <1>2, <1>3 DEF RInv
<1>5. d \in CallRecord /\ Safe(d)
  <2> HIDE DEF c
  <2>1. CASE c.left = 1
    <3>1. d = [c EXCEPT !.at = "count", !.pfn = c.pfn + 1 - c.count, !.left = 0, !.reg = {}]
          /\ c.pfn + 1 - c.count \in Nat
      BY <1>3, <2>1, StepsAssumption
    <3> HIDE DEF d
    <3>2. /\ d \in CallRecord /\ d.at = "count" /\ d.count = c.count
          /\ d.pfn = c.pfn + 1 - c.count
      BY Zenon, <1>1, <3>1 DEF CallRecord, Places, Counting
    <3>3. Safe(d)
      BY <1>3, <2>1, <3>2, StepsAssumption DEF Safe, Marking, Counting, Freeing
    <3>4. QED BY <3>2, <3>3
  <2>2. CASE c.left # 1
    <3>1. d = [c EXCEPT !.at = "set", !.pfn = c.pfn + 1, !.left = c.left - 1, !.reg = {}]
          /\ c.left - 1 \in 1 .. c.count
      BY <1>3, <2>2
    <3> HIDE DEF d
    <3>2. /\ d \in CallRecord /\ d.at = "set" /\ d.count = c.count /\ d.left = c.left - 1
          /\ d.pfn = c.pfn + 1
      <4>1. c.pfn + 1 \in Nat /\ c.left - 1 \in Nat /\ "set" \in Places
        BY <1>3, <3>1 DEF Places, Marking
      <4>2. QED BY Zenon, <1>1, <3>1, <4>1 DEF CallRecord
    <3>3. Safe(d)
      BY <1>3, <2>2, <3>1, <3>2, StepsAssumption DEF Safe, Marking, Counting, Freeing
    <3>4. QED BY <3>2, <3>3
  <2>3. QED BY <2>1, <2>2
<1> HIDE DEF d
<1>6. QED BY <1>2, <1>4, <1>5, Onward DEF RInv

LEMMA ClearStoreSafe == ASSUME RInv, NEW t \in Caller, ClearStore(t) PROVE RInv'
<1> DEFINE c == call[t]
           d == [c EXCEPT !.at = "uncount", !.reg = {}]
<1>1. c \in CallRecord /\ Safe(c) /\ c.at = "clear_store"
  BY DEF RInv, ClearStore, AtStep
<1>2. /\ call' = [call EXCEPT ![t] = d] /\ used_pages' = used_pages /\ got' = got
      /\ bitmap' = (bitmap \ Word(WordOf(c.pfn))) \cup (c.reg \ {c.pfn})
  BY DEF ClearStore, StoreWord, ContinueAt
<1>3. /\ c.pfn \in Nat /\ c.reg \in SUBSET Int /\ c.left \in Nat \ {0}
      /\ reserved_pages <= c.pfn /\ c.pfn + c.left <= total_pages
      /\ Fixed \cap Word(WordOf(c.pfn)) \subseteq c.reg
  BY <1>1 DEF CallRecord, Safe, Freeing
<1>4. c.pfn \notin Fixed
  BY <1>3, StepsAssumption DEF Fixed, Usable
<1>5. bitmap' \in SUBSET Int /\ Fixed \subseteq bitmap'
  BY <1>2, <1>3, <1>4 DEF RInv
<1>6. d \in CallRecord /\ Safe(d)
  <2> HIDE DEF c
  <2>1. QED BY Zenon, <1>1, <1>3 DEF CallRecord, Safe, Places, Searching, Marking, Counting, Freeing
<1> HIDE DEF d
<1>7. QED BY <1>2, <1>5, <1>6, Onward DEF RInv

LEMMA LoadUsedSafe ==
  ASSUME RInv, NEW t \in Caller, CountLoad(t) \/ UncountLoad(t) PROVE RInv'
<1> DEFINE c == call[t]
<1>1. c \in CallRecord /\ Safe(c) /\ used_pages \in Int
  BY DEF RInv
<1>2. CASE CountLoad(t)
  <2> DEFINE d == [c EXCEPT !.at = "count_store", !.reg = {used_pages}]
  <2>1. c.at = "count" /\ ContinueAt(t, d) /\ UNCHANGED <<bitmap, used_pages, got>>
    BY <1>2 DEF CountLoad, LoadUsed, AtStep
  <2>2. d \in CallRecord /\ Safe(d)
    <3> HIDE DEF c
    <3>1. QED BY Zenon, <1>1, <2>1 DEF CallRecord, Safe, Places, Searching, Marking, Counting, Freeing
  <2> HIDE DEF d
  <2>3. QED BY <2>1, <2>2, Looks
<1>3. CASE UncountLoad(t)
  <2> DEFINE d == [c EXCEPT !.at = "uncount_store", !.reg = {used_pages}]
  <2>1. c.at = "uncount" /\ ContinueAt(t, d) /\ UNCHANGED <<bitmap, used_pages, got>>
    BY <1>3 DEF UncountLoad, LoadUsed, AtStep
  <2>2. d \in CallRecord /\ Safe(d)
    <3> HIDE DEF c
    <3>1. QED BY Zenon, <1>1, <2>1 DEF CallRecord, Safe, Places, Searching, Marking, Counting, Freeing
  <2> HIDE DEF d
  <2>3. QED BY <2>1, <2>2, Looks
<1>4. QED BY <1>2, <1>3

\* Arithmetic modulo the width of used_pages gives a natural number.
LEMMA Wraps == \A m, n \in Int : (m + n) % 2^Width \in Nat
<1> DEFINE w == 2^Width
<1>1. w \in Nat /\ w > 0
  BY StepsAssumption
<1> HIDE DEF w
<1>2. \A k \in Int : k % w \in Nat
  BY <1>1
<1>3. QED BY <1>2 DEF w

LEMMA CountStoreSafe == ASSUME RInv, NEW t \in Caller, CountStore(t) PROVE RInv'
<1> DEFINE c == call[t]
<1>1. c \in CallRecord /\ Safe(c) /\ c.at = "count_store"
  BY DEF RInv, CountStore, AtStep
<1>2. /\ call' = [call EXCEPT ![t] = Resting] /\ bitmap' = bitmap
      /\ got' = [got EXCEPT ![t] = @ \cup (c.pfn .. (c.pfn + c.count - 1))]
      /\ \E used \in c.reg : used_pages' = (used + c.count) % 2^Width
  BY DEF CountStore, StoreUsed, CallReturns
<1>3. c.reg \subseteq Int /\ c.count \in Nat /\ c.pfn \in Nat
      /\ reserved_pages <= c.pfn /\ c.pfn + c.count <= total_pages
  BY <1>1 DEF CallRecord, Safe, Counting
<1>4. used_pages' \in Nat
  BY <1>2, <1>3, Wraps
<1>5. c.pfn .. (c.pfn + c.count - 1) \subseteq Usable
  BY <1>3, StepsAssumption DEF Usable
<1>6. got' \in [Caller -> SUBSET Usable]
  BY <1>2, <1>5 DEF RInv
<1>7. QED BY <1>2, <1>4, <1>6, RestingSafe, Onward DEF RInv

LEMMA FreeSafe ==
  ASSUME RInv, NEW t \in Caller, NEW pfn \in Usable, NEW count \in 1 .. MaxCount,
         pmm_free_pages(t, pfn, count)
  PROVE  RInv'
<1> DEFINE c == [Resting EXCEPT !.at = "test", !.count = count, !.left = count, !.pfn = pfn]
<1>1. /\ call' = [call EXCEPT ![t] = c] /\ bitmap' = bitmap /\ used_pages' = used_pages
      /\ pfn .. (pfn + count - 1) \subseteq got[t]
      /\ got' = [got EXCEPT ![t] = @ \ (pfn .. (pfn + count - 1))]
  BY DEF pmm_free_pages, ContinueAt
<1>2. count \in Nat \ {0} /\ pfn \in Nat /\ reserved_pages <= pfn
  BY StepsAssumption DEF Usable
<1>3. pfn + count <= total_pages
  <2>1. pfn + count - 1 \in pfn .. (pfn + count - 1)
    BY <1>2
  <2>2. pfn + count - 1 \in Usable
    BY <1>1, <2>1 DEF RInv
  <2>3. QED BY <1>2, <2>2, StepsAssumption DEF Usable
<1>4. /\ c \in CallRecord
      /\ c.at = "test" /\ c.count = count /\ c.left = count /\ c.pfn = pfn
  BY Zenon, <1>2, RestingSafe DEF CallRecord, Resting, Places, Freeing
<1> HIDE DEF c
<1>5. Safe(c)
  BY <1>2, <1>3, <1>4 DEF Safe, Marking, Counting, Freeing
<1>6. got' \in [Caller -> SUBSET Usable]
  BY <1>1 DEF RInv
<1>7. QED BY <1>1, <1>4, <1>5, <1>6, Onward DEF RInv

LEMMA NextPageSafe ==
  ASSUME RInv, NEW t \in Caller, call[t].at \in Freeing, NextPage(t),
         bitmap' = bitmap, got' = got, used_pages' \in Nat
  PROVE  RInv'
<1> DEFINE c == call[t]
           d == [c EXCEPT !.at = "test", !.pfn = c.pfn + 1, !.left = c.left - 1, !.reg = {}]
<1>1. c \in CallRecord /\ Safe(c) /\ c.at \in Freeing
  BY DEF RInv
<1>2. CASE c.left = 1
  <2>1. call' = [call EXCEPT ![t] = Resting]
    BY <1>2 DEF NextPage, CallReturns
  <2>2. QED BY <2>1, RestingSafe, Onward DEF RInv
<1>3. CASE c.left # 1
  <2>1. call' = [call EXCEPT ![t] = d]
    BY <1>3 DEF NextPage, ContinueAt
  <2>2. /\ c.pfn \in Nat /\ c.count \in Nat \ {0} /\ c.left \in Nat /\ c.left > 1
        /\ reserved_pages <= c.pfn /\ c.pfn + c.left <= total_pages
    BY <1>1, <1>3 DEF CallRecord, Safe, Freeing
  <2>3. c.pfn + 1 \in Nat /\ c.left - 1 \in Nat /\ "test" \in Places
    BY <2>2 DEF Places, Freeing
  <2>4. /\ d \in CallRecord
        /\ d.at = "test" /\ d.count = c.count /\ d.left = c.left - 1 /\ d.pfn = c.pfn + 1
    <3> HIDE DEF c
    <3>1. QED BY Zenon, <1>1, <2>3 DEF CallRecord
  <2> HIDE DEF d
  <2>5. Safe(d)
    BY <2>2, <2>4, StepsAssumption DEF Safe, Marking, Counting, Freeing
  <2>6. QED BY <2>1, <2>4, <2>5, Onward DEF RInv
<1>4. QED BY <1>2, <1>3

LEMMA FreeTestSafe == ASSUME RInv, NEW t \in Caller, FreeTest(t) PROVE RInv'
<1> DEFINE c == call[t]
           d == [c EXCEPT !.at = "clear"]
<1>1. /\ c \in CallRecord /\ Safe(c) /\ c.at = "test"
      /\ UNCHANGED <<bitmap, used_pages, got>>
  BY DEF RInv, FreeTest, AtStep
<1>2. CASE ContinueAt(t, d)
  <2>1. d \in CallRecord /\ Safe(d)
    <3> HIDE DEF c
    <3>1. QED BY <1>1 DEF CallRecord, Safe, Places, Searching, Marking, Counting, Freeing
  <2> HIDE DEF d
  <2>2. QED BY <1>1, <1>2, <2>1, Looks
<1>3. CASE NextPage(t)
  BY <1>1, <1>3, NextPageSafe DEF RInv, Freeing
<1>4. QED BY <1>2, <1>3 DEF FreeTest

LEMMA UncountStoreSafe == ASSUME RInv, NEW t \in Caller, UncountStore(t) PROVE RInv'
<1>1. /\ call[t] \in CallRecord /\ call[t].at = "uncount_store"
      /\ bitmap' = bitmap /\ got' = got /\ NextPage(t)
      /\ \E used \in call[t].reg : used_pages' = (used + -1) % 2^Width
  BY DEF RInv, UncountStore, AtStep, StoreUsed
<1>2. used_pages' \in Nat
  BY <1>1, Wraps DEF CallRecord
<1>3. QED BY <1>1, <1>2, NextPageSafe DEF Freeing

LEMMA InitSafe == StepsInit => RInv
<1> SUFFICES ASSUME StepsInit PROVE RInv
  OBVIOUS
<1>1. bitmap \in SUBSET Int /\ Fixed \subseteq bitmap
  BY EveryPageHasABit, StepsAssumption DEF StepsInit, Fixed, Bits, Usable
<1>2. used_pages \in Nat
  BY StepsAssumption DEF StepsInit
<1>3. call \in [Caller -> CallRecord] /\ \A t \in Caller : Safe(call[t])
  BY RestingSafe DEF StepsInit
<1>4. got \in [Caller -> SUBSET Usable]
  BY DEF StepsInit
<1>5. QED BY <1>1, <1>2, <1>3, <1>4 DEF RInv

LEMMA NextSafe == RInv /\ [StepsNext]_stepsvars => RInv'
<1> SUFFICES ASSUME RInv, [StepsNext]_stepsvars PROVE RInv'
  OBVIOUS
<1>1. CASE UNCHANGED stepsvars
  BY <1>1 DEF stepsvars, RInv
<1>2. ASSUME NEW t \in Caller, Step(t) PROVE RInv'
  BY <1>2, AllocateSafe, ScanWordSafe, ScanBitSafe, ScanRunSafe, LoadWordSafe, SetStoreSafe,
     LoadUsedSafe, CountStoreSafe, FreeSafe, FreeTestSafe, ClearStoreSafe, UncountStoreSafe
     DEF Step
<1>3. QED BY <1>1, <1>2 DEF StepsNext

LEMMA RInvariance == StepsSpec => []RInv
  BY InitSafe, NextSafe, PTL DEF StepsSpec

\* However the calls of the tasks interleave, and whichever of their updates of a
\* word are lost, the bits of the reserved pages and of the padding stay set and
\* none of those pages is ever handed out (bitmap_set, bitmap_clear and the scans
\* of pmm_allocate_page and pmm_allocate_pages, pmm.c:16-34, 103-181).
THEOREM ReservedPagesAreSafe == StepsSpec => []ReservedNeverGiven
<1>1. RInv => ReservedNeverGiven
  BY DEF RInv, ReservedNeverGiven, Fixed, Bits
<1>2. QED BY <1>1, RInvariance, PTL

----------------------------------------------------------------------------
(* Masked calls: the inductive invariant.                                  *)

\* s is the first page of the lowest block of n pages that B leaves free.
FirstRun(B, n, s) ==
  /\ s .. (s + n - 1) \subseteq Usable \ B
  /\ \A r \in 0 .. (s - 1) : ~(r .. (r + n - 1) \subseteq Usable \ B)

\* No block of n pages is free.
NoRun(B, n) == \A r \in Nat : ~(r .. (r + n - 1) \subseteq Usable \ B)

\* The books x agree with each other: every page but the usable ones is marked,
\* the count is that of the marked pages, and a marked usable page has one holder.
Books(x) ==
  /\ x.bitmap \in SUBSET Bits /\ Fixed \subseteq x.bitmap
  /\ x.used = reserved_pages + Cardinality(Usable \cap x.bitmap)
  /\ x.holders = [p \in Pfn |-> IF p \in Usable \cap x.bitmap THEN 1 ELSE 0]

\* The pages of a call's block it is done with, and the block.
Done(c) == c.count - c.left
Start(c) == c.pfn - Done(c)
Block(c) == Start(c) .. (Start(c) + c.count - 1)

\* Where call c stands, when it found marks B and count U: the marks are now bm, the
\* count used, and the pages that callers hold G.
LooksOnly(c, B, U, bm, used, G) ==
  c.at \in Searching =>
    /\ bm = B /\ used = U /\ G = Usable \cap B
    /\ c.at \in {"word", "bit"} => 0 .. (c.pfn - 1) \subseteq B
    /\ c.at = "word" => \E i \in 0 .. bitmap_size : c.pfn = i * WordBits
    /\ c.at = "bit" => \E b \in Word(WordOf(c.pfn)) \cap Bits : b \notin B
    /\ c.at = "run" =>
         /\ c.run < c.count /\ c.count > 1
         /\ (c.pfn - c.run) .. (c.pfn - 1) \cap B = {}
         /\ c.pfn - c.run = reserved_pages \/ c.pfn - c.run - 1 \in B
         /\ \A r \in Nat : r + c.count <= c.pfn => ~(r .. (r + c.count - 1) \subseteq Usable \ B)

Takes(c, B, U, bm, used, G) ==
  c.at \in Marking \cup Counting =>
    /\ used = U /\ G = Usable \cap B
    /\ c.at \in Marking => /\ FirstRun(B, c.count, Start(c))
                           /\ bm = B \cup (Start(c) .. (c.pfn - 1))
    /\ c.at \in Counting => /\ FirstRun(B, c.count, c.pfn)
                            /\ bm = B \cup (c.pfn .. (c.pfn + c.count - 1))
    /\ c.at = "set_store" => c.reg = bm \cap Word(WordOf(c.pfn))
    /\ c.at = "count_store" => c.reg = {used}

GivesBack(c, B, U, bm, used, G) ==
  c.at \in Freeing =>
    /\ c.left <= c.count
    /\ Block(c) \subseteq Usable \cap B /\ G = (Usable \cap B) \ Block(c)
    /\ used = U - Done(c)
    /\ bm = B \ (Start(c) .. (IF c.at \in {"uncount", "uncount_store"} THEN c.pfn ELSE c.pfn - 1))
    /\ c.at = "clear_store" => c.reg = bm \cap Word(WordOf(c.pfn))
    /\ c.at = "uncount_store" => c.reg = {used}

Doing(c, B, U, bm, used, G) ==
  /\ c.at # "idle" /\ c.count \in 1 .. MaxCount
  /\ LooksOnly(c, B, U, bm, used, G)
  /\ Takes(c, B, U, bm, used, G)
  /\ GivesBack(c, B, U, bm, used, G)

Given == UNION {got[t] : t \in Caller}

\* Between calls the books are those of before; during one, it is as far as its
\* place says.
MInv ==
  /\ Books(before)
  /\ NoSharedPage
  /\ \A t, u \in Caller : call[t].at # "idle" /\ call[u].at # "idle" => t = u
  /\ (\A t \in Caller : call[t].at = "idle") =>
       bitmap = before.bitmap /\ used_pages = before.used /\ Given = Usable \cap before.bitmap
  /\ \A t \in Caller : call[t].at # "idle" =>
       Doing(call[t], before.bitmap, before.used, bitmap, used_pages, Given)

----------------------------------------------------------------------------
(* Words and blocks.                                                       *)

LEMMA TimesMonotone ==
  ASSUME NEW a \in Int, NEW b \in Int, NEW n \in Nat, a <= b
  PROVE  a * n <= b * n /\ a * n \in Int /\ b * n \in Int
<1>1. (b - a) * n \in Nat
  OBVIOUS
<1>2. (b - a) * n = b * n - a * n
  OBVIOUS
<1>3. a * n \in Int /\ b * n \in Int
  OBVIOUS
<1>4. QED BY <1>1, <1>2, <1>3

LEMMA NextWord ==
  ASSUME NEW i \in Nat
  PROVE  /\ i * WordBits \in Nat /\ (i + 1) * WordBits = i * WordBits + WordBits
         /\ \A j \in Nat : j < i => j * WordBits + WordBits <= i * WordBits
<1>0. WordBits \in Nat \ {0}
  BY StepsAssumption
<1>1. i * WordBits \in Nat /\ (i + 1) * WordBits = i * WordBits + WordBits
  BY <1>0
<1>2. ASSUME NEW j \in Nat, j < i PROVE j * WordBits + WordBits <= i * WordBits
  <2>1. (j + 1) * WordBits <= i * WordBits
    BY <1>0, <1>2, TimesMonotone
  <2>2. (j + 1) * WordBits = j * WordBits + WordBits
    BY <1>0
  <2>3. QED BY <2>1, <2>2
<1>3. QED BY <1>1, <1>2

LEMMA WordInBits == ASSUME NEW i \in 0 .. (bitmap_size - 1) PROVE Word(i) \subseteq Bits
<1>1. i \in Nat /\ bitmap_size \in Nat /\ i < bitmap_size /\ WordBits \in Nat
  BY EveryPageHasABit, StepsAssumption
<1>2. i * WordBits \in Nat /\ i * WordBits + WordBits <= bitmap_size * WordBits
      /\ bitmap_size * WordBits \in Nat
  BY <1>1, NextWord
<1>3. QED BY <1>1, <1>2 DEF Word, Bits

LEMMA FirstOfWord == ASSUME NEW i \in Nat PROVE WordOf(i * WordBits) = i
<1> DEFINE n == i * WordBits
           w == WordOf(n)
<1>1. n \in Nat /\ WordBits \in Nat \ {0}
  BY NextWord, StepsAssumption
<1>2. w \in Nat /\ w * WordBits <= n /\ n < w * WordBits + WordBits /\ w * WordBits \in Nat
  BY <1>1, WordFacts
<1> HIDE DEF w
<1>3. ~(w < i)
  BY <1>1, <1>2, NextWord
<1>4. ~(i < w)
  BY <1>1, <1>2, NextWord
<1>5. w = i
  BY <1>2, <1>3, <1>4
<1>6. QED BY <1>5 DEF w

LEMMA WordOfBit == ASSUME NEW b \in Bits PROVE WordOf(b) \in 0 .. (bitmap_size - 1) /\ b \in Nat
<1> DEFINE w == WordOf(b)
<1>1. b \in Nat /\ b < bitmap_size * WordBits /\ bitmap_size \in Nat /\ WordBits \in Nat \ {0}
  BY EveryPageHasABit, StepsAssumption DEF Bits
<1>2. w \in Nat /\ w * WordBits <= b
  BY <1>1, WordFacts
<1>3. ~(bitmap_size <= w)
  <2> HIDE DEF w
  <2>1. QED BY <1>1, <1>2, TimesMonotone
<1>4. QED BY <1>1, <1>2, <1>3

LEMMA BlockSize ==
  ASSUME NEW s \in Int, NEW n \in Nat
  PROVE  IsFiniteSet(s .. (s + n - 1)) /\ Cardinality(s .. (s + n - 1)) = n
  BY FS_Interval

LEMMA UsableFinite ==
  ASSUME NEW S \in SUBSET Usable
  PROVE  /\ IsFiniteSet(S) /\ Cardinality(S) \in Nat
         /\ Cardinality(S) <= total_pages - reserved_pages
<1>1. IsFiniteSet(Usable) /\ Cardinality(Usable) = total_pages - reserved_pages
  <2>1. reserved_pages \in Int /\ total_pages - 1 \in Int /\ reserved_pages <= total_pages
        /\ total_pages \in Int
    BY StepsAssumption
  <2>2. /\ IsFiniteSet(reserved_pages .. (total_pages - 1))
        /\ Cardinality(reserved_pages .. (total_pages - 1))
             = IF reserved_pages > total_pages - 1 THEN 0 ELSE total_pages - 1 - reserved_pages + 1
    BY <2>1, FS_Interval
  <2>3. (IF reserved_pages > total_pages - 1 THEN 0 ELSE total_pages - 1 - reserved_pages + 1)
          = total_pages - reserved_pages
    BY <2>1
  <2>4. QED BY <2>2, <2>3 DEF Usable
<1>2. IsFiniteSet(S) /\ Cardinality(S) <= Cardinality(Usable)
  BY <1>1, FS_Subset
<1>3. QED BY <1>1, <1>2, FS_CardinalityType

\* A block that is free is not counted, and one that is marked is.
LEMMA CountsFree ==
  ASSUME NEW B, NEW s \in Int, NEW n \in Nat, s .. (s + n - 1) \subseteq Usable \ B
  PROVE  /\ Cardinality(Usable \cap B) \in Nat
         /\ Cardinality(Usable \cap (B \cup (s .. (s + n - 1)))) = Cardinality(Usable \cap B) + n
         /\ reserved_pages + Cardinality(Usable \cap B) + n <= total_pages
<1> DEFINE K == s .. (s + n - 1)
           H == Usable \cap B
<1>0. IsFiniteSet(K) /\ Cardinality(K) = n
  BY BlockSize
<1>1. IsFiniteSet(H) /\ Cardinality(H) \in Nat
  BY UsableFinite
<1>2. Usable \cap (B \cup K) = H \cup K /\ H \cap K = {} /\ H \cup K \in SUBSET Usable
  OBVIOUS
<1>3. Cardinality(H \cup K) = Cardinality(H) + Cardinality(K) - Cardinality(H \cap K)
  BY <1>0, <1>1, FS_Union
<1>4. Cardinality(H \cap K) = 0
  BY <1>2, FS_EmptySet
<1>5. Cardinality(H \cup K) <= total_pages - reserved_pages
  BY <1>2, UsableFinite
<1> HIDE DEF H, K
<1>6. Cardinality(H \cup K) = Cardinality(H) + n
  BY <1>0, <1>1, <1>3, <1>4
<1>7. QED BY <1>1, <1>2, <1>5, <1>6, StepsAssumption DEF H, K

LEMMA CountsMarked ==
  ASSUME NEW B, NEW s \in Int, NEW n \in Nat, s .. (s + n - 1) \subseteq Usable \cap B
  PROVE  /\ Cardinality(Usable \cap B) \in Nat
         /\ Cardinality(Usable \cap B) <= total_pages - reserved_pages
         /\ Cardinality(Usable \cap (B \ (s .. (s + n - 1)))) = Cardinality(Usable \cap B) - n
         /\ Cardinality(Usable \cap B) - n \in Nat
<1> DEFINE K == s .. (s + n - 1)
           H == Usable \cap B
<1>0. IsFiniteSet(K) /\ Cardinality(K) = n
  BY BlockSize
<1>1. /\ IsFiniteSet(H) /\ Cardinality(H) \in Nat
      /\ Cardinality(H) <= total_pages - reserved_pages
  BY UsableFinite
<1>2. Usable \cap (B \ K) = H \ K /\ H \cap K = K
  OBVIOUS
<1>3. Cardinality(H \ K) = Cardinality(H) - Cardinality(H \cap K)
  BY <1>0, <1>1, FS_Difference, ZenonT(40)
<1>4. Cardinality(H \ K) \in Nat
  BY UsableFinite
<1> HIDE DEF H, K
<1>5. Cardinality(H \ K) = Cardinality(H) - n
  BY <1>0, <1>2, <1>3
<1>6. QED BY <1>1, <1>2, <1>4, <1>5 DEF H, K

----------------------------------------------------------------------------
(* What a whole call does to the books is a step of Pmm.                   *)

Marked(x) == [b \in Bits |-> b \in x.bitmap]

LEMMA SameNames ==
  /\ Atomic!Bits = Bits /\ Atomic!bitmap_size = bitmap_size /\ Atomic!Pfn = Pfn
  /\ Atomic!Usable = Usable /\ Atomic!Null = Null /\ \A i : Atomic!Word(i) = Word(i)
  BY DEF Atomic!Bits, Bits, Atomic!bitmap_size, bitmap_size, Atomic!Pfn, Pfn, Atomic!Usable, Usable,
         Atomic!Null, Null, Atomic!Word, Word

\* Below the first free page everything is marked.
LEMMA AllMarkedBelow ==
  ASSUME NEW B, Fixed \subseteq B, NEW s \in Nat, s <= bitmap_size * WordBits,
         \A r \in 0 .. (s - 1) : ~(r .. (r + 1 - 1) \subseteq Usable \ B)
  PROVE  0 .. (s - 1) \subseteq B
<1> SUFFICES ASSUME NEW r \in 0 .. (s - 1) PROVE r \in B
  OBVIOUS
<1>1. r \in Nat /\ r \in Bits
  BY EveryPageHasABit DEF Bits
<1>2. r .. (r + 1 - 1) = {r}
  BY <1>1
<1>3. r \notin Usable \ B
  BY <1>2
<1>4. QED BY <1>1, <1>3 DEF Fixed

\* The block that is marked and handed out.
LEMMA TakesAsOne ==
  ASSUME Books(before), NEW n \in 1 .. MaxCount, NEW s \in Nat,
         s .. (s + n - 1) \subseteq Usable \ before.bitmap,
         before'.bitmap = before.bitmap \cup (s .. (s + n - 1)),
         before'.used = before.used + n,
         before'.holders = [p \in Pfn |-> IF p \in Usable \cap before'.bitmap THEN 1 ELSE 0],
         before'.ret = [count |-> n, pfn |-> s]
  PROVE  Atomic!Take(n, s)
<1> DEFINE K == s .. (s + n - 1)
<1>1. Marked(before)' = Atomic!SetBits(K)
  <2>1. \A b \in Bits : (b \in before'.bitmap) <=> (Marked(before)[b] \/ b \in K)
    BY ZenonT(40) DEF Marked
  <2>2. Marked(before)' = [b \in Bits |-> b \in before'.bitmap]
    BY DEF Marked
  <2>3. Atomic!SetBits(K) = [b \in Bits |-> Marked(before)[b] \/ b \in K]
    BY SameNames DEF Atomic!SetBits, Marked, Atomic!Bits, Bits, Atomic!bitmap_size, bitmap_size
  <2>4. QED BY <2>1, <2>2, <2>3
<1>2. before'.holders = Atomic!Gained(K)
  <2>1. \A p \in Pfn : (IF p \in Usable \cap before'.bitmap THEN 1 ELSE 0)
                     = IF p \in K THEN before.holders[p] + 1 ELSE before.holders[p]
    BY DEF Books
  <2>2. Atomic!Gained(K) = [p \in Pfn |-> IF p \in K THEN before.holders[p] + 1 ELSE before.holders[p]]
    BY DEF Atomic!Gained, Atomic!Pfn, Pfn
  <2>3. QED BY <2>1, <2>2
<1>3. Atomic!Returns(n, s)
  BY DEF Atomic!Returns
<1>4. QED BY <1>1, <1>2, <1>3 DEF Atomic!Take, Marked, Bits

LEMMA ClearRunIsFree ==
  ASSUME NEW r \in Nat, NEW n \in Nat \ {0}
  PROVE  Atomic!ClearRun(r, n) <=> r .. (r + n - 1) \subseteq Usable \ before.bitmap
<1> DEFINE K == r .. (r + n - 1)
<1>1. ASSUME r >= reserved_pages, r + n <= total_pages
      PROVE  K \subseteq Usable /\ K \subseteq Bits
  BY <1>1, EveryPageHasABit, StepsAssumption DEF Usable
<1>2. ASSUME K \subseteq Usable PROVE r >= reserved_pages /\ r + n <= total_pages
  <2>1. r \in K /\ r + n - 1 \in K
    OBVIOUS
  <2>2. r \in Usable /\ r + n - 1 \in Usable
    BY <1>2, <2>1
  <2>3. QED BY <2>2, StepsAssumption DEF Usable
<1>3. ASSUME K \subseteq Bits PROVE (\A b \in K : ~Marked(before)[b]) <=> K \cap before.bitmap = {}
  BY <1>3, ZenonT(40) DEF Marked
<1>4. Atomic!ClearRun(r, n) <=> /\ r >= reserved_pages /\ r + n <= total_pages
                                /\ \A b \in K : ~Marked(before)[b]
  BY DEF Atomic!ClearRun, Marked, Bits
<1>5. QED BY <1>1, <1>2, <1>3, <1>4

LEMMA AllocatesAsOne ==
  ASSUME Books(before), NEW n \in 1 .. MaxCount, NEW s \in Nat,
         FirstRun(before.bitmap, n, s),
         before'.bitmap = before.bitmap \cup (s .. (s + n - 1)),
         before'.used = before.used + n,
         before'.holders = [p \in Pfn |-> IF p \in Usable \cap before'.bitmap THEN 1 ELSE 0],
         before'.ret = [count |-> n, pfn |-> s]
  PROVE  Atomic!pmm_allocate_pages(n)
<1> DEFINE B == before.bitmap
<1>0. n \in Nat \ {0} /\ s \in s .. (s + n - 1) /\ s + n - 1 \in s .. (s + n - 1)
  BY StepsAssumption
<1>1. Atomic!Take(n, s)
  BY TakesAsOne DEF FirstRun
<1>2. s \in Usable /\ s + n - 1 \in Usable /\ s \in Pfn /\ s \in Bits /\ s \notin B
  BY <1>0, EveryPageHasABit DEF FirstRun
<1>3. CASE n = 1
  <2> DEFINE i == WordOf(s)
  <2>1. i \in 0 .. (bitmap_size - 1) /\ s \in Word(i)
    BY <1>2, WordOfBit, WordFacts
  <2>2. 0 .. (s - 1) \subseteq B
    <3>1. FirstRun(B, 1, s) /\ Fixed \subseteq B
      BY <1>3 DEF Books
    <3>2. s <= bitmap_size * WordBits
      BY <1>2, EveryPageHasABit DEF Bits
    <3>3. \A r \in 0 .. (s - 1) : ~(r .. (r + 1 - 1) \subseteq Usable \ B)
      BY <3>1 DEF FirstRun
    <3> HIDE DEF B
    <3>4. QED BY <3>1, <3>2, <3>3, AllMarkedBelow
  <2>3. Atomic!Scanned(i)
    <3>1. \E b \in Word(i) : ~Marked(before)[b]
      BY <1>2, <2>1, ZenonT(40) DEF Marked
    <3>2. ASSUME NEW j \in 0 .. (i - 1), NEW b \in Word(j) PROVE Marked(before)[b]
      <4>1. j \in Nat /\ j < i /\ i \in Nat /\ j \in 0 .. (bitmap_size - 1)
        BY <2>1, EveryPageHasABit
      <4>2. j * WordBits \in Nat /\ j * WordBits + WordBits <= i * WordBits
            /\ i * WordBits \in Nat /\ i * WordBits <= s /\ WordBits \in Nat
        BY <4>1, NextWord, WordFacts, StepsAssumption, ZenonT(40)
      <4>3. b \in Bits /\ b \in 0 .. (s - 1)
        <5> HIDE DEF i
        <5>1. b \in Bits
          BY <4>1, WordInBits
        <5>2. QED BY <4>2, <5>1 DEF Word
      <4>4. QED BY <2>2, <4>3, ZenonT(40) DEF Marked
    <3> HIDE DEF i
    <3>3. QED BY <3>1, <3>2, SameNames, ZenonT(40) DEF Atomic!Scanned, Marked, Bits
  <2>4. Atomic!StopsAt(i, s)
    <3>1. ~Marked(before)[s]
      BY <1>2, ZenonT(40) DEF Marked
    <3>2. ASSUME NEW b \in (i * WordBits) .. (s - 1) PROVE b < total_pages /\ Marked(before)[b]
      <4>1. b \in 0 .. (s - 1) /\ s < total_pages
        <5>1. i * WordBits \in Nat
          BY <2>1, NextWord, EveryPageHasABit
        <5>2. QED BY <1>2, <5>1, StepsAssumption DEF Usable
      <4>2. b \in B /\ b \in Bits
        <5>1. b \in B
          BY <2>2, <4>1
        <5>2. b \in Bits
          BY <5>1 DEF Books
        <5>3. QED BY <5>1, <5>2
      <4>3. Marked(before)[b]
        BY <4>2, ZenonT(40) DEF Marked
      <4>4. QED BY <4>1, <4>3, StepsAssumption
    <3> HIDE DEF i
    <3>3. QED BY <3>1, <3>2, ZenonT(40) DEF Atomic!StopsAt, Marked, Bits
  <2>5. s < total_pages /\ ~(s >= total_pages)
    BY <1>2, StepsAssumption DEF Usable
  <2> HIDE DEF i
  <2>6. Atomic!pmm_allocate_page
    BY SMTT(60), <1>1, <1>3, <2>1, <2>3, <2>4, <2>5, SameNames DEF Atomic!pmm_allocate_page
  <2>7. QED BY <1>3, <2>6 DEF Atomic!pmm_allocate_pages
<1>4. CASE n > 1
  <2>1. ASSUME NEW r \in Nat
        PROVE  Atomic!ClearRun(r, n) => r .. (r + n - 1) \subseteq Usable \ B
    BY <1>0, ClearRunIsFree
  <2>2. Atomic!ClearRun(s, n)
    BY <1>0, ClearRunIsFree DEF FirstRun
  <2>3. \A r \in 0 .. (s - 1) : ~Atomic!ClearRun(r, n)
    BY <2>1 DEF FirstRun
  <2>4. s \in Atomic!Pfn
    BY <1>2, SameNames
  <2>5. QED BY <1>1, <1>4, <2>2, <2>3, <2>4 DEF Atomic!pmm_allocate_pages
<1>5. QED BY <1>0, <1>3, <1>4

LEMMA RefusesAsOne ==
  ASSUME Books(before), NEW n \in 1 .. MaxCount, NoRun(before.bitmap, n),
         before'.bitmap = before.bitmap, before'.used = before.used,
         before'.holders = before.holders, before'.ret = [count |-> n, pfn |-> Null]
  PROVE  Atomic!pmm_allocate_pages(n)
<1> DEFINE B == before.bitmap
<1>0. n \in Nat \ {0}
  BY StepsAssumption
<1>1. Atomic!OutOfMemory(n)
  BY SameNames DEF Atomic!OutOfMemory, Atomic!Returns
<1>2. CASE n = 1
  <2>1. ASSUME NEW i \in 0 .. (bitmap_size - 1) PROVE ~Atomic!Scanned(i)
    <3>1. ASSUME NEW b \in Word(i) PROVE Marked(before)[b]
      <4>1. b \in Bits /\ b \in Nat
        BY WordInBits, WordOfBit
      <4>2. ~(b .. (b + 1 - 1) \subseteq Usable \ B) /\ b .. (b + 1 - 1) = {b}
        BY <1>2, <4>1 DEF NoRun
      <4>3. b \in B
        BY <4>1, <4>2 DEF Books, Fixed
      <4>4. QED BY <4>1, <4>3, ZenonT(40) DEF Marked
    <3>2. QED BY <3>1, SameNames, ZenonT(40) DEF Atomic!Scanned, Marked, Bits
  <2>2. QED BY <1>1, <1>2, <2>1, SameNames DEF Atomic!pmm_allocate_pages, Atomic!pmm_allocate_page
<1>3. CASE n > 1
  <2>1. \A r \in Atomic!Pfn : ~Atomic!ClearRun(r, n)
    <3>1. \A r \in Pfn : r \in Nat
      BY DEF Pfn
    <3>2. \A r \in Nat : ~Atomic!ClearRun(r, n)
      BY <1>0, ClearRunIsFree DEF NoRun
    <3>3. QED BY <3>1, <3>2, SameNames
  <2>2. QED BY <1>1, <1>3, <2>1 DEF Atomic!pmm_allocate_pages
<1>4. QED BY <1>0, <1>2, <1>3

\* The block that is given back: every page of it is marked, so none is refused.
LEMMA FreesAsOne ==
  ASSUME Books(before), NEW n \in 1 .. MaxCount, NEW s \in Nat,
         s .. (s + n - 1) \subseteq Usable \cap before.bitmap,
         before'.bitmap = before.bitmap \ (s .. (s + n - 1)),
         before'.used = before.used - n,
         before'.holders = [p \in Pfn |-> IF p \in Usable \cap before'.bitmap THEN 1 ELSE 0],
         before'.ret = before.ret
  PROVE  Atomic!pmm_free_pages(s, n)
<1> DEFINE K == s .. (s + n - 1)
           F == {p \in K : Atomic!Freeable(p)}
<1>1. F = K
  <2>1. ASSUME NEW p \in K PROVE Atomic!Freeable(p)
    <3>1. p \in Pfn /\ p >= reserved_pages /\ p \in Bits /\ p \in before.bitmap
      BY EveryPageHasABit, StepsAssumption DEF Usable
    <3>2. Marked(before)[p]
      BY <3>1, ZenonT(40) DEF Marked
    <3>3. QED BY <3>1, <3>2, SameNames DEF Atomic!Freeable, Marked, Bits
  <2>2. QED BY <2>1
<1>2. Cardinality(F) = n
  <2>1. n \in Nat /\ s \in Int
    BY StepsAssumption
  <2>2. Cardinality(K) = n
    BY <2>1, BlockSize
  <2> HIDE DEF F, K
  <2>3. QED BY <1>1, <2>2
<1>3. Marked(before)' = Atomic!ClearBits(F)
  <2>1. \A b \in Bits : (b \in before'.bitmap) <=> (Marked(before)[b] /\ b \notin K)
    BY ZenonT(40) DEF Marked
  <2>2. Marked(before)' = [b \in Bits |-> b \in before'.bitmap]
    BY DEF Marked
  <2>3. Atomic!ClearBits(K) = [b \in Bits |-> Marked(before)[b] /\ b \notin K]
    BY SameNames DEF Atomic!ClearBits, Marked, Atomic!Bits, Bits, Atomic!bitmap_size, bitmap_size
  <2> HIDE DEF F, K
  <2>4. [b \in Bits |-> b \in before'.bitmap] = [b \in Bits |-> Marked(before)[b] /\ b \notin K]
    BY <2>1
  <2>5. QED BY <1>1, <2>2, <2>3, <2>4
<1>4. before'.holders = Atomic!Lost(K)
  <2>1. \A p \in Pfn : (IF p \in Usable \cap before'.bitmap THEN 1 ELSE 0)
                     = IF p \in K /\ before.holders[p] > 0
                       THEN before.holders[p] - 1 ELSE before.holders[p]
    BY DEF Books
  <2>2. Atomic!Lost(K) = [p \in Pfn |-> IF p \in K /\ before.holders[p] > 0
                                        THEN before.holders[p] - 1 ELSE before.holders[p]]
    BY DEF Atomic!Lost, Atomic!Pfn, Pfn
  <2>3. QED BY <2>1, <2>2
<1>5. before'.used = before.used - Atomic!Cardinality(F)
  <2> HIDE DEF F
  <2>1. Atomic!Cardinality(F) = Cardinality(F)
    BY DEF Atomic!Cardinality, Cardinality, Atomic!IsFiniteSet, IsFiniteSet
  <2>2. QED BY <1>2, <2>1
<1>6. before'.ret = before.ret
  OBVIOUS
<1>7. QED BY <1>3, <1>4, <1>5, <1>6, Zenon DEF Atomic!pmm_free_pages, Marked, Bits

=============================================================================
