----------------------------- MODULE PmmProofs -----------------------------
(***************************************************************************)
(* The page allocator keeps its books and implements the page ledger, for  *)
(* every size of memory, of the reserved part and of a word.               *)
(***************************************************************************)
EXTENDS Pmm, FiniteSetTheorems, WellFoundedInduction, TLAPS

\* The bitmap has a bit for every page: bitmap_size rounds up (pmm.c:54).
LEMMA EveryPageHasABit ==
  /\ bitmap_size \in Nat
  /\ total_pages <= bitmap_size * WordBits
  /\ Pfn \subseteq Bits
  /\ Usable \subseteq Bits
  /\ Usable \subseteq Pfn
<1> DEFINE n == total_pages + WordBits - 1
<1>1. n \in Nat /\ WordBits \in Nat \ {0}
  BY PmmAssumption
<1>2. n \div WordBits \in Nat /\ n % WordBits \in 0..(WordBits - 1)
  BY <1>1
<1>3. n = WordBits * (n \div WordBits) + (n % WordBits)
  BY <1>1
<1>4. bitmap_size = n \div WordBits
  BY DEF bitmap_size
<1>5. bitmap_size * WordBits \in Nat /\ bitmap_size * WordBits = WordBits * bitmap_size
  BY <1>1, <1>2, <1>4
<1>6. total_pages <= bitmap_size * WordBits
  BY <1>1, <1>2, <1>3, <1>4, <1>5, PmmAssumption
<1>7. QED BY <1>2, <1>4, <1>5, <1>6, PmmAssumption DEF Pfn, Bits, Usable

\* An interval of pages: its size, and its effect on the size of the ledger.
LEMMA BlockSize ==
  ASSUME NEW first \in Int, NEW count \in Nat
  PROVE  /\ IsFiniteSet(first .. (first + count - 1))
         /\ Cardinality(first .. (first + count - 1)) = count
  BY FS_Interval

LEMMA UsableFinite == IsFiniteSet(Usable) /\ Cardinality(Usable) = total_pages - reserved_pages
<1>1. reserved_pages \in Int /\ total_pages - 1 \in Int
  BY PmmAssumption
<1>2. QED BY <1>1, FS_Interval, PmmAssumption DEF Usable

\* The pages held can be counted, and there are no more than the usable ones.
LEMMA HeldFinite ==
  ASSUME NEW H \in SUBSET Usable
  PROVE  /\ IsFiniteSet(H)
         /\ Cardinality(H) \in Nat
         /\ Cardinality(H) <= total_pages - reserved_pages
<1>1. IsFiniteSet(H) /\ Cardinality(H) <= Cardinality(Usable)
  BY UsableFinite, FS_Subset
<1>2. QED BY <1>1, UsableFinite, FS_CardinalityType

\* What must hold between calls: the books agree with each other and no reserved
\* page is held.
IInv == PmmTypeOK /\ BitmapIsLedger /\ UsedIsCount /\ held \subseteq Usable

\* Taking a block of clear bits keeps the books (pmm.c:121-122, 155-158), and
\* the block is made of pages nobody holds.
LEMMA TakeOK ==
  ASSUME IInv, NEW count \in 1 .. MaxCount, NEW pfn \in Nat,
         pfn + count <= total_pages,
         \A b \in pfn .. (pfn + count - 1) : ~bitmap[b],
         Take(count, pfn)
  PROVE  /\ IInv'
         /\ pfn .. (pfn + count - 1) \subseteq Usable \ held
         /\ holders' = [p \in Pfn |-> IF p \in pfn .. (pfn + count - 1) THEN 1 ELSE holders[p]]
<1> DEFINE B == pfn .. (pfn + count - 1)
<1>0. count \in Nat \ {0} /\ MaxCount \in Nat /\ pfn \in B
  BY PmmAssumption
<1>1. B \subseteq Usable \ held /\ B \subseteq Pfn
  <2>1. B \subseteq Pfn
    BY <1>0, PmmAssumption DEF Pfn
  <2>2. B \subseteq Bits
    BY <2>1, EveryPageHasABit
  <2>3. QED BY <2>1, <2>2 DEF IInv, BitmapIsLedger
<1>2. /\ bitmap' = [b \in Bits |-> bitmap[b] \/ b \in B]
      /\ used_pages' = used_pages + count
      /\ holders' = [p \in Pfn |-> IF p \in B THEN holders[p] + 1 ELSE holders[p]]
      /\ ret' = [count |-> count, pfn |-> pfn]
  BY DEF Take, SetBits, Gained, Returns
<1> HIDE DEF B
<1>3. \A p \in Pfn : holders[p] \in 0 .. 1 /\ (p \in held <=> holders[p] = 1)
  BY DEF IInv, PmmTypeOK, held
<1>4. holders' = [p \in Pfn |-> IF p \in B THEN 1 ELSE holders[p]] /\ holders' \in [Pfn -> 0 .. 1]
  <2>1. \A p \in B : holders[p] = 0
    BY <1>1, <1>3
  <2>2. QED BY <1>2, <1>3, <2>1
<1>5. held' = held \cup B
  BY <1>1, <1>3, <1>4 DEF held
<1>6. held \in SUBSET Usable /\ held' \in SUBSET Usable
  BY <1>1, <1>5 DEF IInv
<1>7. Cardinality(held') = Cardinality(held) + count
  <2>1. IsFiniteSet(B) /\ Cardinality(B) = count
    BY <1>0, BlockSize DEF B
  <2>2. held \cap B = {} /\ Cardinality(held \cap B) = 0
    BY <1>1, FS_EmptySet
  <2>3. IsFiniteSet(held) /\ Cardinality(held) \in Nat
    BY <1>6, HeldFinite
  <2>4. Cardinality(held \cup B) = Cardinality(held) + Cardinality(B) - Cardinality(held \cap B)
    BY <2>1, <2>3, FS_Union
  <2>5. Cardinality(held') = Cardinality(held \cup B)
    BY <1>5, Zenon
  <2>6. QED BY <1>0, <2>1, <2>2, <2>3, <2>4, <2>5
<1>8. UsedIsCount'
  <2>1. Cardinality(held) \in Nat
    BY <1>6, HeldFinite
  <2>2. used_pages = reserved_pages + Cardinality(held)
    BY DEF IInv, UsedIsCount
  <2>3. used_pages' = reserved_pages + Cardinality(held')
    BY <1>0, <1>2, <1>7, <2>1, <2>2, PmmAssumption
  <2>4. QED BY <2>3 DEF UsedIsCount
<1>9. BitmapIsLedger'
  <2>1. ASSUME NEW b \in Bits PROVE bitmap'[b] <=> b \notin Usable \/ b \in held'
    <3>1. bitmap'[b] <=> bitmap[b] \/ b \in B
      BY Zenon, <1>2
    <3>2. bitmap[b] <=> b \notin Usable \/ b \in held
      BY DEF IInv, BitmapIsLedger
    <3>3. QED BY <1>5, <1>1, <3>1, <3>2
  <2>2. QED BY <2>1 DEF BitmapIsLedger
<1>10. PmmTypeOK'
  <2>1. bitmap' \in [Bits -> BOOLEAN]
    BY <1>2 DEF IInv, PmmTypeOK
  <2>2. Cardinality(held') \in Nat /\ Cardinality(held') <= total_pages - reserved_pages
    BY <1>6, HeldFinite
  <2>3. used_pages' \in reserved_pages .. total_pages
    BY <1>8, <2>2, PmmAssumption DEF UsedIsCount
  <2>4. pfn \in Usable /\ count \in 0 .. MaxCount
    BY <1>0, <1>1
  <2>5. ret' \in [count : 0 .. MaxCount, pfn : {Null} \cup Usable]
    BY <1>2, <2>4
  <2>6. QED BY <1>4, <2>1, <2>3, <2>5 DEF PmmTypeOK
<1>11. QED BY <1>1, <1>4, <1>6, <1>8, <1>9, <1>10 DEF IInv, B

\* A refused request changes nothing but the answer (pmm.c:117, 131, 136, 169).
LEMMA OutOfMemoryOK ==
  ASSUME IInv, NEW count \in 0 .. MaxCount, OutOfMemory(count)
  PROVE  IInv' /\ holders' = holders
<1>1. UNCHANGED <<bitmap, used_pages, holders>> /\ ret' = [count |-> count, pfn |-> Null]
  BY DEF OutOfMemory, Returns
<1>2. PmmTypeOK'
  BY <1>1 DEF IInv, PmmTypeOK
<1>3. held' = held
  BY <1>1 DEF held
<1>4. BitmapIsLedger' /\ UsedIsCount'
  BY <1>1, <1>3 DEF IInv, BitmapIsLedger, UsedIsCount
<1>5. QED BY <1>1, <1>2, <1>3, <1>4 DEF IInv

\* What a step does to the ledger: nothing, a grant or a return.
Ledgered ==
    \/ holders' = holders
    \/ \E first, last \in Pfn : Ledger!Grant(first, last)
    \/ \E pages \in SUBSET Pfn : Ledger!Return(pages)

LEMMA TakeLedgered ==
  ASSUME IInv, NEW count \in 1 .. MaxCount, NEW pfn \in Nat,
         pfn + count <= total_pages,
         \A b \in pfn .. (pfn + count - 1) : ~bitmap[b],
         Take(count, pfn)
  PROVE  IInv' /\ Ledgered
<1> DEFINE last == pfn + count - 1
<1>1. /\ IInv'
      /\ pfn .. last \subseteq Usable \ held
      /\ holders' = [p \in Pfn |-> IF p \in pfn .. last THEN 1 ELSE holders[p]]
  BY TakeOK
<1>2. pfn <= last /\ last \in Int /\ pfn \in pfn .. last /\ last \in pfn .. last
  BY PmmAssumption
<1> HIDE DEF last
<1>3. pfn .. last \subseteq Pfn /\ pfn .. last \subseteq Pfn \ (Pfn \ Usable)
  BY <1>1, EveryPageHasABit
<1>4. \A p \in pfn .. last : holders[p] = 0
  BY <1>1, <1>3 DEF IInv, PmmTypeOK, held
<1>5. Ledger!Grant(pfn, last)
  BY <1>1, <1>2, <1>3, <1>4 DEF Ledger!Grant
<1>6. QED BY <1>1, <1>2, <1>3, <1>5 DEF Ledgered

LEMMA AllocatePageOK ==
  ASSUME IInv, 1 <= MaxCount, pmm_allocate_page
  PROVE  IInv' /\ Ledgered
<1>0. 1 \in 1 .. MaxCount /\ 1 \in 0 .. MaxCount
  BY PmmAssumption
<1>1. CASE OutOfMemory(1)
  BY <1>0, <1>1, OutOfMemoryOK DEF Ledgered
<1>2. ASSUME NEW i \in 0 .. (bitmap_size - 1), NEW pfn \in Word(i),
             StopsAt(i, pfn), pfn < total_pages, Take(1, pfn)
      PROVE  IInv' /\ Ledgered
  <2>1. i \in Nat /\ WordBits \in Nat
    BY EveryPageHasABit, PmmAssumption
  <2>2. i * WordBits \in Nat
    BY <2>1
  <2>3. pfn \in Nat
    BY <2>1, <2>2 DEF Word
  <2>4. ~bitmap[pfn] /\ pfn + 1 <= total_pages
    BY <1>2, <2>3, PmmAssumption DEF StopsAt
  <2>5. \A b \in pfn .. (pfn + 1 - 1) : ~bitmap[b]
    BY <2>3, <2>4
  <2>6. QED BY <1>0, <1>2, <2>3, <2>4, <2>5, TakeLedgered
<1>3. QED
  <2>1. ASSUME NEW i \in 0 .. (bitmap_size - 1), NEW pfn \in Word(i), StopsAt(i, pfn),
               IF pfn >= total_pages THEN OutOfMemory(1) ELSE Take(1, pfn)
        PROVE  IInv' /\ Ledgered
    <3>1. pfn \in Int
      <4>1. i \in Nat /\ WordBits \in Nat
        BY EveryPageHasABit, PmmAssumption
      <4>2. i * WordBits \in Nat
        BY <4>1
      <4>3. QED BY <4>1, <4>2 DEF Word
    <3>2. CASE pfn >= total_pages
      BY <1>1, <2>1, <3>2
    <3>3. CASE ~(pfn >= total_pages)
      BY <1>2, <2>1, <3>1, <3>3, PmmAssumption
    <3>4. QED BY <3>2, <3>3
  <2>2. QED BY <1>1, <2>1 DEF pmm_allocate_page

LEMMA AllocatePagesOK ==
  ASSUME IInv, NEW count \in 0 .. MaxCount, pmm_allocate_pages(count)
  PROVE  IInv' /\ Ledgered
<1>0. count \in Nat /\ MaxCount \in Nat
  BY PmmAssumption
<1>1. CASE OutOfMemory(count)
  BY <1>1, OutOfMemoryOK DEF Ledgered
<1>2. CASE count = 1 /\ pmm_allocate_page
  BY <1>0, <1>2, AllocatePageOK
<1>3. ASSUME count > 1, NEW start \in Pfn, ClearRun(start, count), Take(count, start)
      PROVE  IInv' /\ Ledgered
  <2>1. start \in Nat /\ count \in 1 .. MaxCount
    BY <1>0, <1>3, PmmAssumption DEF Pfn
  <2>2. start + count <= total_pages /\ \A b \in start .. (start + count - 1) : ~bitmap[b]
    BY <1>3 DEF ClearRun
  <2>3. QED BY <1>3, <2>1, <2>2, TakeLedgered
<1>4. QED BY <1>1, <1>2, <1>3 DEF pmm_allocate_pages

\* A release clears the bits of the pages held and refuses the others, and
\* used_pages falls by the number of bits cleared (pmm.c:172-176, 184-212).
LEMMA FreePagesOK ==
  ASSUME IInv, NEW pfn \in -1 .. total_pages, NEW count \in 0 .. MaxCount,
         pmm_free_pages(pfn, count)
  PROVE  IInv' /\ Ledgered
<1> DEFINE B == pfn .. (pfn + count - 1)
           F == {p \in B : Freeable(p)}
<1>1. F = held \cap B
  <2>1. held \subseteq Usable
    BY DEF IInv
  <2>2. ASSUME NEW p \in B PROVE Freeable(p) <=> p \in held
    <3>1. p \in Pfn /\ p >= reserved_pages <=> p \in Usable
      BY PmmAssumption DEF Pfn, Usable
    <3>2. p \in Usable => (bitmap[p] <=> p \in held)
      BY EveryPageHasABit DEF IInv, BitmapIsLedger
    <3>3. QED BY <2>1, <3>1, <3>2 DEF Freeable
  <2>3. QED BY <2>2
<1>2. /\ bitmap' = [b \in Bits |-> bitmap[b] /\ b \notin F]
      /\ used_pages' = used_pages - Cardinality(F)
      /\ holders' = [p \in Pfn |-> IF p \in B /\ holders[p] > 0 THEN holders[p] - 1 ELSE holders[p]]
      /\ ret' = ret
  BY DEF pmm_free_pages, ClearBits, Lost
<1> HIDE DEF B, F
<1>3. \A p \in Pfn : holders[p] \in 0 .. 1 /\ (p \in held <=> holders[p] = 1)
  BY DEF IInv, PmmTypeOK, held
<1>4. /\ holders' = [p \in Pfn |-> IF p \in F THEN 0 ELSE holders[p]]
      /\ holders' \in [Pfn -> 0 .. 1]
  BY <1>1, <1>2, <1>3
<1>5. held' = held \ F
  BY <1>3, <1>4 DEF held
<1>6. held \in SUBSET Usable /\ held' \in SUBSET Usable /\ F \in SUBSET Usable /\ F \in SUBSET Pfn
  BY <1>1, <1>5, EveryPageHasABit DEF IInv
<1>7. Cardinality(held) = Cardinality(held') + Cardinality(F)
  <2>1. IsFiniteSet(held') /\ IsFiniteSet(F) /\ Cardinality(held') \in Nat /\ Cardinality(F) \in Nat
    BY <1>6, HeldFinite
  <2>2. held' \cap F = {} /\ held' \cup F = held
    BY <1>1, <1>5
  <2>3. Cardinality(held' \cup F) = Cardinality(held') + Cardinality(F) - Cardinality(held' \cap F)
    BY <2>1, FS_Union
  <2>4. Cardinality(held' \cap F) = 0
    BY <2>2, FS_EmptySet
  <2>5. Cardinality(held' \cup F) = Cardinality(held)
    BY <2>2, Zenon
  <2>6. QED BY <2>1, <2>3, <2>4, <2>5
<1>8. UsedIsCount'
  <2>1. Cardinality(held') \in Nat /\ Cardinality(F) \in Nat
    BY <1>6, HeldFinite
  <2>2. used_pages = reserved_pages + Cardinality(held)
    BY DEF IInv, UsedIsCount
  <2>3. used_pages' = reserved_pages + Cardinality(held')
    BY <1>2, <1>7, <2>1, <2>2, PmmAssumption
  <2>4. QED BY <2>3 DEF UsedIsCount
<1>9. BitmapIsLedger'
  <2>1. ASSUME NEW b \in Bits PROVE bitmap'[b] <=> b \notin Usable \/ b \in held'
    <3>1. bitmap'[b] <=> bitmap[b] /\ b \notin F
      BY Zenon, <1>2
    <3>2. bitmap[b] <=> b \notin Usable \/ b \in held
      BY DEF IInv, BitmapIsLedger
    <3>3. QED BY <1>5, <1>6, <3>1, <3>2
  <2>2. QED BY <2>1 DEF BitmapIsLedger
<1>10. PmmTypeOK'
  <2>1. bitmap' \in [Bits -> BOOLEAN]
    BY <1>2 DEF IInv, PmmTypeOK
  <2>2. Cardinality(held') \in Nat /\ Cardinality(held') <= total_pages - reserved_pages
    BY <1>6, HeldFinite
  <2>3. used_pages' \in reserved_pages .. total_pages
    BY <1>8, <2>2, PmmAssumption DEF UsedIsCount
  <2>4. QED BY <1>2, <1>4, <2>1, <2>3 DEF IInv, PmmTypeOK
<1>11. Ledgered
  BY <1>4, <1>6 DEF Ledgered, Ledger!Return
<1>12. QED BY <1>6, <1>8, <1>9, <1>10, <1>11 DEF IInv

\* The books are right after pmm_init (pmm.c:69-94).
LEMMA InitIInv == PmmInit => IInv
<1> SUFFICES ASSUME PmmInit PROVE IInv
  OBVIOUS
<1>1. held = {}
  BY DEF PmmInit, held
<1>2. PmmTypeOK
  <2>1. bitmap \in [Bits -> BOOLEAN]
    BY DEF PmmInit
  <2>2. used_pages \in reserved_pages .. total_pages
    BY PmmAssumption DEF PmmInit
  <2>3. holders \in [Pfn -> 0 .. 1]
    BY DEF PmmInit
  <2>4. ret = [count |-> 0, pfn |-> Null] /\ 0 \in 0 .. MaxCount
    BY PmmAssumption DEF PmmInit
  <2>5. QED BY <2>1, <2>2, <2>3, <2>4 DEF PmmTypeOK
<1>3. BitmapIsLedger
  <2>1. \A b \in Bits : b \in Nat
    BY DEF Bits
  <2>2. ASSUME NEW b \in Bits PROVE bitmap[b] <=> b \notin Usable \/ b \in held
    <3>1. bitmap[b] <=> b < reserved_pages \/ b >= total_pages
      BY Zenon DEF PmmInit
    <3>2. QED BY <1>1, <2>1, <3>1, PmmAssumption DEF Usable
  <2>3. QED BY <2>2 DEF BitmapIsLedger
<1>4. UsedIsCount
  <2>1. Cardinality(held) = 0
    BY <1>1, FS_EmptySet
  <2>2. QED BY <2>1, PmmAssumption DEF PmmInit, UsedIsCount
<1>5. QED BY <1>1, <1>2, <1>3, <1>4 DEF IInv

\* Every call keeps the books and is a step of the ledger.
LEMMA StepOK == IInv /\ [PmmNext]_pmmvars => IInv' /\ [Ledger!Next]_holders
<1> SUFFICES ASSUME IInv, [PmmNext]_pmmvars PROVE IInv' /\ Ledgered
  BY DEF Ledgered, Ledger!Next
<1>1. ASSUME NEW count \in 0 .. MaxCount, pmm_allocate_pages(count) PROVE IInv' /\ Ledgered
  BY <1>1, AllocatePagesOK
<1>2. ASSUME NEW pfn \in -1 .. total_pages, NEW count \in 0 .. MaxCount, pmm_free_pages(pfn, count)
      PROVE  IInv' /\ Ledgered
  BY <1>2, FreePagesOK
<1>3. CASE UNCHANGED pmmvars
  BY <1>3 DEF pmmvars, IInv, PmmTypeOK, BitmapIsLedger, UsedIsCount, held, Ledgered
<1>4. QED BY <1>1, <1>2, <1>3 DEF PmmNext

LEMMA Invariance == PmmSpec => []IInv
  BY InitIInv, StepOK, PTL DEF PmmSpec

\* The bitmap agrees with what callers hold after any sequence of calls.
THEOREM BitmapCorrect == PmmSpec => []BitmapIsLedger
<1>1. IInv => BitmapIsLedger
  BY DEF IInv
<1>2. QED BY <1>1, Invariance, PTL

\* The count of used pages is exact after any sequence of calls.
THEOREM CountCorrect == PmmSpec => []UsedIsCount
<1>1. IInv => UsedIsCount
  BY DEF IInv
<1>2. QED BY <1>1, Invariance, PTL

\* The allocator implements the ledger: no page has two holders.
THEOREM ImplementsLedger == PmmSpec => LedgerSpec
<1>1. PmmInit => Ledger!Init
  BY DEF PmmInit, Ledger!Init
<1>2. QED BY <1>1, StepOK, Invariance, PTL DEF PmmSpec, LedgerSpec, Ledger!Spec

\* The books agree after any sequence of calls.
THEOREM AccountsAlwaysAgree == PmmSpec => []AccountsAgree
<1>1. IInv => AccountsAgree
  BY DEF IInv, AccountsAgree
<1>2. QED BY <1>1, Invariance, PTL

----------------------------------------------------------------------------
(* First fit.                                                              *)

\* A set of naturals that is not empty has a least element.
LEMMA LeastNat ==
  ASSUME NEW T \in SUBSET Nat, T # {}
  PROVE  \E n \in T : \A m \in T : n <= m
<1>1. PICK n \in T : \A m \in T : ~(<<m, n>> \in OpToRel(<, Nat))
  BY Zenon, WFMin, NatLessThanWellFounded
<1>2. ASSUME NEW m \in T PROVE n <= m
  <2>1. m \in Nat /\ n \in Nat
    OBVIOUS
  <2>2. ~(m < n)
    BY Zenon, <1>1, <2>1 DEF OpToRel
  <2>3. QED BY <2>1, <2>2
<1>3. QED BY <1>2

LEMMA TimesMonotone ==
  ASSUME NEW a \in Int, NEW b \in Int, NEW n \in Nat, a <= b
  PROVE  a * n <= b * n /\ a * n \in Int /\ b * n \in Int
<1>1. (b - a) * n \in Nat
  OBVIOUS
<1>2. (b - a) * n = b * n - a * n
  OBVIOUS
<1>3. QED BY <1>1, <1>2

\* Every bit has its word, and the bits below the start of a word are in earlier ones.
LEMMA WordOfBit ==
  ASSUME NEW b \in Bits
  PROVE  \E w \in 0 .. (bitmap_size - 1) :
           /\ b \in Word(w)
           /\ \A i \in Nat : b < i * WordBits => w \in 0 .. (i - 1)
<1> DEFINE w == b \div WordBits
<1>0. WordBits \in Nat \ {0} /\ bitmap_size \in Nat /\ bitmap_size * WordBits \in Nat /\ b \in Nat
  BY PmmAssumption, EveryPageHasABit DEF Bits
<1>1. w \in Nat /\ b % WordBits \in 0 .. (WordBits - 1) /\ b = WordBits * w + (b % WordBits)
  BY <1>0
<1> HIDE DEF w
<1>2. w * WordBits \in Nat /\ w * WordBits = WordBits * w
  BY <1>0, <1>1
<1>3. w * WordBits <= b /\ b <= w * WordBits + WordBits - 1
  BY <1>0, <1>1, <1>2
<1>4. b \in Word(w)
  BY <1>0, <1>2, <1>3 DEF Word
<1>5. ASSUME NEW i \in Nat, b < i * WordBits PROVE w \in 0 .. (i - 1)
  <2>1. ~(i <= w)
    <3> SUFFICES ASSUME i <= w PROVE FALSE
      OBVIOUS
    <3>1. i * WordBits <= w * WordBits /\ i * WordBits \in Int
      BY <1>0, <1>1, TimesMonotone
    <3>2. QED BY <1>0, <1>2, <1>3, <1>5, <3>1
  <2>2. QED BY <1>1, <2>1
<1>6. b < bitmap_size * WordBits
  BY <1>0 DEF Bits
<1>7. w \in 0 .. (bitmap_size - 1)
  BY <1>0, <1>5, <1>6
<1>8. QED BY <1>4, <1>5, <1>7

\* A run of clear bits is a run of pages nobody holds.
LEMMA ClearIsFree ==
  ASSUME IInv, NEW start \in Int, NEW count \in Nat \ {0}
  PROVE  ClearRun(start, count) <=> start \in Usable /\ FreeRun(start, count)
<1> DEFINE B == start .. (start + count - 1)
<1>0. reserved_pages \in Nat /\ total_pages \in Nat /\ start \in B
  BY PmmAssumption
<1>1. \A b \in Usable : ~bitmap[b] <=> b \notin held
  BY EveryPageHasABit DEF IInv, BitmapIsLedger
<1>2. ASSUME start >= reserved_pages, start + count <= total_pages PROVE B \subseteq Usable
  BY <1>0, <1>2 DEF Usable
<1>3. start \in Usable => start >= reserved_pages
  BY <1>0 DEF Usable
<1> HIDE DEF B
<1>4. ClearRun(start, count) <=> /\ start >= reserved_pages /\ start + count <= total_pages
                                 /\ \A b \in B : ~bitmap[b]
  BY DEF ClearRun, B
<1>5. FreeRun(start, count) <=> start + count <= total_pages /\ B \subseteq Usable \ held
  BY DEF FreeRun, B
<1>6. QED BY <1>0, <1>1, <1>2, <1>3, <1>4, <1>5

\* The search for one page: no page below the bit it stops at is free.
LEMMA NothingBelow ==
  ASSUME IInv, NEW i \in 0 .. (bitmap_size - 1), NEW pfn \in Word(i), Scanned(i), StopsAt(i, pfn),
         NEW start \in Usable, FreeRun(start, 1)
  PROVE  pfn <= start /\ pfn \in Nat
<1>0. i \in Nat /\ WordBits \in Nat \ {0} /\ i * WordBits \in Nat
  <2>1. i \in Nat /\ WordBits \in Nat \ {0}
    BY PmmAssumption, EveryPageHasABit
  <2>2. QED BY <2>1
<1>1. pfn \in Nat
  BY <1>0 DEF Word
<1>2. start \in Nat /\ start \in Bits
  BY EveryPageHasABit, PmmAssumption DEF Usable
<1>3. ~bitmap[start]
  BY <1>2, ClearIsFree DEF ClearRun
<1>4. SUFFICES ASSUME start < pfn PROVE FALSE
  BY <1>1, <1>2
<1>5. CASE start >= i * WordBits
  <2>1. start \in (i * WordBits) .. (pfn - 1)
    BY <1>0, <1>1, <1>2, <1>4, <1>5
  <2>2. QED BY <1>3, <2>1 DEF StopsAt
<1>6. CASE ~(start >= i * WordBits)
  <2>1. start < i * WordBits
    BY <1>0, <1>2, <1>6
  <2>2. PICK w \in 0 .. (i - 1) : start \in Word(w)
    BY <1>0, <1>2, <2>1, WordOfBit
  <2>3. QED BY <1>3, <2>2 DEF Scanned
<1>7. QED BY <1>5, <1>6

\* A free page has a word, so the first word with a clear bit is scanned.
LEMMA SomeWordScanned ==
  ASSUME IInv, NEW start \in Usable, FreeRun(start, 1)
  PROVE  \E i \in 0 .. (bitmap_size - 1) : Scanned(i)
<1> DEFINE T == {i \in 0 .. (bitmap_size - 1) : \E b \in Word(i) : ~bitmap[b]}
<1>1. start \in Int /\ start \in Bits
  BY EveryPageHasABit, PmmAssumption DEF Usable
<1>2. ClearRun(start, 1)
  BY <1>1, ClearIsFree
<1>3. ~bitmap[start]
  BY <1>1, <1>2 DEF ClearRun
<1>4. T # {}
  BY <1>1, <1>3, WordOfBit
<1>5. T \in SUBSET Nat
  OBVIOUS
<1>6. PICK i \in T : \A j \in T : i <= j
  BY Zenon, <1>4, <1>5, LeastNat
<1>7. ASSUME NEW j \in 0 .. (i - 1), NEW b \in Word(j), ~bitmap[b] PROVE FALSE
  <2>1. j \in 0 .. (bitmap_size - 1) /\ ~(i <= j)
    BY EveryPageHasABit
  <2>2. j \in T
    BY <1>7, <2>1
  <2>3. QED BY <1>6, <2>1, <2>2
<1>8. Scanned(i)
  BY <1>6, <1>7 DEF Scanned
<1>9. QED BY <1>8

\* What an allocation may answer.
Fits(count) ==
    IF ret'.pfn = Null
    THEN \A start \in Usable : ~FreeRun(start, count)
    ELSE /\ FreeRun(ret'.pfn, count)
         /\ \A start \in Usable : FreeRun(start, count) => ret'.pfn <= start

LEMMA OnePageFits == ASSUME IInv, pmm_allocate_page PROVE Fits(1)
<1>1. ASSUME NEW i \in 0 .. (bitmap_size - 1), NEW pfn \in Word(i), Scanned(i), StopsAt(i, pfn),
             IF pfn >= total_pages THEN OutOfMemory(1) ELSE Take(1, pfn)
      PROVE  Fits(1)
  <2>0. i \in Nat /\ WordBits \in Nat \ {0} /\ i * WordBits \in Nat
    <3>1. i \in Nat /\ WordBits \in Nat \ {0}
      BY PmmAssumption, EveryPageHasABit
    <3>2. QED BY <3>1
  <2>1. pfn \in Nat /\ total_pages \in Nat
    BY <2>0, PmmAssumption DEF Word
  <2>2. \A start \in Usable : FreeRun(start, 1) => pfn <= start
    BY <1>1, NothingBelow
  <2>3. CASE pfn >= total_pages
    <3>1. ret'.pfn = Null
      BY <1>1, <2>3 DEF OutOfMemory, Returns
    <3>2. \A start \in Usable : ~(pfn <= start)
      BY <2>1, <2>3, PmmAssumption DEF Usable
    <3>3. QED BY <2>2, <3>1, <3>2 DEF Fits
  <2>4. CASE ~(pfn >= total_pages)
    <3>1. ret'.pfn = pfn /\ pfn # Null
      BY <1>1, <2>1, <2>4 DEF Take, Returns, Null
    <3>2. ~bitmap[pfn] /\ pfn \in Pfn
      BY <1>1, <2>1, <2>4 DEF StopsAt, Pfn
    <3>3. pfn \in Usable \ held
      BY <3>2, EveryPageHasABit DEF IInv, BitmapIsLedger
    <3>4. FreeRun(pfn, 1)
      BY <2>1, <2>4, <3>3 DEF FreeRun
    <3>5. QED BY <2>2, <3>1, <3>4 DEF Fits
  <2>5. QED BY <2>3, <2>4
<1>2. ASSUME \A i \in 0 .. (bitmap_size - 1) : ~Scanned(i), OutOfMemory(1) PROVE Fits(1)
  BY <1>2, SomeWordScanned DEF Fits, OutOfMemory, Returns
<1>3. QED BY <1>1, <1>2 DEF pmm_allocate_page

LEMMA PagesFit ==
  ASSUME IInv, NEW count \in 1 .. MaxCount, pmm_allocate_pages(count)
  PROVE  Fits(count)
<1>0. count \in Nat \ {0} /\ \A s \in Pfn : s \in Nat
  BY PmmAssumption DEF Pfn
<1>1. CASE count = 1 /\ pmm_allocate_page
  BY <1>1, OnePageFits
<1>2. ASSUME NEW start \in Pfn, ClearRun(start, count),
             \A s \in 0 .. (start - 1) : ~ClearRun(s, count), Take(count, start)
      PROVE  Fits(count)
  <2>1. ret'.pfn = start /\ start # Null /\ start \in Nat
    BY <1>0, <1>2 DEF Take, Returns, Null
  <2>2. FreeRun(start, count)
    BY <1>0, <1>2, <2>1, ClearIsFree
  <2>3. ASSUME NEW s \in Usable, FreeRun(s, count) PROVE start <= s
    <3>1. s \in Nat
      BY PmmAssumption DEF Usable
    <3>2. ClearRun(s, count)
      BY <1>0, <2>3, <3>1, ClearIsFree
    <3>3. QED BY <1>2, <2>1, <3>1, <3>2
  <2>4. QED BY <2>1, <2>2, <2>3 DEF Fits
<1>3. ASSUME \A start \in Pfn : ~ClearRun(start, count), OutOfMemory(count) PROVE Fits(count)
  <2>1. ret'.pfn = Null
    BY <1>3 DEF OutOfMemory, Returns
  <2>2. ASSUME NEW s \in Usable, FreeRun(s, count) PROVE FALSE
    <3>1. s \in Int /\ s \in Pfn
      BY EveryPageHasABit, PmmAssumption DEF Usable
    <3>2. QED BY <1>0, <1>3, <2>2, <3>1, ClearIsFree
  <2>3. QED BY <2>1, <2>2 DEF Fits
<1>4. QED BY <1>0, <1>1, <1>2, <1>3 DEF pmm_allocate_pages

\* Both searches, by words and by runs, find the lowest run of free pages and give
\* up only when there is none, whatever the sizes of the memory and of a word.
THEOREM AllocatesFirstFit == PmmSpec => FirstFit
<1> DEFINE Fit == \A count \in 1 .. MaxCount :
                    ret'.count = count /\ pmm_allocate_pages(count) =>
                      IF ret'.pfn = Null
                      THEN \A start \in Usable : ~FreeRun(start, count)
                      ELSE /\ FreeRun(ret'.pfn, count)
                           /\ \A start \in Usable : FreeRun(start, count) => ret'.pfn <= start
<1>1. IInv => Fit
  BY PagesFit DEF Fits
<1>2. QED BY <1>1, Invariance, PTL DEF FirstFit

=============================================================================
