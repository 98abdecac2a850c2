-------------------------- MODULE PmmAtomicProofs --------------------------
(***************************************************************************)
(* Calls of the page allocator that run masked, for any memory, word size  *)
(* and set of callers: load by load and store by store, a call does what   *)
(* Pmm does in one step.                                                   *)
(***************************************************************************)
EXTENDS PmmStepsProofs

----------------------------------------------------------------------------
(* Masked calls, step by step: the invariant is preserved, and the books   *)
(* of before change as a step of Pmm changes them, or not at all.          *)

Abstractly == Atomic!PmmNext \/ before' = before

\* The other calls rest.
Alone(t) == \A u \in Caller : u # t => call[u].at = "idle"

Stays == UNCHANGED <<bitmap, used_pages, got>>
Moves(t, d) == call' = [call EXCEPT ![t] = d] /\ before' = before
DoingNow(d) == Doing(d, before.bitmap, before.used, bitmap, used_pages, Given)
DoingNext(d) == Doing(d, before.bitmap, before.used, bitmap', used_pages', Given')

\* The books a call leaves behind are those of the allocator.
Settled(ret) ==
  /\ before'.bitmap = bitmap' /\ before'.used = used_pages' /\ before'.ret = ret
  /\ before'.holders = [p \in Pfn |-> IF p \in Usable \cap bitmap' THEN 1 ELSE 0]

\* A call under way is alone, and is as far as its place says.
LEMMA UnderWay ==
  ASSUME RInv, MInv, NEW t \in Caller, call[t].at # "idle"
  PROVE  /\ call[t] \in CallRecord /\ Safe(call[t])
         /\ DoingNow(call[t]) /\ Alone(t)
  BY DEF RInv, MInv, Alone, DoingNow

\* With every call masked, one begins only when none is under way.
LEMMA AtRest ==
  ASSUME Unmasked = {}, MInv, NEW t \in Caller, AtStep(t, "idle")
  PROVE  /\ Alone(t)
         /\ bitmap = before.bitmap /\ used_pages = before.used /\ Given = Usable \cap before.bitmap
<1>1. \A u \in Caller : call[u].at = "idle"
  BY DEF AtStep, MayRun
<1>2. QED BY <1>1 DEF MInv, Alone

LEMMA GoesOn ==
  ASSUME RInv, MInv, NEW t \in Caller, NEW d, Alone(t), Moves(t, d), NoSharedPage', DoingNext(d)
  PROVE  MInv' /\ Abstractly
<1>1. before' = before /\ \A u \in Caller : call'[u] = IF u = t THEN d ELSE call[u]
  BY DEF RInv, Moves
<1>2. Doing(d, before.bitmap, before.used, bitmap', used_pages', Given') /\ d.at # "idle"
  BY DEF DoingNext, Doing
<1>3. Books(before')
  BY <1>1 DEF MInv
<1>4. \A u, v \in Caller : call'[u].at # "idle" /\ call'[v].at # "idle" => u = v
  BY <1>1 DEF Alone
<1>5. ~ \A u \in Caller : call'[u].at = "idle"
  BY <1>1, <1>2
<1>6. \A u \in Caller : call'[u].at # "idle" =>
        Doing(call'[u], before'.bitmap, before'.used, bitmap', used_pages', Given')
  BY <1>1, <1>2 DEF Alone
<1>7. QED BY <1>1, <1>3, <1>4, <1>5, <1>6 DEF MInv, Abstractly

LEMMA GoesOnLooking ==
  ASSUME RInv, MInv, NEW t \in Caller, NEW d, Alone(t), ContinueAt(t, d), Stays, DoingNow(d)
  PROVE  MInv' /\ Abstractly
<1>1. Moves(t, d) /\ bitmap' = bitmap /\ used_pages' = used_pages /\ got' = got
  BY DEF ContinueAt, Moves, Stays
<1>2. Given' = Given /\ NoSharedPage'
  BY <1>1 DEF Given, MInv, NoSharedPage
<1>3. DoingNext(d)
  BY <1>1, <1>2 DEF DoingNow, DoingNext
<1>4. QED BY <1>1, <1>2, <1>3, GoesOn

\* With no page shared, a page has one holder or none.
LEMMA HoldersCounted ==
  ASSUME NEW g \in [Caller -> SUBSET Usable],
         \A t, u \in Caller : t # u => g[t] \cap g[u] = {}
  PROVE  [p \in Pfn |-> Cardinality({u \in Caller : p \in g[u]})]
           = [p \in Pfn |-> IF p \in UNION {g[t] : t \in Caller} THEN 1 ELSE 0]
<1> DEFINE H(p) == {u \in Caller : p \in g[u]}
           G == UNION {g[t] : t \in Caller}
<1>1. ASSUME NEW p \in Pfn PROVE Cardinality(H(p)) = IF p \in G THEN 1 ELSE 0
  <2>1. CASE p \in G
    <3>1. PICK u \in Caller : p \in g[u]
      BY <2>1
    <3>2. H(p) = {u}
      BY <3>1
    <3>3. QED BY <2>1, <3>2, FS_Singleton
  <2>2. CASE p \notin G
    <3>1. H(p) = {}
      BY <2>2
    <3>2. QED BY <2>2, <3>1, FS_EmptySet
  <2>3. QED BY <2>1, <2>2
<1> HIDE DEF H, G
<1>2. [p \in Pfn |-> Cardinality(H(p))] = [p \in Pfn |-> IF p \in G THEN 1 ELSE 0]
  BY <1>1
<1>3. QED BY <1>2 DEF H, G

\* A call returns, with its books in order.
LEMMA ComesBack ==
  ASSUME RInv, MInv, RInv', NEW t \in Caller, NEW ret, Alone(t), CallReturns(t, ret),
         NoSharedPage', Given' = Usable \cap bitmap', bitmap' \in SUBSET Bits,
         used_pages' = reserved_pages + Cardinality(Usable \cap bitmap')
  PROVE  MInv' /\ Settled(ret)
<1> DEFINE h == [p \in Pfn |-> Cardinality({u \in Caller : p \in got'[u]})]
<1>1. /\ call' = [call EXCEPT ![t] = Resting]
      /\ before' = [bitmap |-> bitmap', used |-> used_pages', holders |-> h, ret |-> ret]
  BY DEF CallReturns
<1>2. h = [p \in Pfn |-> IF p \in UNION {got'[u] : u \in Caller} THEN 1 ELSE 0]
  <2>1. got' \in [Caller -> SUBSET Usable] /\ \A u, v \in Caller : u # v => got'[u] \cap got'[v] = {}
    BY DEF RInv, NoSharedPage
  <2>2. QED BY <2>1, HoldersCounted
<1>3. UNION {got'[u] : u \in Caller} = Usable \cap bitmap'
  BY DEF Given
<1> HIDE DEF h
<1>4. Settled(ret)
  BY <1>1, <1>2, <1>3 DEF Settled
<1>5. \A u \in Caller : call'[u].at = "idle"
  BY <1>1 DEF RInv, Resting, Alone
<1>6. Books(before')
  BY <1>4 DEF Settled, Books, RInv
<1>7. QED BY <1>4, <1>5, <1>6 DEF MInv, Settled

LEMMA AllocateMasked ==
  ASSUME Unmasked = {}, RInv, MInv, NEW t \in Caller, NEW count \in 1 .. MaxCount,
         pmm_allocate_pages(t, count)
  PROVE  MInv' /\ Abstractly
<1> DEFINE c == [Resting EXCEPT !.at = IF count = 1 THEN "word" ELSE "run",
                                !.count = count, !.left = count,
                                !.pfn = IF count = 1 THEN 0 ELSE reserved_pages]
           B == before.bitmap
<1>1. PICK a \in {"word", "run"}, p \in {0, reserved_pages} :
        /\ c = [Resting EXCEPT !.at = a, !.count = count, !.left = count, !.pfn = p]
        /\ a = "word" => count = 1 /\ p = 0
        /\ a = "run" => count # 1 /\ p = reserved_pages
  <2>1. CASE count = 1
    BY <2>1
  <2>2. CASE count # 1
    BY <2>2
  <2>3. QED BY <2>1, <2>2
<1>2. ContinueAt(t, c) /\ Stays /\ AtStep(t, "idle")
  BY DEF pmm_allocate_pages, Stays
<1> HIDE DEF c
<1>3. c.at = a /\ c.count = count /\ c.left = count /\ c.pfn = p /\ c.run = 0
  BY <1>1 DEF Resting
<1>4. /\ Alone(t)
      /\ bitmap = B /\ used_pages = before.used /\ Given = Usable \cap B
  BY <1>2, AtRest
<1>5. count \in Nat \ {0} /\ reserved_pages \in Nat /\ total_pages \in Nat
  BY StepsAssumption
<1>6. CASE a = "word"
  <2>1. 0 .. (c.pfn - 1) \subseteq B /\ \E i \in 0 .. bitmap_size : c.pfn = i * WordBits
    <3>1. 0 * WordBits = 0 /\ 0 \in 0 .. bitmap_size
      BY EveryPageHasABit, StepsAssumption
    <3>2. QED BY <1>1, <1>3, <1>6, <3>1
  <2>2. DoingNow(c)
    BY SMTT(60), <1>3, <1>4, <1>6, <2>1 DEF DoingNow, Doing, LooksOnly, Takes, GivesBack, Searching, Marking, Counting, Freeing
  <2>3. QED BY <1>2, <1>4, <2>2, GoesOnLooking
<1>7. CASE a = "run"
  <2>1. ASSUME NEW r \in Nat, r + count <= reserved_pages
        PROVE  ~(r .. (r + count - 1) \subseteq Usable \ B)
    <3>1. r \in r .. (r + count - 1) /\ r \notin Usable
      BY <1>5, <2>1 DEF Usable
    <3>2. QED BY <3>1
  <2>2. /\ c.run < c.count /\ c.count > 1
        /\ (c.pfn - c.run) .. (c.pfn - 1) \cap B = {}
        /\ c.pfn - c.run = reserved_pages
    BY <1>1, <1>3, <1>5, <1>7
  <2>3. DoingNow(c)
    BY SMTT(60), <1>1, <1>3, <1>4, <1>7, <2>1, <2>2
       DEF DoingNow, Doing, LooksOnly, Takes, GivesBack, Searching, Marking, Counting, Freeing
  <2>4. QED BY <1>2, <1>4, <2>3, GoesOnLooking
<1>8. QED BY <1>6, <1>7

\* A search that finds nothing ends as Pmm's does.
LEMMA FailMasked ==
  ASSUME RInv, MInv, RInv', NEW t \in Caller, call[t].at \in Searching, Fail(t),
         NoRun(before.bitmap, call[t].count)
  PROVE  MInv' /\ Abstractly
<1> DEFINE c == call[t]
           n == c.count
<1>1. /\ DoingNow(c)
      /\ Alone(t)
  BY UnderWay DEF Searching
<1>2. /\ n \in 1 .. MaxCount
      /\ bitmap = before.bitmap /\ used_pages = before.used /\ Given = Usable \cap bitmap
  BY <1>1 DEF DoingNow, Doing, LooksOnly
<1> DEFINE ret == [count |-> n, pfn |-> Null]
<1>3. bitmap' = bitmap /\ used_pages' = used_pages /\ got' = got /\ CallReturns(t, ret)
  BY DEF Fail
<1> HIDE DEF ret
<1>4. Given' = Usable \cap bitmap' /\ NoSharedPage'
  BY <1>2, <1>3 DEF Given, NoSharedPage, MInv
<1>5. bitmap' \in SUBSET Bits /\ used_pages' = reserved_pages + Cardinality(Usable \cap bitmap')
  BY <1>2, <1>3 DEF MInv, Books
<1>6. MInv' /\ Settled(ret)
  BY SMTT(60), <1>1, <1>3, <1>4, <1>5, ComesBack
<1>7. /\ before'.bitmap = before.bitmap /\ before'.used = before.used
      /\ before'.ret = [count |-> n, pfn |-> Null] /\ before'.holders = before.holders
  BY <1>2, <1>3, <1>6 DEF Settled, MInv, Books, ret
<1>8. Atomic!pmm_allocate_pages(n)
  BY <1>2, <1>7, RefusesAsOne DEF MInv
<1>9. n \in 0 .. MaxCount
  BY <1>2
<1>10. QED BY <1>6, <1>8, <1>9 DEF Abstractly, Atomic!PmmNext

LEMMA ScanWordMasked ==
  ASSUME Unmasked = {}, RInv, MInv, RInv', NEW t \in Caller, ScanWord(t)
  PROVE  MInv' /\ Abstractly
<1> DEFINE c == call[t]
           B == before.bitmap
           w == WordOf(c.pfn)
<1>1. /\ c.at = "word" /\ c \in CallRecord /\ Safe(c)
      /\ DoingNow(c)
      /\ Alone(t)
  BY SMTT(60), UnderWay DEF ScanWord, AtStep
<1>2. /\ c.count = 1 /\ 1 \in 1 .. MaxCount
      /\ bitmap = B /\ used_pages = before.used /\ Given = Usable \cap B
      /\ 0 .. (c.pfn - 1) \subseteq B /\ \E i \in 0 .. bitmap_size : c.pfn = i * WordBits
  BY <1>1 DEF DoingNow, Doing, LooksOnly, Safe, Searching
<1>3. PICK i \in 0 .. bitmap_size : c.pfn = i * WordBits
  BY <1>2
<1>4. i \in Nat /\ w = i /\ i * WordBits \in Nat /\ c.pfn \in Nat /\ WordBits \in Nat \ {0}
  BY SMTT(60), <1>1, <1>3, EveryPageHasABit, FirstOfWord, NextWord, StepsAssumption DEF CallRecord
<1>5. Fixed \subseteq B
  BY DEF MInv, Books
<1>6. CASE w = bitmap_size /\ Fail(t)
  <2>1. NoRun(B, 1)
    <3> SUFFICES ASSUME NEW r \in Nat, r .. (r + 1 - 1) \subseteq Usable \ B PROVE FALSE
      BY DEF NoRun
    <3>1. r \in Usable \ B
      OBVIOUS
    <3>2. r \in Bits
      BY <3>1, EveryPageHasABit
    <3>3. r \in 0 .. (c.pfn - 1)
      BY <1>3, <1>4, <1>6, <3>2 DEF Bits
    <3>4. QED BY <1>2, <3>1, <3>3
  <2>2. QED BY SMTT(60), <1>1, <1>2, <1>6, <2>1, FailMasked DEF Searching
<1>7. CASE /\ w < bitmap_size /\ Stays
           /\ Word(w) \subseteq bitmap /\ ContinueAt(t, [c EXCEPT !.pfn = c.pfn + WordBits])
  <2> DEFINE d == [c EXCEPT !.pfn = c.pfn + WordBits]
  <2>1. d.at = "word" /\ d.count = 1 /\ d.pfn = c.pfn + WordBits
    BY <1>1, <1>2 DEF CallRecord
  <2>2. d.pfn = (i + 1) * WordBits /\ i + 1 \in 0 .. bitmap_size
    BY SMTT(60), <1>3, <1>4, <1>7, <2>1, NextWord, EveryPageHasABit
  <2>3. 0 .. (d.pfn - 1) \subseteq B
    <3>1. ASSUME NEW b \in 0 .. (d.pfn - 1), b \notin 0 .. (c.pfn - 1) PROVE b \in Word(w)
      BY SMTT(60), <1>3, <1>4, <2>1, <3>1 DEF Word
    <3>2. QED BY <1>2, <1>7, <3>1
  <2>4. ContinueAt(t, d)
    BY <1>7
  <2> HIDE DEF d
  <2>5. DoingNow(d)
    BY <1>2, <2>1, <2>2, <2>3 DEF DoingNow, Doing, LooksOnly, Takes, GivesBack, Searching, Marking, Counting, Freeing
  <2>6. QED BY SMTT(60), <1>1, <1>7, <2>4, <2>5, GoesOnLooking
<1>8. CASE /\ w < bitmap_size /\ Stays
           /\ ~(Word(w) \subseteq bitmap) /\ ContinueAt(t, [c EXCEPT !.at = "bit"])
  <2> DEFINE d == [c EXCEPT !.at = "bit"]
  <2>1. d.at = "bit" /\ d.count = 1 /\ d.pfn = c.pfn
    BY <1>1, <1>2 DEF CallRecord
  <2>2. Word(w) \subseteq Bits
    BY SMTT(60), <1>4, <1>8, WordInBits, EveryPageHasABit
  <2>3. \E b \in Word(WordOf(d.pfn)) \cap Bits : b \notin B
    BY <1>2, <1>8, <2>1, <2>2
  <2>4. ContinueAt(t, d)
    BY <1>8
  <2> HIDE DEF d
  <2>5. DoingNow(d)
    BY <1>2, <2>1, <2>3 DEF DoingNow, Doing, LooksOnly, Takes, GivesBack, Searching, Marking, Counting, Freeing
  <2>6. QED BY SMTT(60), <1>1, <1>8, <2>4, <2>5, GoesOnLooking
<1>9. QED
  <2>1. \/ w = bitmap_size /\ Fail(t)
        \/ /\ w < bitmap_size /\ Stays
           /\ ContinueAt(t, IF Word(w) \subseteq bitmap
                            THEN [c EXCEPT !.pfn = c.pfn + WordBits] ELSE [c EXCEPT !.at = "bit"])
    BY DEF ScanWord, Stays
  <2>2. QED BY <1>6, <1>7, <1>8, <2>1

LEMMA SameWord ==
  ASSUME NEW i \in Nat, NEW q \in Word(i)
  PROVE  WordOf(q) = i /\ (q % WordBits = 0 => q = i * WordBits)
<1>1. i * WordBits \in Nat /\ WordBits \in Nat \ {0} /\ q \in Nat
      /\ i * WordBits <= q /\ q < i * WordBits + WordBits
  <2>1. i * WordBits \in Nat /\ WordBits \in Nat \ {0}
    BY NextWord, StepsAssumption
  <2>2. QED BY <2>1 DEF Word
<1> DEFINE w == WordOf(q)
<1>2. w \in Nat /\ w * WordBits <= q /\ q < w * WordBits + WordBits /\ w * WordBits \in Nat
  BY <1>1, WordFacts
<1>3. w = i
  <2> HIDE DEF w
  <2>1. ~(w < i) /\ ~(i < w)
    BY <1>1, <1>2, NextWord
  <2>2. QED BY <1>2, <2>1
<1>4. ASSUME q % WordBits = 0 PROVE q = i * WordBits
  <2>1. q = WordBits * (q \div WordBits) + (q % WordBits)
    BY <1>1
  <2>2. q \div WordBits = i
    BY <1>3 DEF WordOf
  <2>3. q = WordBits * i
    BY <1>1, <1>4, <2>1, <2>2
  <2>4. QED BY <1>1, <2>3
<1>5. QED BY <1>3, <1>4

LEMMA ScanBitMasked ==
  ASSUME Unmasked = {}, RInv, MInv, NEW t \in Caller, ScanBit(t)
  PROVE  MInv' /\ Abstractly
<1> DEFINE c == call[t]
           B == before.bitmap
           w == WordOf(c.pfn)
<1>1. /\ c.at = "bit" /\ c \in CallRecord /\ Safe(c)
      /\ DoingNow(c)
      /\ Alone(t)
  BY SMTT(60), UnderWay DEF ScanBit, AtStep
<1>2. /\ c.count = 1 /\ c.left = 1 /\ 1 \in 1 .. MaxCount /\ c.pfn \in Nat
      /\ bitmap = B /\ used_pages = before.used /\ Given = Usable \cap B
      /\ 0 .. (c.pfn - 1) \subseteq B /\ \E b \in Word(WordOf(c.pfn)) \cap Bits : b \notin B
  BY <1>1 DEF DoingNow, Doing, LooksOnly, Safe, Searching, CallRecord
<1>3. Fixed \subseteq B /\ B \subseteq Bits
  BY DEF MInv, Books
<1>4. PICK b \in Word(w) \cap Bits : b \notin B
  BY <1>2
<1>5. b \in Nat /\ c.pfn <= b /\ b < total_pages /\ c.pfn < total_pages
  <2>1. b \in Nat /\ b \notin 0 .. (c.pfn - 1) /\ b \in Usable
    BY <1>2, <1>3, <1>4, WordOfBit DEF Fixed
  <2>2. QED BY <1>2, <2>1, StepsAssumption DEF Usable
<1>6. w \in Nat /\ w * WordBits \in Nat /\ w * WordBits <= c.pfn
  BY <1>2, WordFacts
<1> DEFINE d == IF c.pfn \notin bitmap
                THEN [c EXCEPT !.at = "set"]
                ELSE [c EXCEPT !.pfn = c.pfn + 1,
                               !.at = IF (c.pfn + 1) % WordBits = 0 THEN "word" ELSE "bit"]
<1>7. ContinueAt(t, d) /\ Stays
  <2>1. ~(c.pfn >= total_pages)
    BY <1>2, <1>5, StepsAssumption
  <2>2. QED BY <2>1 DEF ScanBit, Stays
<1>8. CASE c.pfn \notin B
  <2>1. d = [c EXCEPT !.at = "set"]
    BY <1>2, <1>8
  <2> HIDE DEF d
  <2>2. d.at = "set" /\ d.count = 1 /\ d.left = 1 /\ d.pfn = c.pfn
    BY <1>1, <1>2, <2>1 DEF CallRecord
  <2>3. c.pfn \in Usable \ B
    <3>1. c.pfn \in Bits
      BY SMTT(60), <1>2, <1>5, EveryPageHasABit, StepsAssumption DEF Bits
    <3>2. QED BY <1>3, <1>8, <3>1 DEF Fixed
  <2>4. FirstRun(B, 1, c.pfn)
    <3>1. c.pfn .. (c.pfn + 1 - 1) = {c.pfn}
      BY <1>2
    <3>2. ASSUME NEW r \in 0 .. (c.pfn - 1) PROVE ~(r .. (r + 1 - 1) \subseteq Usable \ B)
      <4>1. r \in r .. (r + 1 - 1)
        BY <1>2
      <4>2. QED BY <1>2, <4>1
    <3>3. QED BY <2>3, <3>1, <3>2 DEF FirstRun
  <2>5. Done(d) = 0 /\ Start(d) = d.pfn /\ Start(d) .. (d.pfn - 1) = {}
    BY <1>2, <2>2 DEF Done, Start
  <2>6. DoingNow(d)
    BY SMTT(60), <1>2, <2>2, <2>4, <2>5
       DEF DoingNow, Doing, LooksOnly, Takes, GivesBack, Searching, Marking, Counting, Freeing
  <2>7. QED BY <1>1, <1>7, <2>6, GoesOnLooking
<1>9. CASE c.pfn \in B
  <2>1. c.pfn + 1 <= b
    BY SMTT(60), <1>2, <1>4, <1>5, <1>9
  <2>2. c.pfn + 1 \in Word(w)
    BY SMTT(60), <1>2, <1>4, <1>5, <1>6, <2>1, StepsAssumption DEF Word
  <2>3. WordOf(c.pfn + 1) = w /\ (c.pfn + 1) % WordBits # 0
    BY <1>2, <1>6, <2>2, SameWord
  <2>4. d = [c EXCEPT !.pfn = c.pfn + 1, !.at = "bit"]
    BY <1>2, <1>9, <2>3
  <2> HIDE DEF d
  <2>5. d.at = "bit" /\ d.count = 1 /\ d.pfn = c.pfn + 1
    BY <1>1, <1>2, <2>4 DEF CallRecord
  <2>6. 0 .. (d.pfn - 1) \subseteq B
    BY <1>2, <1>9, <2>5
  <2>7. \E x \in Word(WordOf(d.pfn)) \cap Bits : x \notin B
    BY <1>4, <2>3, <2>5
  <2>8. DoingNow(d)
    BY <1>2, <2>5, <2>6, <2>7
       DEF DoingNow, Doing, LooksOnly, Takes, GivesBack, Searching, Marking, Counting, Freeing
  <2>9. QED BY <1>1, <1>7, <2>8, GoesOnLooking
<1>10. QED BY <1>8, <1>9

LEMMA ScanRunMasked ==
  ASSUME Unmasked = {}, RInv, MInv, RInv', NEW t \in Caller, ScanRun(t)
  PROVE  MInv' /\ Abstractly
<1> DEFINE c == call[t]
           B == before.bitmap
           n == c.count
           Free(r) == r .. (r + n - 1) \subseteq Usable \ B
<1>1. /\ c.at = "run" /\ c \in CallRecord /\ Safe(c)
      /\ DoingNow(c)
      /\ Alone(t)
  BY SMTT(60), UnderWay DEF ScanRun, AtStep
<1>2. /\ n \in 1 .. MaxCount /\ c.left = n /\ c.pfn \in Nat /\ c.run \in Nat /\ n \in Nat
      /\ bitmap = B /\ used_pages = before.used /\ Given = Usable \cap B
      /\ reserved_pages <= c.pfn - c.run /\ c.pfn <= total_pages
      /\ c.run < n /\ n > 1
      /\ (c.pfn - c.run) .. (c.pfn - 1) \cap B = {}
      /\ c.pfn - c.run = reserved_pages \/ c.pfn - c.run - 1 \in B
      /\ \A r \in Nat : r + n <= c.pfn => ~Free(r)
  BY SMTT(60), <1>1 DEF DoingNow, Doing, LooksOnly, Safe, Searching, CallRecord
<1>3. Fixed \subseteq B /\ B \subseteq Bits /\ reserved_pages \in Nat /\ total_pages \in Nat
  BY StepsAssumption DEF MInv, Books
<1>4. \A r \in Nat : Free(r) => r \in Usable \ B /\ r + n - 1 \in Usable \ B
  <2> SUFFICES ASSUME NEW r \in Nat, Free(r) PROVE r \in Usable \ B /\ r + n - 1 \in Usable \ B
    OBVIOUS
  <2>1. r \in r .. (r + n - 1) /\ r + n - 1 \in r .. (r + n - 1)
    BY <1>2
  <2>2. QED BY <2>1
<1>5. CASE c.pfn = total_pages /\ Fail(t)
  <2>1. NoRun(B, n)
    <3> SUFFICES ASSUME NEW r \in Nat, Free(r) PROVE FALSE
      BY DEF NoRun
    <3>1. r + n - 1 \in Usable
      BY <1>4
    <3>2. r + n <= c.pfn
      BY <1>2, <1>3, <1>5, <3>1 DEF Usable
    <3>3. QED BY <1>2, <3>2
  <2>2. QED BY SMTT(60), <1>1, <1>5, <2>1, FailMasked DEF Searching
<1> DEFINE run == IF c.pfn \in bitmap THEN 0 ELSE c.run + 1
           d == IF run = n THEN [c EXCEPT !.at = "set", !.pfn = c.pfn + 1 - run, !.run = 0]
                           ELSE [c EXCEPT !.pfn = c.pfn + 1, !.run = run]
<1>6. CASE c.pfn < total_pages /\ ContinueAt(t, d) /\ Stays
  <2>1. CASE c.pfn \notin B /\ c.run + 1 = n
    <3>1. d = [c EXCEPT !.at = "set", !.pfn = c.pfn + 1 - n, !.run = 0]
      BY <1>2, <2>1, ZenonT(40)
    <3> HIDE DEF d, run
    <3>2. d.at = "set" /\ d.count = n /\ d.left = n /\ d.pfn = c.pfn - c.run
      BY SMTT(60), <1>1, <1>2, <2>1, <3>1 DEF CallRecord
    <3>3. Done(d) = 0 /\ Start(d) = d.pfn /\ Start(d) .. (d.pfn - 1) = {}
      BY SMTT(60), <1>2, <3>2 DEF Done, Start
    <3>4. FirstRun(B, n, c.pfn - c.run)
      <4>1. (c.pfn - c.run) .. (c.pfn - c.run + n - 1) \subseteq Usable \ B
        <5> SUFFICES ASSUME NEW b \in (c.pfn - c.run) .. (c.pfn - c.run + n - 1)
                     PROVE  b \in Usable \ B
          OBVIOUS
        <5>1. b \in Usable /\ (b = c.pfn \/ b \in (c.pfn - c.run) .. (c.pfn - 1))
          <6>1. c.pfn - c.run + n - 1 = c.pfn /\ c.pfn - c.run \in Int
            BY <1>2, <2>1
          <6>2. b \in Int /\ c.pfn - c.run <= b /\ b <= c.pfn
            BY SMTT(60), <1>2, <6>1
          <6>3. b \in Usable
            BY SMTT(60), <1>2, <1>3, <1>6, <6>1, <6>2 DEF Usable
          <6>4. QED BY SMTT(60), <1>2, <6>1, <6>2, <6>3
        <5>2. QED BY <1>2, <2>1, <5>1
      <4>2. ASSUME NEW r \in 0 .. (c.pfn - c.run - 1) PROVE ~Free(r)
        <5>1. r \in Nat /\ r + n <= c.pfn
          BY SMTT(60), <1>2, <2>1
        <5>2. QED BY <1>2, <5>1
      <4>3. QED BY SMTT(60), <4>1, <4>2 DEF FirstRun
    <3>5. DoingNow(d)
      BY SMTT(60), <1>2, <3>2, <3>3, <3>4
         DEF DoingNow, Doing, LooksOnly, Takes, GivesBack, Searching, Marking, Counting, Freeing
    <3>6. QED BY <1>1, <1>6, <3>5, GoesOnLooking
  <2>2. CASE c.pfn \in B \/ c.run + 1 # n
    <3>1. run \in Nat /\ run < n /\ run = (IF c.pfn \in B THEN 0 ELSE c.run + 1)
      BY <1>2, <2>2
    <3>2. d = [c EXCEPT !.pfn = c.pfn + 1, !.run = run]
      BY SMTT(60), <1>2, <3>1
    <3> HIDE DEF d, run
    <3>3. d.at = "run" /\ d.count = n /\ d.left = n /\ d.pfn = c.pfn + 1 /\ d.run = run
      BY SMTT(60), <1>1, <1>2, <3>1, <3>2 DEF CallRecord
    <3>4. (d.pfn - d.run) .. (d.pfn - 1) \cap B = {}
      <4>1. CASE c.pfn \in B
        BY SMTT(60), <1>2, <3>1, <3>3, <4>1
      <4>2. CASE c.pfn \notin B
        <5>1. \A b \in (d.pfn - d.run) .. (d.pfn - 1) :
                b = c.pfn \/ b \in (c.pfn - c.run) .. (c.pfn - 1)
          BY <1>2, <3>1, <3>3, <4>2
        <5>2. QED BY SMTT(60), <1>2, <4>2, <5>1
      <4>3. QED BY SMTT(60), <4>1, <4>2
    <3>5. d.pfn - d.run = reserved_pages \/ d.pfn - d.run - 1 \in B
      <4>1. CASE c.pfn \in B
        <5>1. d.pfn - d.run - 1 = c.pfn
          BY SMTT(60), <1>2, <3>1, <3>3, <4>1
        <5>2. QED BY SMTT(60), <4>1, <5>1
      <4>2. CASE c.pfn \notin B
        <5>1. d.pfn - d.run = c.pfn - c.run
          BY <1>2, <3>1, <3>3, <4>2
        <5>2. QED BY SMTT(60), <1>2, <5>1
      <4>3. QED BY SMTT(60), <4>1, <4>2
    <3>6. ASSUME NEW r \in Nat, r + n <= d.pfn, Free(r) PROVE FALSE
      <4>1. r + n = c.pfn + 1
        <5> HIDE DEF Free, c, n
        <5>1. n \in Nat /\ c.pfn \in Nat /\ ~(r + n <= c.pfn)
          BY <1>2, <3>6
        <5>2. r + n <= c.pfn + 1
          BY SMTT(60), <3>3, <3>6
        <5>3. QED BY <5>1, <5>2
      <4>2. c.pfn \in Usable \ B
        BY SMTT(60), <1>2, <1>4, <3>6, <4>1
      <4>3. c.run + 1 # n
        BY <2>2, <4>2
      <4>4. r < c.pfn - c.run
        BY SMTT(60), <1>2, <4>1, <4>3
      <4>5. r \in Usable
        BY SMTT(60), <1>4, <3>6
      <4>6. c.pfn - c.run - 1 \in B
        BY SMTT(60), <1>2, <1>3, <4>4, <4>5 DEF Usable
      <4>7. c.pfn - c.run - 1 \in r .. (r + n - 1)
        BY SMTT(60), <1>2, <4>1, <4>4
      <4>8. QED BY <3>6, <4>6, <4>7
    <3>7. DoingNow(d)
      <4>1. d.run < d.count /\ d.count > 1
            /\ \A r \in Nat : r + d.count <= d.pfn => ~(r .. (r + d.count - 1) \subseteq Usable \ B)
        BY <1>2, <3>1, <3>3, <3>6
      <4>2. QED BY SMTT(60), <1>2, <3>3, <3>4, <3>5, <4>1
                DEF DoingNow, Doing, LooksOnly, Takes, GivesBack, Searching, Marking, Counting, Freeing
    <3>8. QED BY <1>1, <1>6, <3>7, GoesOnLooking
  <2>3. QED BY <2>1, <2>2
<1>7. QED BY <1>5, <1>6 DEF ScanRun, Stays

\* The count of the pages fits the counter.
LEMMA Fits == ASSUME NEW n \in Nat, n <= total_pages PROVE n % 2^Width = n
<1> DEFINE w == 2^Width
<1>1. w \in Nat /\ n < w
  BY StepsAssumption
<1> HIDE DEF w
<1>2. n % w = n
  BY <1>1
<1>3. QED BY <1>2 DEF w

\* A load leaves the call where it was, with a copy of the word or of the count.
LEMMA LoadMasked ==
  ASSUME Unmasked = {}, RInv, MInv, NEW t \in Caller,
         SetLoad(t) \/ ClearLoad(t) \/ CountLoad(t) \/ UncountLoad(t)
  PROVE  MInv' /\ Abstractly
<1> DEFINE c == call[t]
           B == before.bitmap
<1>1. PICK from \in {"set", "clear", "count", "uncount"},
           to \in {"set_store", "clear_store", "count_store", "uncount_store"},
           reg \in {Loaded(c.pfn), {used_pages}} :
        /\ c.at = from /\ ContinueAt(t, [c EXCEPT !.at = to, !.reg = reg])
        /\ Stays
        /\ from = "set" => to = "set_store" /\ reg = Loaded(c.pfn)
        /\ from = "clear" => to = "clear_store" /\ reg = Loaded(c.pfn)
        /\ from = "count" => to = "count_store" /\ reg = {used_pages}
        /\ from = "uncount" => to = "uncount_store" /\ reg = {used_pages}
  <2>1. CASE SetLoad(t)
    BY <2>1, Zenon DEF SetLoad, LoadWord, AtStep, Stays
  <2>2. CASE ClearLoad(t)
    BY <2>2, Zenon DEF ClearLoad, LoadWord, AtStep, Stays
  <2>3. CASE CountLoad(t)
    BY <2>3, Zenon DEF CountLoad, LoadUsed, AtStep, Stays
  <2>4. CASE UncountLoad(t)
    BY <2>4, Zenon DEF UncountLoad, LoadUsed, AtStep, Stays
  <2>5. QED BY <2>1, <2>2, <2>3, <2>4
<1>2. /\ c.at # "idle" /\ c \in CallRecord
      /\ DoingNow(c)
      /\ Alone(t)
  BY <1>1, UnderWay
<1> DEFINE d == [c EXCEPT !.at = to, !.reg = reg]
<1>3. /\ ContinueAt(t, d)
      /\ d.at = to /\ d.reg = reg /\ d.count = c.count /\ d.left = c.left /\ d.pfn = c.pfn
  <2>1. ContinueAt(t, d)
    BY <1>1
  <2>2. QED BY <1>2, <2>1 DEF CallRecord
<1> HIDE DEF d
<1>4. Done(d) = Done(c) /\ Start(d) = Start(c) /\ Block(d) = Block(c)
  BY <1>3 DEF Done, Start, Block
<1>5. DoingNow(d)
  <2>1. CASE from = "set"
    BY SMTT(60), <1>1, <1>2, <1>3, <1>4, <2>1
       DEF DoingNow, Doing, LooksOnly, Takes, GivesBack, Searching, Marking, Counting, Freeing, Loaded
  <2>2. CASE from = "clear"
    BY SMTT(60), <1>1, <1>2, <1>3, <1>4, <2>2
       DEF DoingNow, Doing, LooksOnly, Takes, GivesBack, Searching, Marking, Counting, Freeing, Loaded
  <2>3. CASE from = "count"
    BY SMTT(60), <1>1, <1>2, <1>3, <1>4, <2>3
       DEF DoingNow, Doing, LooksOnly, Takes, GivesBack, Searching, Marking, Counting, Freeing
  <2>4. CASE from = "uncount"
    BY SMTT(60), <1>1, <1>2, <1>3, <1>4, <2>4
       DEF DoingNow, Doing, LooksOnly, Takes, GivesBack, Searching, Marking, Counting, Freeing
  <2>5. QED BY <1>1, <2>1, <2>2, <2>3, <2>4
<1>6. QED BY SMTT(60), <1>1, <1>2, <1>3, <1>5, GoesOnLooking

LEMMA SetStoreMasked ==
  ASSUME Unmasked = {}, RInv, MInv, NEW t \in Caller, SetStore(t)
  PROVE  MInv' /\ Abstractly
<1> DEFINE c == call[t]
           B == before.bitmap
           d == [c EXCEPT !.at = IF c.left = 1 THEN "count" ELSE "set",
                          !.pfn = IF c.left = 1 THEN c.pfn + 1 - c.count ELSE c.pfn + 1,
                          !.left = c.left - 1, !.reg = {}]
<1>1. /\ c.at = "set_store" /\ c \in CallRecord /\ Safe(c)
      /\ DoingNow(c)
      /\ Alone(t)
  BY SMTT(60), UnderWay DEF SetStore, AtStep
<1>2. /\ c.count \in 1 .. MaxCount /\ c.count \in Nat /\ c.pfn \in Nat /\ c.left \in 1 .. c.count
      /\ used_pages = before.used /\ Given = Usable \cap B
      /\ FirstRun(B, c.count, Start(c)) /\ bitmap = B \cup (Start(c) .. (c.pfn - 1))
      /\ c.reg = bitmap \cap Word(WordOf(c.pfn))
  BY <1>1 DEF DoingNow, Doing, Takes, Safe, Marking, CallRecord
<1>3. /\ Moves(t, d)
      /\ used_pages' = used_pages /\ got' = got
      /\ bitmap' = (bitmap \ Word(WordOf(c.pfn))) \cup (c.reg \cup {c.pfn})
  BY DEF SetStore, StoreWord, ContinueAt, Moves
<1>4. Given' = Given /\ NoSharedPage'
  BY <1>3 DEF Given, NoSharedPage, MInv
<1>5. Start(c) = c.pfn - (c.count - c.left) /\ Start(c) \in Int /\ Start(c) <= c.pfn
  <2>1. c.count \in Nat /\ c.pfn \in Nat /\ c.left \in 1 .. c.count
    BY <1>2
  <2> HIDE DEF c, d, B
  <2>2. QED BY SMTT(60), <2>1 DEF Start, Done
<1>6. bitmap' = B \cup (Start(c) .. c.pfn)
  <2>1. bitmap' = bitmap \cup {c.pfn}
    BY SMTT(60), <1>2, <1>3
  <2>2. (Start(c) .. (c.pfn - 1)) \cup {c.pfn} = Start(c) .. c.pfn
    BY <1>2, <1>5
  <2>3. QED BY <1>2, <2>1, <2>2
<1>7. CASE c.left = 1
  <2>1. d = [c EXCEPT !.at = "count", !.pfn = c.pfn + 1 - c.count, !.left = 0, !.reg = {}]
    BY <1>2, <1>7
  <2> HIDE DEF d
  <2>2. d.at = "count" /\ d.count = c.count /\ d.pfn = c.pfn + 1 - c.count
    BY SMTT(60), <1>1, <2>1 DEF CallRecord
  <2>3. d.pfn = Start(c) /\ d.pfn + d.count - 1 = c.pfn
    BY SMTT(60), <1>2, <1>5, <1>7, <2>2
  <2>4. DoingNext(d)
    BY SMTT(60), <1>2, <1>3, <1>4, <1>6, <2>2, <2>3
       DEF DoingNow, DoingNext, Doing, LooksOnly, Takes, GivesBack, Searching, Marking, Counting, Freeing
  <2>5. QED BY <1>1, <1>3, <1>4, <2>4, GoesOn
<1>8. CASE c.left # 1
  <2>1. d = [c EXCEPT !.at = "set", !.pfn = c.pfn + 1, !.left = c.left - 1, !.reg = {}]
    BY <1>2, <1>8
  <2> HIDE DEF d
  <2>2. d.at = "set" /\ d.count = c.count /\ d.pfn = c.pfn + 1 /\ d.left = c.left - 1
    BY SMTT(60), <1>1, <2>1 DEF CallRecord
  <2>3. Start(d) = Start(c) /\ d.pfn - 1 = c.pfn
    BY SMTT(60), <1>2, <2>2 DEF Start, Done
  <2>4. DoingNext(d)
    BY SMTT(60), <1>2, <1>3, <1>4, <1>6, <2>2, <2>3
       DEF DoingNow, DoingNext, Doing, LooksOnly, Takes, GivesBack, Searching, Marking, Counting, Freeing
  <2>5. QED BY <1>1, <1>3, <1>4, <2>4, GoesOn
<1>9. QED BY <1>7, <1>8

\* The block becomes the caller's: what Pmm does in one step.
LEMMA CountStoreMasked ==
  ASSUME Unmasked = {}, RInv, MInv, RInv', NEW t \in Caller, CountStore(t)
  PROVE  MInv' /\ Abstractly
<1> DEFINE c == call[t]
           B == before.bitmap
           n == c.count
           K == c.pfn .. (c.pfn + n - 1)
<1>1. /\ c.at = "count_store" /\ c \in CallRecord
      /\ DoingNow(c)
      /\ Alone(t)
  BY SMTT(60), UnderWay DEF CountStore, AtStep
<1>2. /\ n \in 1 .. MaxCount /\ n \in Nat /\ c.pfn \in Nat
      /\ used_pages = before.used /\ Given = Usable \cap B
      /\ FirstRun(B, n, c.pfn) /\ bitmap = B \cup K /\ c.reg = {used_pages}
  BY SMTT(60), <1>1 DEF DoingNow, Doing, Takes, Counting, CallRecord
<1>3. /\ used_pages' = (used_pages + n) % 2^Width
      /\ got' = [got EXCEPT ![t] = @ \cup K] /\ bitmap' = bitmap
      /\ CallReturns(t, [count |-> n, pfn |-> c.pfn])
  BY SMTT(60), <1>2 DEF CountStore, StoreUsed
<1>4. Books(before) /\ K \subseteq Usable \ B
  BY SMTT(60), <1>2 DEF MInv, FirstRun
<1>5. used_pages' = before.used + n /\ before.used + n = reserved_pages + Cardinality(Usable \cap bitmap')
  <2>1. /\ Cardinality(Usable \cap (B \cup K)) = Cardinality(Usable \cap B) + n
        /\ reserved_pages + Cardinality(Usable \cap B) + n <= total_pages
        /\ before.used = reserved_pages + Cardinality(Usable \cap B)
    <3>1. before.used = reserved_pages + Cardinality(Usable \cap B)
      BY <1>4 DEF Books
    <3>2. c.pfn \in Int /\ n \in Nat
      BY <1>2
    <3> HIDE DEF c, n, B
    <3>3. K \subseteq Usable \ B =>
            /\ Cardinality(Usable \cap (B \cup K)) = Cardinality(Usable \cap B) + n
            /\ reserved_pages + Cardinality(Usable \cap B) + n <= total_pages
      BY <3>2, CountsFree, ZenonT(40)
    <3> HIDE DEF K
    <3>4. QED BY <1>4, <3>1, <3>3
  <2>2. Cardinality(Usable \cap B) \in Nat
    BY UsableFinite
  <2>3. used_pages + n \in Nat /\ used_pages + n <= total_pages
    BY <1>2, <2>1, <2>2, StepsAssumption
  <2>4. (used_pages + n) % 2^Width = used_pages + n
    BY SMTT(60), <2>3, Fits
  <2>5. before.used + n = reserved_pages + Cardinality(Usable \cap (B \cup K))
    BY SMTT(60), <1>2, <2>1, <2>2, StepsAssumption
  <2>6. QED BY <1>2, <1>3, <2>4, <2>5
<1>6. \A u \in Caller : got'[u] = IF u = t THEN got[t] \cup K ELSE got[u]
  BY SMTT(60), <1>3 DEF RInv
<1>7. Given' = Usable \cap bitmap'
  <2>1. Given' = Given \cup K
    BY <1>6 DEF Given
  <2>2. QED BY SMTT(60), <1>2, <1>3, <1>4, <2>1
<1>8. NoSharedPage'
  <2>1. \A u \in Caller : got[u] \cap K = {}
    BY <1>2, <1>4 DEF Given
  <2>2. \A u, v \in Caller : u # v => got[u] \cap got[v] = {}
    BY DEF MInv, NoSharedPage
  <2>3. \A u, v \in Caller : u # v => got'[u] \cap got'[v] = {}
    BY SMTT(60), <1>6, <2>1, <2>2
  <2>4. QED BY <2>3 DEF NoSharedPage
<1>9. bitmap' \in SUBSET Bits /\ used_pages' = reserved_pages + Cardinality(Usable \cap bitmap')
  <2>1. K \subseteq Bits /\ B \subseteq Bits
    BY <1>4, EveryPageHasABit DEF Books
  <2>2. QED BY SMTT(60), <1>2, <1>3, <1>5, <2>1
<1> DEFINE ret == [count |-> n, pfn |-> c.pfn]
<1>10. CallReturns(t, ret)
  BY SMTT(60), <1>3
<1> HIDE DEF ret
<1>11. MInv' /\ Settled(ret)
  BY SMTT(60), <1>1, <1>7, <1>8, <1>9, <1>10, ComesBack
<1>12. /\ before'.bitmap = B \cup K /\ before'.used = before.used + n
       /\ before'.ret = [count |-> n, pfn |-> c.pfn]
       /\ before'.holders = [p \in Pfn |-> IF p \in Usable \cap before'.bitmap THEN 1 ELSE 0]
  BY SMTT(60), <1>2, <1>3, <1>5, <1>11 DEF Settled, ret
<1>13. Atomic!pmm_allocate_pages(n)
  <2> HIDE DEF n
  <2>1. QED BY SMTT(60), <1>2, <1>4, <1>12, AllocatesAsOne
<1>14. n \in 0 .. MaxCount
  BY SMTT(60), <1>2
<1>15. QED BY SMTT(60), <1>11, <1>13, <1>14 DEF Abstractly, Atomic!PmmNext

LEMMA FreeMasked ==
  ASSUME Unmasked = {}, RInv, MInv, NEW t \in Caller, NEW pfn \in Usable, NEW count \in 1 .. MaxCount,
         pmm_free_pages(t, pfn, count)
  PROVE  MInv' /\ Abstractly
<1> DEFINE c == [Resting EXCEPT !.at = "test", !.count = count, !.left = count, !.pfn = pfn]
           B == before.bitmap
           K == pfn .. (pfn + count - 1)
<1>1. /\ AtStep(t, "idle") /\ Moves(t, c)
      /\ bitmap' = bitmap /\ used_pages' = used_pages
      /\ K \subseteq got[t] /\ got' = [got EXCEPT ![t] = @ \ K]
  BY DEF pmm_free_pages, ContinueAt, Moves
<1>2. /\ Alone(t)
      /\ bitmap = B /\ used_pages = before.used /\ Given = Usable \cap B
  BY <1>1, AtRest
<1>3. c.at = "test" /\ c.count = count /\ c.left = count /\ c.pfn = pfn
  BY DEF Resting
<1> HIDE DEF c
<1>4. \A u \in Caller : got'[u] = IF u = t THEN got[t] \ K ELSE got[u]
  BY SMTT(60), <1>1 DEF RInv
<1>5. \A u, v \in Caller : u # v => got[u] \cap got[v] = {}
  BY DEF MInv, NoSharedPage
<1>6. NoSharedPage'
  <2>1. \A u, v \in Caller : u # v => got'[u] \cap got'[v] = {}
    BY <1>4, <1>5
  <2>2. QED BY <2>1 DEF NoSharedPage
<1>7. Given' = Given \ K /\ K \subseteq Given
  <2>1. \A u \in Caller : u # t => got[u] \cap K = {}
    BY <1>1, <1>5
  <2>2. QED BY <1>1, <1>4, <2>1 DEF Given
<1>8. count \in Nat /\ pfn \in Int /\ before.used \in Int
  BY <1>2, StepsAssumption DEF Usable, RInv
<1>9. Done(c) = 0 /\ Start(c) = pfn /\ Block(c) = K /\ Start(c) .. (c.pfn - 1) = {}
      /\ before.used - Done(c) = before.used
  BY SMTT(60), <1>3, <1>8 DEF Done, Start, Block
<1> HIDE DEF B, K
<1>10. DoingNext(c)
  BY <1>1, <1>2, <1>3, <1>7, <1>8, <1>9, SMTT(60)
     DEF B, DoingNow, DoingNext, Doing, LooksOnly, Takes, GivesBack, Searching, Marking, Counting, Freeing
<1>11. QED BY SMTT(60), <1>1, <1>2, <1>6, <1>10, GoesOn DEF B

\* What a call that gives back knows.
LEMMA GivingBack ==
  ASSUME RInv, MInv, NEW t \in Caller, call[t].at \in Freeing
  PROVE  LET c == call[t]
         IN  /\ c \in CallRecord /\ Alone(t)
             /\ c.count \in 1 .. MaxCount /\ c.count \in Nat /\ c.pfn \in Nat
             /\ c.left \in 1 .. c.count
             /\ Start(c) = c.pfn - (c.count - c.left) /\ Start(c) \in Nat /\ Start(c) <= c.pfn
             /\ Done(c) = c.count - c.left /\ Done(c) \in Nat
             /\ c.pfn \in Block(c) /\ Block(c) \subseteq Usable \cap before.bitmap
             /\ Block(c) = Start(c) .. (Start(c) + c.count - 1)
             /\ DoingNow(c)
<1> DEFINE c == call[t]
           s == Start(c)
<1>1. /\ c \in CallRecord /\ Safe(c) /\ c.at \in Freeing
      /\ DoingNow(c)
      /\ Alone(t)
  BY UnderWay DEF Freeing
<1>2. /\ c.count \in 1 .. MaxCount /\ c.count \in Nat /\ c.pfn \in Nat /\ c.left \in 1 .. c.count
      /\ Block(c) \subseteq Usable \cap before.bitmap
  <2> HIDE DEF c
  <2>1. c.count \in Nat /\ c.pfn \in Nat /\ c.left \in Nat
    BY <1>1 DEF CallRecord
  <2>2. c.left > 0
    BY SMTT(60), <1>1 DEF Safe
  <2>3. c.count \in 1 .. MaxCount /\ c.left <= c.count /\ Block(c) \subseteq Usable \cap before.bitmap
    BY SMTT(60), <1>1 DEF DoingNow, Doing, GivesBack
  <2>4. QED BY <2>1, <2>2, <2>3
<1>3. /\ Done(c) = c.count - c.left /\ Done(c) \in Nat
      /\ s = c.pfn - (c.count - c.left) /\ s \in Int /\ s <= c.pfn
      /\ Block(c) = s .. (s + c.count - 1)
  BY <1>2 DEF Done, Start, Block
<1> HIDE DEF c, s
<1>4. s \in Block(c) /\ c.pfn \in Block(c)
  BY SMTT(60), <1>2, <1>3
<1>5. s \in Nat
  BY <1>2, <1>3, <1>4, StepsAssumption DEF Usable
<1>6. QED BY SMTT(60), <1>1, <1>2, <1>3, <1>4, <1>5 DEF c, s

\* A page of the block is marked, so it is neither refused nor skipped.
LEMMA FreeTestMasked ==
  ASSUME Unmasked = {}, RInv, MInv, NEW t \in Caller, FreeTest(t)
  PROVE  MInv' /\ Abstractly
<1> DEFINE c == call[t]
           B == before.bitmap
           d == [c EXCEPT !.at = "clear"]
<1>1. c.at = "test" /\ c.at \in Freeing
  BY DEF FreeTest, AtStep, Freeing
<1>2. /\ c \in CallRecord /\ Alone(t)
      /\ c.pfn \in Nat /\ c.pfn \in Block(c) /\ Block(c) \subseteq Usable \cap B /\ Start(c) \in Nat
      /\ DoingNow(c)
  BY SMTT(60), <1>1, GivingBack
<1>3. bitmap = B \ (Start(c) .. (c.pfn - 1))
  BY <1>1, <1>2 DEF DoingNow, Doing, GivesBack
<1>4. c.pfn >= reserved_pages /\ c.pfn \in bitmap
  <2> DEFINE s == Start(c)
             n == c.pfn
  <2>1. n \in Usable /\ n \in B /\ s \in Nat /\ n \in Nat /\ bitmap = B \ (s .. (n - 1))
    BY <1>2, <1>3
  <2> HIDE DEF c, s, n, B
  <2>2. n \notin s .. (n - 1) /\ n >= reserved_pages
    BY <2>1, StepsAssumption DEF Usable
  <2>3. QED BY SMTT(60), <2>1, <2>2 DEF n
<1>5. ContinueAt(t, d) /\ Stays
  BY <1>4 DEF FreeTest, Stays
<1>6. d.at = "clear" /\ d.count = c.count /\ d.left = c.left /\ d.pfn = c.pfn
  BY <1>2 DEF CallRecord
<1> HIDE DEF d
<1>7. Done(d) = Done(c) /\ Start(d) = Start(c) /\ Block(d) = Block(c)
  BY SMTT(60), <1>6 DEF Done, Start, Block
<1>8. DoingNow(d)
  BY ZenonT(60), <1>1, <1>2, <1>6, <1>7
     DEF DoingNow, Doing, LooksOnly, Takes, GivesBack, Searching, Marking, Counting, Freeing
<1>9. QED BY <1>2, <1>5, <1>8, GoesOnLooking

LEMMA ClearStoreMasked ==
  ASSUME Unmasked = {}, RInv, MInv, NEW t \in Caller, ClearStore(t)
  PROVE  MInv' /\ Abstractly
<1> DEFINE c == call[t]
           B == before.bitmap
           d == [c EXCEPT !.at = "uncount", !.reg = {}]
<1>1. c.at = "clear_store" /\ c.at \in Freeing
  BY SMTT(60) DEF ClearStore, AtStep, Freeing
<1>2. /\ c \in CallRecord /\ Alone(t)
      /\ c.pfn \in Nat /\ Start(c) \in Nat /\ Start(c) <= c.pfn
      /\ DoingNow(c)
  BY SMTT(60), <1>1, GivingBack
<1>3. bitmap = B \ (Start(c) .. (c.pfn - 1)) /\ c.reg = bitmap \cap Word(WordOf(c.pfn))
  BY <1>1, <1>2 DEF DoingNow, Doing, GivesBack
<1>4. /\ Moves(t, d)
      /\ used_pages' = used_pages /\ got' = got
      /\ bitmap' = (bitmap \ Word(WordOf(c.pfn))) \cup (c.reg \ {c.pfn})
  BY DEF ClearStore, StoreWord, ContinueAt, Moves
<1>5. Given' = Given /\ NoSharedPage'
  BY <1>4 DEF Given, NoSharedPage, MInv
<1>6. bitmap' = B \ (Start(c) .. c.pfn)
  <2>1. bitmap' = bitmap \ {c.pfn}
    BY SMTT(60), <1>2, <1>3, <1>4, WordFacts
  <2>2. (Start(c) .. (c.pfn - 1)) \cup {c.pfn} = Start(c) .. c.pfn
    BY <1>2
  <2>3. QED BY <1>3, <2>1, <2>2
<1>7. d.at = "uncount" /\ d.count = c.count /\ d.left = c.left /\ d.pfn = c.pfn
  BY <1>2 DEF CallRecord
<1> HIDE DEF d
<1>8. Done(d) = Done(c) /\ Start(d) = Start(c) /\ Block(d) = Block(c)
  BY SMTT(60), <1>7 DEF Done, Start, Block
<1>9. DoingNext(d)
  BY ZenonT(60), <1>1, <1>2, <1>4, <1>5, <1>6, <1>7, <1>8
     DEF DoingNow, DoingNext, Doing, LooksOnly, Takes, GivesBack, Searching, Marking, Counting, Freeing
<1>10. QED BY <1>2, <1>4, <1>5, <1>9, GoesOn

\* The count goes down by one; after the last page the call is what Pmm does in
\* one step.
LEMMA UncountStoreMasked ==
  ASSUME Unmasked = {}, RInv, MInv, RInv', NEW t \in Caller, UncountStore(t)
  PROVE  MInv' /\ Abstractly
<1> DEFINE c == call[t]
           B == before.bitmap
           s == Start(c)
           n == c.count
           K == s .. (s + n - 1)
<1>1. c.at = "uncount_store" /\ c.at \in Freeing
  BY DEF UncountStore, AtStep, Freeing
<1>2. /\ c \in CallRecord /\ Alone(t)
      /\ n \in 1 .. MaxCount /\ n \in Nat /\ c.pfn \in Nat /\ c.left \in 1 .. n
      /\ s = c.pfn - (n - c.left) /\ s \in Nat /\ s <= c.pfn
      /\ Done(c) = n - c.left /\ K \subseteq Usable \cap B /\ Block(c) = K
      /\ DoingNow(c)
  BY <1>1, GivingBack, ZenonT(40)
<1>3. /\ used_pages = before.used - (n - c.left) /\ c.reg = {used_pages}
      /\ bitmap = B \ (s .. c.pfn) /\ Given = (Usable \cap B) \ K
  BY SMTT(60), <1>1, <1>2 DEF DoingNow, Doing, GivesBack
<1>4. /\ used_pages' = (used_pages + -1) % 2^Width
      /\ bitmap' = bitmap /\ got' = got /\ NextPage(t)
  BY SMTT(60), <1>3 DEF UncountStore, StoreUsed
<1>5. Books(before)
  BY DEF MInv
<1>6. /\ before.used \in Nat /\ before.used <= total_pages /\ before.used - n \in Nat
      /\ before.used - n = reserved_pages + Cardinality(Usable \cap (B \ K))
  <2>1. before.used = reserved_pages + Cardinality(Usable \cap B)
    BY SMTT(60), <1>5 DEF Books
  <2>2. s \in Int /\ n \in Nat
    BY SMTT(60), <1>2
  <2>3. /\ Cardinality(Usable \cap B) \in Nat
        /\ Cardinality(Usable \cap B) <= total_pages - reserved_pages
    BY UsableFinite
  <2>4. Cardinality(Usable \cap (B \ K)) = Cardinality(Usable \cap B) - n
        /\ Cardinality(Usable \cap B) - n \in Nat
    <3> HIDE DEF c, n, s, B
    <3>1. K \subseteq Usable \cap B =>
            /\ Cardinality(Usable \cap (B \ K)) = Cardinality(Usable \cap B) - n
            /\ Cardinality(Usable \cap B) - n \in Nat
      BY <2>2, CountsMarked, ZenonT(40)
    <3> HIDE DEF K
    <3>2. QED BY <1>2, <3>1
  <2> HIDE DEF c, n, s, B, K
  <2>5. QED BY SMTT(60), <2>1, <2>2, <2>3, <2>4, StepsAssumption
<1>7. used_pages' = before.used - (n - c.left) - 1
  <2>1. used_pages + -1 \in Nat /\ used_pages + -1 <= total_pages
        /\ used_pages + -1 = before.used - (n - c.left) - 1
    <3> HIDE DEF c, n, s, B, K
    <3>1. used_pages \in Int /\ total_pages \in Int /\ before.used - n <= used_pages + -1
      BY <1>2, <1>3, <1>6, StepsAssumption
    <3>2. QED BY SMTT(60), <1>2, <1>3, <1>6, <3>1
  <2>2. (used_pages + -1) % 2^Width = used_pages + -1
    BY SMTT(60), <2>1, Fits
  <2>3. QED BY SMTT(60), <1>4, <2>1, <2>2
<1>8. Given' = Given /\ NoSharedPage'
  BY SMTT(60), <1>4 DEF Given, NoSharedPage, MInv
<1>9. CASE c.left # 1
  <2> DEFINE d == [c EXCEPT !.at = "test", !.pfn = c.pfn + 1, !.left = c.left - 1, !.reg = {}]
  <2>1. Moves(t, d)
    BY <1>4, <1>9 DEF NextPage, ContinueAt, Moves
  <2>2. d.at = "test" /\ d.count = n /\ d.left = c.left - 1 /\ d.pfn = c.pfn + 1
    BY <1>2 DEF CallRecord
  <2> HIDE DEF d
  <2>3. /\ Done(d) = n - c.left + 1 /\ Start(d) = s /\ Block(d) = K /\ d.pfn - 1 = c.pfn
        /\ d.left <= d.count
    <3>1. Done(d) = n - (c.left - 1) /\ Start(d) = c.pfn + 1 - Done(d)
      <4> HIDE DEF c, n, s
      <4>1. Done(d) = n - (c.left - 1)
        BY <2>2, Zenon DEF Done
      <4>2. Start(d) = d.pfn - Done(d)
        BY DEF Start
      <4>3. d.pfn = c.pfn + 1
        BY <2>2
      <4>4. Done(d) \in Int /\ c.pfn \in Int
        BY <1>2, <4>1
      <4>5. QED BY <4>1, <4>2, <4>3, <4>4
    <3> HIDE DEF c, n, s
    <3>2. Done(d) = n - c.left + 1 /\ d.pfn - 1 = c.pfn /\ d.left <= d.count
      BY SMTT(60), <1>2, <2>2, <3>1
    <3>3. Start(d) = s
      BY SMTT(60), <1>2, <3>1, <3>2
    <3>4. QED BY SMTT(60), <2>2, <3>2, <3>3 DEF Block
  <2>4. used_pages' = before.used - Done(d)
    <3> HIDE DEF c, n
    <3>1. QED BY SMTT(60), <1>2, <1>6, <1>7, <2>3
  <2>5. DoingNext(d)
    BY ZenonT(60), <1>2, <1>3, <1>4, <1>8, <2>2, <2>3, <2>4
       DEF DoingNow, DoingNext, Doing, LooksOnly, Takes, GivesBack, Searching, Marking, Counting, Freeing
  <2>6. QED BY SMTT(60), <1>2, <1>8, <2>1, <2>5, GoesOn
<1>10. CASE c.left = 1
  <2>1. CallReturns(t, before.ret)
    BY <1>4, <1>10 DEF NextPage
  <2>2. s + n - 1 = c.pfn /\ used_pages' = before.used - n
    <3> HIDE DEF c, n, s, B, K
    <3>1. n \in Nat /\ c.pfn \in Nat /\ s = c.pfn - (n - c.left)
      BY <1>2, ZenonT(60)
    <3>2. before.used \in Nat
      BY <1>6, ZenonT(60)
    <3>3. QED BY <1>7, <1>10, <3>1, <3>2, SMTT(60)
  <2>3. bitmap' = B \ K
    BY ZenonT(60), <1>3, <1>4, <2>2
  <2>4. Given' = Usable \cap bitmap'
    BY SMTT(60), <1>3, <1>8, <2>3
  <2>5. bitmap' \in SUBSET Bits /\ used_pages' = reserved_pages + Cardinality(Usable \cap bitmap')
    <3>1. B \subseteq Bits
      BY SMTT(60), <1>5 DEF Books
    <3>2. QED BY SMTT(60), <1>6, <2>2, <2>3, <3>1
  <2>6. MInv' /\ Settled(before.ret)
    BY SMTT(60), <1>2, <1>8, <2>1, <2>4, <2>5, ComesBack
  <2>7. /\ before'.bitmap = B \ K /\ before'.used = before.used - n /\ before'.ret = before.ret
        /\ before'.holders = [p \in Pfn |-> IF p \in Usable \cap before'.bitmap THEN 1 ELSE 0]
    BY SMTT(60), <2>2, <2>3, <2>6 DEF Settled
  <2>8. PICK first \in Nat, k \in 1 .. MaxCount : first = s /\ k = n
    BY <1>2
  <2>9. first \in -1 .. total_pages /\ k \in 0 .. MaxCount
    <3>1. s \in K
      <4> HIDE DEF c, n, s
      <4>1. QED BY SMTT(60), <1>2
    <3>2. s \in Usable
      BY <1>2, <3>1
    <3>3. QED BY SMTT(60), <2>8, <3>2, StepsAssumption DEF Usable
  <2>10. Atomic!pmm_free_pages(first, k)
    <3>1. K = first .. (first + k - 1)
      BY <2>8
    <3>2. first .. (first + k - 1) \subseteq Usable \cap before.bitmap
      BY <1>2, <3>1, ZenonT(40)
    <3>3. before'.bitmap = before.bitmap \ (first .. (first + k - 1)) /\ before'.used = before.used - k
      BY <2>7, <2>8, <3>1
    <3>4. QED BY SMTT(60), <1>5, <2>7, <3>2, <3>3, FreesAsOne
  <2>11. Atomic!PmmNext
    BY <2>9, <2>10 DEF Atomic!PmmNext
  <2>12. QED BY <2>6, <2>11 DEF Abstractly
<1>11. QED BY <1>9, <1>10

LEMMA InitMasked == StepsInit => MInv /\ Atomic!PmmInit
<1> SUFFICES ASSUME StepsInit PROVE MInv /\ Atomic!PmmInit
  OBVIOUS
<1>1. /\ before.bitmap = bitmap /\ before.used = used_pages /\ before.holders = [p \in Pfn |-> 0]
      /\ before.ret = [count |-> 0, pfn |-> Null] /\ used_pages = reserved_pages
  BY DEF StepsInit
<1>2. bitmap = (0 .. (reserved_pages - 1)) \cup (total_pages .. (bitmap_size * WordBits - 1))
  BY DEF StepsInit
<1>3. bitmap \subseteq Bits /\ Fixed \subseteq bitmap /\ Usable \cap bitmap = {}
  BY SMTT(60), <1>2, EveryPageHasABit, StepsAssumption DEF Bits, Fixed, Usable
<1>4. Given = {} /\ NoSharedPage /\ \A t \in Caller : call[t].at = "idle"
  BY DEF StepsInit, Given, NoSharedPage, Resting
<1>5. Books(before)
  <2>1. before.holders = [p \in Pfn |-> IF p \in Usable \cap before.bitmap THEN 1 ELSE 0]
    BY <1>1, <1>3
  <2>2. before.used = reserved_pages + Cardinality(Usable \cap before.bitmap)
    <3>1. Cardinality(Usable \cap before.bitmap) = 0
      BY SMTT(60), <1>1, <1>3, FS_EmptySet
    <3>2. QED BY <1>1, <3>1, StepsAssumption
  <2>3. QED BY SMTT(60), <1>1, <1>3, <2>1, <2>2 DEF Books
<1>6. MInv
  BY SMTT(60), <1>1, <1>3, <1>4, <1>5 DEF MInv
<1>7. Marked(before) = [b \in Bits |-> b < reserved_pages \/ b >= total_pages]
  <2>1. \A b \in Bits : (b \in before.bitmap) <=> (b < reserved_pages \/ b >= total_pages)
    BY SMTT(60), <1>1, <1>2, EveryPageHasABit, StepsAssumption DEF Bits
  <2>2. QED BY <2>1 DEF Marked
<1>8. Atomic!PmmInit
  BY <1>1, <1>7, SameNames DEF Atomic!PmmInit, Marked, Bits
<1>9. QED BY <1>6, <1>8

LEMMA NextMasked ==
  ASSUME Unmasked = {}, RInv, RInv', MInv, [StepsNext]_stepsvars
  PROVE  MInv' /\ Abstractly
<1>1. CASE UNCHANGED stepsvars
  BY <1>1, ZenonT(40) DEF stepsvars, MInv, NoSharedPage, Given, Abstractly
<1>2. ASSUME NEW t \in Caller, Step(t) PROVE MInv' /\ Abstractly
  <2>1. CASE \E count \in 1 .. MaxCount : pmm_allocate_pages(t, count)
    BY <2>1, AllocateMasked
  <2>2. CASE \E pfn \in Usable, count \in 1 .. MaxCount : pmm_free_pages(t, pfn, count)
    BY <2>2, FreeMasked
  <2>3. CASE ScanWord(t) \/ ScanBit(t) \/ ScanRun(t)
    BY SMTT(60), <2>3, ScanWordMasked, ScanBitMasked, ScanRunMasked
  <2>4. CASE SetLoad(t) \/ CountLoad(t) \/ ClearLoad(t) \/ UncountLoad(t)
    BY <2>4, LoadMasked
  <2>5. CASE SetStore(t) \/ CountStore(t)
    BY <2>5, SetStoreMasked, CountStoreMasked
  <2>6. CASE FreeTest(t) \/ ClearStore(t) \/ UncountStore(t)
    BY <2>6, FreeTestMasked, ClearStoreMasked, UncountStoreMasked
  <2>7. QED BY SMTT(60), <1>2, <2>1, <2>2, <2>3, <2>4, <2>5, <2>6 DEF Step
<1>3. QED BY <1>1, <1>2 DEF StepsNext

\* Calls that run with IRQs masked, as those of the page faults, of boot and of the
\* reaping pass do, are single steps of Pmm: the word-by-word search, the search for
\* a run, the bit-by-bit marking and the page-by-page release (pmm.c:103-212) find,
\* mark, count and return what Pmm says, for every size of memory and of word.
THEOREM MaskedCallsAreAtomic == ASSUME Unmasked = {} PROVE StepsSpec => AtomicSpec
<1>1. StepsInit => RInv /\ MInv /\ Atomic!PmmInit
  BY InitSafe, InitMasked
<1>2. RInv /\ MInv /\ [StepsNext]_stepsvars =>
        RInv' /\ MInv' /\ [Atomic!PmmNext]_(Atomic!pmmvars)
  <2> SUFFICES ASSUME RInv, MInv, [StepsNext]_stepsvars
               PROVE  RInv' /\ MInv' /\ [Atomic!PmmNext]_(Atomic!pmmvars)
    OBVIOUS
  <2>1. RInv'
    BY NextSafe
  <2>2. MInv' /\ Abstractly
    BY <2>1, NextMasked
  <2>3. CASE before' = before
    BY <2>1, <2>2, <2>3 DEF Atomic!pmmvars
  <2>4. QED BY <2>1, <2>2, <2>3 DEF Abstractly
<1>3. QED BY <1>1, <1>2, PTL DEF StepsSpec, AtomicSpec, Atomic!PmmSpec

\* Calls that run masked never give a page to two tasks: the sharing that
\* preempted calls can cause (pmm.c:115-127) needs the preemption.
THEOREM MaskedCallsNeverShare == ASSUME Unmasked = {} PROVE StepsSpec => []NoSharedPage
<1>1. StepsInit => RInv /\ MInv
  BY InitSafe, InitMasked
<1>2. RInv /\ MInv /\ [StepsNext]_stepsvars => RInv' /\ MInv'
  BY SMTT(60), NextSafe, NextMasked
<1>3. MInv => NoSharedPage
  BY DEF MInv
<1>4. QED BY <1>1, <1>2, <1>3, PTL DEF StepsSpec
=============================================================================
