------------------------------- MODULE KHeap -------------------------------
(***************************************************************************)
(* The kernel heap (mm/heap/heap.c): a first-fit list of blocks over       *)
(* regions of contiguous pages, grown on demand.  A block is a header and  *)
(* a payload; the list is in the order the blocks came to be, address      *)
(* order inside a region.  A call is one step: the heap takes no lock, and *)
(* what two overlapping calls would do to it is left out here.             *)
(***************************************************************************)
EXTENDS Integers, Sequences, SequencesExt, FiniteSets

CONSTANTS
    KPages,                 \* page frames the page allocator may grant, numbered from 1
    KPAGE,                  \* bytes of a page
    HEADER,                 \* BLOCK_HEADER_SIZE
    HEAP_ALIGN, HEAP_MIN_BLOCK_SIZE, HEAP_INITIAL_PAGES, HEAP_EXPAND_MIN_PAGES, HEAP_MAX_REGIONS,
    KSIZE_MAX,              \* SIZE_MAX
    KRequest                 \* sizes asked for

ASSUME KHeapAssumption ==
    /\ {KPages, KPAGE, HEADER, HEAP_ALIGN, HEAP_MIN_BLOCK_SIZE, HEAP_INITIAL_PAGES,
        HEAP_EXPAND_MIN_PAGES, HEAP_MAX_REGIONS, KSIZE_MAX} \subseteq Nat \ {0}
    /\ HEADER % HEAP_ALIGN = 0 /\ KPAGE % HEAP_ALIGN = 0 /\ KRequest \subseteq 0 .. KSIZE_MAX

VARIABLES
    kblocks,    \* the list from heap_head: records [at, size, free, req]
    kregions    \* regions[]: records [at, size]

kheapvars == <<kblocks, kregions>>

----------------------------------------------------------------------------
HEAP_ALIGN_UP(x) == ((x + HEAP_ALIGN - 1) \div HEAP_ALIGN) * HEAP_ALIGN

\* An addition in size_t.
Rounded(size) == HEAP_ALIGN_UP(size) % (KSIZE_MAX + 1)

KBlock(at, size, free) == [at |-> at, size |-> size, free |-> free, req |-> 0]
KEnd(b) == b.at + HEADER + b.size
PageAddr(p) == p * KPAGE

\* pmm_allocate_pages: any run of n pages that no region holds.
HeldBytes == UNION {r.at .. r.at + r.size - 1 : r \in Range(kregions)}
pmm_runs(n) == {p \in 1 .. KPages - n + 1 : \A q \in p .. p + n - 1 : PageAddr(q) \notin HeldBytes}

\* Room for another region; register_region.
RegionRoom == Len(kregions) < HEAP_MAX_REGIONS

\* heap_expand: at least the minimum, whole pages, a block appended to the list.  With a
\* full region table the pages go back and the list is as it was.
ExpandPages(need) ==
    LET pages == (need + HEADER + KPAGE - 1) \div KPAGE IN
    IF pages < HEAP_EXPAND_MIN_PAGES THEN HEAP_EXPAND_MIN_PAGES ELSE pages

Expanded(p, pages) == Append(kblocks, KBlock(PageAddr(p), pages * KPAGE - HEADER, TRUE))

KFits(blocks, size) == {i \in DOMAIN blocks : blocks[i].free /\ blocks[i].size >= size}
FirstFit(blocks, size) == CHOOSE i \in KFits(blocks, size) : \A j \in KFits(blocks, size) : i <= j

\* Mutant: the header of the remainder is not paid for.
KSplitFree(blocks, i, size) ==
    LET rest == blocks[i].size - size IN
    IF rest > HEADER + HEAP_MIN_BLOCK_SIZE
    THEN InsertAt([blocks EXCEPT ![i].size = size], i + 1, KBlock(blocks[i].at + HEADER + size, rest, TRUE))
    ELSE blocks

\* The block at i becomes a block of size bytes; a remainder worth a block is split off.
KSplit(blocks, i, size) ==
    LET b == blocks[i]
        rest == b.size - size
        tail == KBlock(b.at + HEADER + size, rest - HEADER, TRUE) IN
    IF rest > HEADER + HEAP_MIN_BLOCK_SIZE
    THEN InsertAt([blocks EXCEPT ![i].size = size], i + 1, tail)
    ELSE blocks

\* Block i, split if need be, is taken for a request of n bytes.
KTake(blocks, i, size, n) == [KSplit(blocks, i, size) EXCEPT ![i].free = FALSE, ![i].req = n]

\* Refused: a size of 0, or one the rounding would wrap.
Refuses(n) == n = 0 \/ n > KSIZE_MAX - (HEAP_ALIGN - 1)

\* The first block that fits; when none does, the heap grows once and is searched again.
kmalloc(n) ==
    /\ ~Refuses(n)
    /\ LET size == Rounded(n)
           pages == ExpandPages(size) IN
       IF KFits(kblocks, size) # {}
       THEN kblocks' = KTake(kblocks, FirstFit(kblocks, size), size, n) /\ UNCHANGED kregions
       ELSE /\ RegionRoom
            /\ \E p \in pmm_runs(pages) :
                /\ kregions' = Append(kregions, [at |-> PageAddr(p), size |-> pages * KPAGE])
                /\ kblocks' = KTake(Expanded(p, pages), FirstFit(Expanded(p, pages), size), size, n)

\* One walk of the list: a free block absorbs the free blocks that follow it in the list
\* and in memory.
Absorb(list, b) ==
    IF list # << >> /\ Last(list).free /\ b.free /\ KEnd(Last(list)) = b.at
    THEN Front(list) \o <<[Last(list) EXCEPT !.size = @ + HEADER + b.size]>>
    ELSE Append(list, b)

Coalesce(blocks) == FoldLeft(Absorb, << >>, blocks)

kfree(i) ==
    /\ ~kblocks[i].free
    /\ kblocks' = Coalesce([kblocks EXCEPT ![i].free = TRUE, ![i].req = 0])
    /\ UNCHANGED kregions

----------------------------------------------------------------------------
\* heap_init: one free block over the first pages.
KHeapInit ==
    LET bytes == HEAP_INITIAL_PAGES * KPAGE IN
    /\ kblocks = <<KBlock(PageAddr(2), bytes - HEADER, TRUE)>>
    /\ kregions = <<[at |-> PageAddr(2), size |-> bytes]>>

KHeapNext ==
    \/ \E n \in KRequest : kmalloc(n)
    \/ \E i \in DOMAIN kblocks : kfree(i)

KHeapSpec == KHeapInit /\ [][KHeapNext]_kheapvars

----------------------------------------------------------------------------
(* Properties.                                                             *)

\* heap.c: the headers hold addresses, sizes and flags.
KHeapTypeOK ==
    /\ \A b \in Range(kblocks) : b.at \in Nat /\ b.size \in Nat /\ b.free \in BOOLEAN
    /\ Len(kregions) \in 1 .. HEAP_MAX_REGIONS

ExtentOf(b) == b.at .. KEnd(b) - 1

\* heap.c:9-12, 78-82: headers and payloads of the listed blocks tile the regions
\* obtained from the page allocator: every byte of every region is in exactly one block,
\* so that no allocation overlaps another or a header and nothing is lost, however the
\* regions lie next to each other.
BlocksTileRegions ==
    /\ \A i, j \in DOMAIN kblocks : i # j => ExtentOf(kblocks[i]) \cap ExtentOf(kblocks[j]) = {}
    /\ UNION {ExtentOf(b) : b \in Range(kblocks)} = HeldBytes

\* heap.c:134-138: a block in use has at least the bytes that were asked for, also at sizes
\* where rounding up would wrap around.
GrantBigEnough == \A b \in Range(kblocks) : ~b.free => b.size >= b.req

\* The heap after any sequence of calls.
HeapSound == KHeapTypeOK /\ BlocksTileRegions /\ GrantBigEnough
=============================================================================
