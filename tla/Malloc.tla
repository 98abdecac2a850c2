------------------------------- MODULE Malloc -------------------------------
(***************************************************************************)
(* The user C library's allocator (user/lib/malloc.c): one arena grown with *)
(* brk, tiled by blocks in address order, each a header and a payload.     *)
(* A call is one step: a program has one thread.                           *)
(***************************************************************************)
EXTENDS Integers, Sequences, SequencesExt, FiniteSets

CONSTANTS
    BLOCK,          \* sizeof(block_t)
    ALIGN, MIN_PAYLOAD,
    MSIZE_MAX,      \* (size_t)-1
    BrkLimit,       \* the highest break the kernel grants
    MRequest,       \* sizes passed to malloc and realloc
    MCount          \* element counts passed to calloc

ASSUME MallocAssumption ==
    /\ {BLOCK, ALIGN, MIN_PAYLOAD, MSIZE_MAX, BrkLimit} \subseteq Nat \ {0}
    /\ BLOCK % ALIGN = 0 /\ MRequest \subseteq 0 .. MSIZE_MAX /\ MCount \subseteq Nat

VARIABLES
    ublocks,    \* the list: records [at, size, free, req]
    ubrk        \* heap_brk, an offset from the start of the arena

mallocvars == <<ublocks, ubrk>>

----------------------------------------------------------------------------
\* ALIGN_UP in size_t: it wraps for the last ALIGN - 1 values.
ALIGN_UP(x) == (((x + ALIGN - 1) % (MSIZE_MAX + 1)) \div ALIGN) * ALIGN

UBlock(at, size, free, req) == [at |-> at, size |-> size, free |-> free, req |-> req]
UEnd(b) == b.at + BLOCK + b.size

\* The block at i keeps size bytes; a remainder that can hold a block is split off, free.
USplit(blocks, i, size) ==
    LET b == blocks[i] IN
    IF b.size >= size + BLOCK + MIN_PAYLOAD
    THEN InsertAt([blocks EXCEPT ![i].size = size], i + 1,
                  UBlock(b.at + BLOCK + size, b.size - size - BLOCK, TRUE, 0))
    ELSE blocks

\* blocks with the one at i + 1 joined to the one at i.
Joined(blocks, i) ==
    RemoveAt([blocks EXCEPT ![i].size = @ + BLOCK + blocks[i + 1].size], i + 1)

\* Mutant: only the block behind is merged.
ReleaseForward(blocks, i) ==
    LET freed == [blocks EXCEPT ![i].free = TRUE, ![i].req = 0] IN
    IF i < Len(freed) /\ freed[i + 1].free THEN Joined(freed, i) ELSE freed

\* block_release: forward first, then backward.
block_release(blocks, i) ==
    LET freed == [blocks EXCEPT ![i].free = TRUE, ![i].req = 0]
        fore == IF i < Len(freed) /\ freed[i + 1].free THEN Joined(freed, i) ELSE freed IN
    IF i > 1 /\ fore[i - 1].free THEN Joined(fore, i - 1) ELSE fore

UFits(need) == {i \in DOMAIN ublocks : ublocks[i].free /\ ublocks[i].size >= need}

\* heap_grow(n): the new break, or none when the kernel refuses.
heap_grow(n) == {top \in {ubrk + n} : top <= BrkLimit}

\* malloc(n) on the current list, as the set of its outcomes: [blocks, brk, ok].
MallocOutcomes(n) ==
    LET ask == IF n = 0 THEN 1 ELSE n
        need == ALIGN_UP(ask)
        i == CHOOSE k \in UFits(need) : \A j \in UFits(need) : k <= j IN
    IF UFits(need) # {}
    THEN {[blocks |-> [USplit(ublocks, i, need) EXCEPT ![i].free = FALSE, ![i].req = ask], brk |-> ubrk, ok |-> TRUE]}
    ELSE {[blocks |-> ublocks, brk |-> ubrk, ok |-> FALSE]}
         \cup {[blocks |-> Append(ublocks, UBlock(ubrk, need, FALSE, ask)), brk |-> top, ok |-> TRUE] :
                  top \in heap_grow(need + BLOCK)}

Becomes(r) == ublocks' = r.blocks /\ ubrk' = r.brk

malloc(n) == \E r \in MallocOutcomes(n) : Becomes(r)

\* The product is checked before it is formed.
calloc(nmemb, size) ==
    /\ nmemb # 0 => size <= MSIZE_MAX \div nmemb
    /\ malloc(nmemb * size)

free(i) == ublocks' = block_release(ublocks, i) /\ UNCHANGED ubrk

\* Mutant: the tail is merged into the block after it whether or not that is free.
ShrunkOver(i, n) ==
    LET cut == [USplit(ublocks, i, ALIGN_UP(n)) EXCEPT ![i].req = n] IN
    IF Len(cut) > Len(ublocks) /\ i + 1 < Len(cut) THEN Joined(cut, i + 1) ELSE cut

\* realloc of the live block at i.
Shrunk(i, n) ==
    LET keep == ALIGN_UP(n)
        cut == [USplit(ublocks, i, keep) EXCEPT ![i].req = n] IN
    IF Len(cut) > Len(ublocks) THEN block_release(cut, i + 1) ELSE cut

\* The new block is found on the list that still holds the old one, which is freed after.
Position(blocks, at) == CHOOSE k \in DOMAIN blocks : blocks[k].at = at

realloc(i, n) ==
    IF n = 0 THEN free(i)
    ELSE IF ALIGN_UP(n) <= ublocks[i].size THEN ublocks' = Shrunk(i, n) /\ UNCHANGED ubrk
    ELSE \E r \in MallocOutcomes(n) :
           IF ~r.ok THEN Becomes(r)
           ELSE ublocks' = block_release(r.blocks, Position(r.blocks, ublocks[i].at)) /\ ubrk' = r.brk

----------------------------------------------------------------------------
MallocInit == ublocks = << >> /\ ubrk = 0

MallocNext ==
    \/ \E n \in MRequest : malloc(n) \/ \E m \in MCount : calloc(m, n)
    \/ \E i \in DOMAIN ublocks : ~ublocks[i].free /\ (free(i) \/ \E n \in MRequest : realloc(i, n))

MallocSpec == MallocInit /\ [][MallocNext]_mallocvars

----------------------------------------------------------------------------
(* Properties.                                                             *)

\* malloc.c: the headers hold addresses, sizes and flags, and the break stays within its limit.
MallocTypeOK ==
    /\ \A b \in Range(ublocks) : b.at \in Nat /\ b.size \in Nat /\ b.free \in BOOLEAN
    /\ ubrk \in 0 .. BrkLimit

\* malloc.c:18-21: the blocks are in address order and tile the arena from its start to the
\* break, headers included, through every split, merge and realloc.
BlocksTileArena ==
    /\ \A i \in 1 .. Len(ublocks) - 1 : UEnd(ublocks[i]) = ublocks[i + 1].at
    /\ ublocks # << >> => ublocks[1].at = 0 /\ UEnd(Last(ublocks)) = ubrk
    /\ ublocks = << >> => ubrk = 0

\* malloc.c:116-117, 256: no two neighbours are free, whichever call freed or split.
NoFreeNeighbours == \A i \in 1 .. Len(ublocks) - 1 : ~(ublocks[i].free /\ ublocks[i + 1].free)

\* A block has the bytes last asked for it, except a request in the last ALIGN - 1 values
\* of size_t, which rounds up to nothing (malloc.c:156 has no check).
LiveBigEnough ==
    \A b \in Range(ublocks) : (~b.free /\ b.req <= MSIZE_MAX - (ALIGN - 1)) => b.size >= b.req

\* malloc.c:236-237, 265-274: no call moves, shrinks or frees a live block other than the
\* one it was given, and a realloc that fails leaves that one as it was.
OthersKept ==
    [][\A i \in DOMAIN ublocks :
         (/\ ~ublocks[i].free
          /\ ~free(i) /\ \A n \in MRequest : ~realloc(i, n))
         => ublocks[i] \in Range(ublocks')]_mallocvars

\* The arena after any sequence of calls.
ArenaSound == MallocTypeOK /\ BlocksTileArena /\ NoFreeNeighbours /\ LiveBigEnough
=============================================================================
