------------------------------- MODULE Fat32 -------------------------------
(***************************************************************************)
(* The FAT32 file system (fs/fat32/fat32.c) and its binding to the VFS     *)
(* (fs/fat32/fat32_vfs.c): the allocation table, the directory slots, the  *)
(* data clusters, and the vnodes that cache first cluster and size.  Every *)
(* sector read and sector write that matters to another task, to an I/O    *)
(* error or to a power cut is a step of its own; a task between two steps  *)
(* holds the sector it read in its private buffer (sec_buf).               *)
(*                                                                         *)
(* Abstractions: a cluster is one sector of data; the table is one sector; *)
(* a directory is one cluster; a name is a model value with its 8.3 form   *)
(* Short[n] (to_83 folds case, so two names may share one); the directories*)
(* are the volume root and one subdirectory.                               *)
(***************************************************************************)
EXTENDS Integers, FiniteSets, Sequences, SequencesExt, FiniteSetsExt

CONSTANTS
    FatTask,        \* tasks inside file-system calls
    LastCluster,    \* clusters are 2 .. LastCluster
    FatRoot,        \* vol.root_cluster
    FatSub,         \* the cluster of the one subdirectory
    ClusterBytes,   \* vol.bytes_per_cluster
    FileName,       \* the names programs use
    Short,          \* [FileName -> 8.3 name]: to_83
    LongName,       \* names of more than 12 characters
    RootSlots,      \* the root directory as formatted
    SubSlots,       \* the subdirectory as formatted
    Offset,         \* file offsets written at
    WriteLen,       \* lengths written
    PoolRoom,       \* free vnodes in the pool (MAX_VNODES)
    MaxErrors,      \* I/O errors in a behaviour
    MaxCrashes,     \* power cuts in a behaviour
    MaxCalls        \* calls that write, in a behaviour

Cluster == 2 .. LastCluster
FREE == 0           \* a table entry of 0
FAT32_EOC == 1      \* stands for every value >= 0x0FFFFFF8
FatDir == {FatRoot, FatSub}

ASSUME FatAssumption ==
    /\ LastCluster \in Nat /\ FatDir \subseteq Cluster /\ ClusterBytes \in Nat \ {0}
    /\ DOMAIN Short = FileName /\ LongName \subseteq FileName
    /\ Offset \subseteq Nat /\ WriteLen \subseteq Nat \ {0}

VARIABLES
    fat,        \* the allocation table on disk
    slots,      \* the directory entries on disk, by directory
    data,       \* the contents of the clusters on disk
    vn,         \* the cached vnodes of files
    fop,        \* what each task is in the middle of
    walk,       \* one directory descriptor being listed
    toll,       \* calls, I/O errors and power cuts so far
    lost        \* which reads failed in a way the code takes for an answer

fatvars == <<fat, slots, data, vn, fop, walk, toll, lost>>

----------------------------------------------------------------------------
(* Directory entries: kind "end" is a name[0] of 0x00, "del" of 0xE5.      *)

Entry(kind, name, first, size) == [kind |-> kind, name |-> name, first |-> first, size |-> size]
Live(e) == e.kind \in {"file", "dir"}

SlotNo(d) == DOMAIN slots[d]

\* The slots a scan from the front examines before the end marker.
BeforeEnd(d) == {s \in SlotNo(d) : \A r \in 0 .. s : slots[d][r].kind # "end"}

\* dir_lookup: the first live entry with that 8.3 name, before the end marker.
Matches(d, short) == {s \in BeforeEnd(d) : Live(slots[d][s]) /\ slots[d][s].name = short}

\* fat32_truncate_path looks on past the end marker, in the sector it read.
SizeSlots(sector, short) ==
    {s \in DOMAIN sector : sector[s].kind \notin {"end", "del"} /\ sector[s].name = short}

\* dir_add_entry: the slots it may take.
OpenSlots(sector) == {s \in DOMAIN sector : sector[s].kind \in {"end", "del"}}

\* The clusters a walk from c meets, by number of links; it stays on a mark that ends it.
After(c) == IF c \in Cluster THEN fat[c] ELSE c
Path(c) == LET at[k \in 0 .. LastCluster] == IF k = 0 THEN c ELSE After(at[k - 1]) IN at
Chain(c) == LET at == Path(c) IN {at[k] : k \in DOMAIN at} \cap Cluster
ChainLen(c) == Cardinality(Chain(c))

\* fat32_read: the first n bytes of the chain at c, fewer when the chain is shorter.
BytesOf(c, n) ==
    LET at == Path(c)
        have == ChainLen(c) * ClusterBytes IN
    [b \in 1 .. (IF n < have THEN n ELSE have) |->
        data[at[(b - 1) \div ClusterBytes]][((b - 1) % ClusterBytes) + 1]]

\* fat32_file_read: up to count bytes from off, bounded by the vnode's cached size.
FileRead(v, off, count) ==
    IF off >= v.size THEN << >>
    ELSE LET n == IF v.size - off < count THEN v.size - off ELSE count
             got == BytesOf(v.first, off + n)
         IN  SubSeq(got, off + 1, Len(got))

----------------------------------------------------------------------------
(* Calls.                                                                  *)

FatIdle == [pc |-> "idle"]
Panicked == \E t \in FatTask : fop[t].pc = "panic"
Runs(t, pc) == fop[t].pc = pc /\ ~Panicked
Goes(t, rec) == fop' = [fop EXCEPT ![t] = rec @@ fop[t]]
Ends(t) == fop' = [fop EXCEPT ![t] = FatIdle]
Called == toll.calls < MaxCalls /\ toll' = [toll EXCEPT !.calls = @ + 1]

Cached(d, n) == {v \in vn : v.dir = d /\ v.name = n}

\* A vnode for the entry in slot s, and the pool has room for it.
fat32_lookup(t, d, n) ==
    /\ Runs(t, "idle") /\ n \notin LongName /\ Cached(d, n) = {}
    /\ Cardinality(vn) < PoolRoom
    /\ \E s \in Matches(d, Short[n]) :
        /\ s = Min(Matches(d, Short[n])) /\ slots[d][s].kind = "file"
        /\ vn' = vn \cup {[dir |-> d, name |-> n, first |-> slots[d][s].first, size |-> slots[d][s].size]}
    /\ UNCHANGED <<fat, slots, data, fop, walk, toll, lost>>

\* open(O_CREAT) of a name that vfs_resolve did not find: no entry, a name too long to
\* look up, no vnode left, or a directory sector that could not be read.
NotResolved(d, n) ==
    Matches(d, Short[n]) = {} \/ n \in LongName \/ Cardinality(vn) >= PoolRoom

CreateOp(d, n) == [pc |-> "alloc", call |-> "create", dir |-> d, name |-> n]

fat32_create_file(t, d, n) ==
    /\ Runs(t, "idle") /\ Cached(d, n) = {} /\ toll.calls < MaxCalls
    /\ \/ NotResolved(d, n) /\ Called
       \/ /\ ~NotResolved(d, n) /\ toll.errors < MaxErrors
          /\ toll' = [toll EXCEPT !.calls = @ + 1, !.errors = @ + 1]
    /\ lost' = [lost EXCEPT !.name = @ \/ Matches(d, Short[n]) # {}]
    /\ fop' = [fop EXCEPT ![t] = CreateOp(d, n)]
    /\ UNCHANGED <<fat, slots, data, vn, walk>>

\* write(2): len bytes of value b at offset off.
fat32_file_write(t, v, off, src) ==
    /\ Runs(t, "idle") /\ Called
    /\ fop' = [fop EXCEPT ![t] = [pc |-> "seek", call |-> "write", dir |-> v.dir, name |-> v.name,
                                  first |-> v.first, at |-> off, src |-> src, cl |-> v.first, i |-> 0,
                                  all |-> src, old |-> BytesOf(v.first, LastCluster * ClusterBytes)]]
    /\ UNCHANGED <<fat, slots, data, vn, walk, lost>>

\* open(O_TRUNC): the size becomes 0 and the clusters stay.
fat32_file_truncate(t, v) ==
    /\ Runs(t, "idle") /\ Called
    /\ fop' = [fop EXCEPT ![t] = [pc |-> "entry", call |-> "truncate", dir |-> v.dir, name |-> v.name, at |-> 0]]
    /\ UNCHANGED <<fat, slots, data, vn, walk, lost>>

----------------------------------------------------------------------------
(* The allocation table.                                                   *)

FatWrite(cluster, value, then) == [pc |-> "fat_read", fcl |-> cluster, val |-> value, then |-> then]

\* fat_alloc_cluster: the lowest free entry; the mark follows in fat_write.
FreeCluster == {c \in Cluster : fat[c] = FREE}
\* Mutant: the cluster found is not marked before it is used.
AllocUnmarked(t) ==
    /\ Runs(t, "alloc")
    /\ IF FreeCluster = {} THEN Ends(t)
       ELSE LET c == Min(FreeCluster) IN
            Goes(t, [nc |-> c] @@ IF fop[t].call = "create" THEN [pc |-> "slot"]
                                  ELSE FatWrite(fop[t].cl, c, "linked"))
    /\ UNCHANGED <<fat, slots, data, vn, walk, toll, lost>>

fat_alloc_cluster(t) ==
    /\ Runs(t, "alloc")
    /\ IF FreeCluster = {} THEN Ends(t)
       ELSE LET c == Min(FreeCluster) IN Goes(t, FatWrite(c, FAT32_EOC, "marked") @@ [nc |-> c])
    /\ UNCHANGED <<fat, slots, data, vn, walk, toll, lost>>

fat_write_read(t) ==
    /\ Runs(t, "fat_read")
    /\ Goes(t, [pc |-> "fat_write", buf |-> fat])
    /\ UNCHANGED <<fat, slots, data, vn, walk, toll, lost>>

\* Where a finished fat_write goes on: fat_alloc_cluster returns to fat32_create or to
\* fat_extend_chain, which links the new cluster and writes its end of chain.
Continue(o) ==
    CASE o.then = "marked" /\ o.call = "create" -> [pc |-> "slot"]
      [] o.then = "marked" /\ o.call = "write" -> FatWrite(o.cl, o.nc, "linked")
      [] o.then = "linked" -> FatWrite(o.nc, FAT32_EOC, "ended")
      [] o.then = "ended" -> [pc |-> "seek", cl |-> o.nc, i |-> o.i + 1]

fat_write_write(t) ==
    /\ Runs(t, "fat_write")
    /\ fat' = [fop[t].buf EXCEPT ![fop[t].fcl] = fop[t].val]
    /\ Goes(t, Continue(fop[t]))
    /\ UNCHANGED <<slots, data, vn, walk, toll, lost>>

----------------------------------------------------------------------------
(* fat32_write_at: fat_seek_cluster, then one sector.                      *)

Want(o) == o.at \div ClusterBytes
Inner(o) == o.at % ClusterBytes
Chunk(o) == IF ClusterBytes - Inner(o) < Len(o.src) THEN ClusterBytes - Inner(o) ELSE Len(o.src)

fat_seek_cluster(t) ==
    /\ Runs(t, "seek") /\ fop[t].i < Want(fop[t])
    /\ LET next == fat[fop[t].cl] IN
       IF next = FAT32_EOC THEN Goes(t, [pc |-> "alloc"])
       ELSE Goes(t, [cl |-> next, i |-> fop[t].i + 1])
    /\ UNCHANGED <<fat, slots, data, vn, walk, toll, lost>>

\* A partial sector is read first, so that the neighbouring bytes survive.
write_at_read(t) ==
    /\ Runs(t, "seek") /\ fop[t].i = Want(fop[t])
    /\ Goes(t, [pc |-> "put", buf |-> data[fop[t].cl]])
    /\ UNCHANGED <<fat, slots, data, vn, walk, toll, lost>>
\* Mutant: a partial sector is filled with zeros.
PatchedZeros(o) == [b \in 1 .. ClusterBytes |->
                       IF b \in Inner(o) + 1 .. Inner(o) + Chunk(o) THEN o.src[b - Inner(o)] ELSE 0]

Patched(o) == [b \in 1 .. ClusterBytes |->
                  IF b \in Inner(o) + 1 .. Inner(o) + Chunk(o) THEN o.src[b - Inner(o)] ELSE o.buf[b]]

write_at_write(t) ==
    /\ Runs(t, "put")
    /\ LET o == fop[t]
           rest == SubSeq(o.src, Chunk(o) + 1, Len(o.src)) IN
       /\ data' = [data EXCEPT ![o.cl] = Patched(o)]
       /\ Goes(t, [pc |-> IF rest = << >> THEN "entry" ELSE "seek", at |-> o.at + Chunk(o), src |-> rest,
                   cl |-> o.first, i |-> 0])
    /\ UNCHANGED <<fat, slots, vn, walk, toll, lost>>

----------------------------------------------------------------------------
(* Directory sectors.                                                      *)

\* fat32_truncate_path: for a file below the root, fat32_find stores the size of the
\* directory through the null pointer it was given.
truncate_path_read(t) ==
    /\ Runs(t, "entry")
    /\ IF fop[t].dir # FatRoot THEN Goes(t, [pc |-> "panic"])
       ELSE IF SizeSlots(slots[fop[t].dir], Short[fop[t].name]) = {} THEN Ends(t)
       ELSE Goes(t, [pc |-> "size", buf |-> slots[fop[t].dir]])
    /\ UNCHANGED <<fat, slots, data, vn, walk, toll, lost>>

\* The size a finished call leaves: the end of what was written, or 0.
NewSize(o) == o.at

\* The entry is rewritten, then the vnode's two copies of the size.
truncate_path_write(t) ==
    /\ Runs(t, "size")
    /\ LET o == fop[t]
           s == Min(SizeSlots(o.buf, Short[o.name])) IN
       /\ slots' = [slots EXCEPT ![o.dir] = [o.buf EXCEPT ![s].size = NewSize(o)]]
       /\ vn' = {IF v.dir = o.dir /\ v.name = o.name THEN [v EXCEPT !.size = NewSize(o)] ELSE v : v \in vn}
    /\ Ends(t)
    /\ UNCHANGED <<fat, data, walk, toll, lost>>

dir_add_entry_read(t) ==
    /\ Runs(t, "slot")
    /\ IF OpenSlots(slots[fop[t].dir]) = {} THEN Ends(t)
       ELSE Goes(t, [pc |-> "add", buf |-> slots[fop[t].dir]])
    /\ UNCHANGED <<fat, slots, data, vn, walk, toll, lost>>

dir_add_entry_write(t) ==
    /\ Runs(t, "add")
    /\ LET o == fop[t] IN
       slots' = [slots EXCEPT ![o.dir] =
                    [o.buf EXCEPT ![Min(OpenSlots(o.buf))] = Entry("file", Short[o.name], o.nc, 0)]]
    /\ Ends(t)
    /\ UNCHANGED <<fat, data, vn, walk, toll, lost>>

----------------------------------------------------------------------------
(* Listing a directory, one entry per call (fat32_readdir with max = 1).   *)

\* fat32_dir_iterate: "." and ".." of the root are cookies 0 and 1, listed as slots -2
\* and -1; the real slots are counted from 0 in every directory.
Iterate(d, off) ==
    IF d = FatRoot /\ off < 2 THEN [off |-> off + 1, slot |-> off - 2, eof |-> FALSE]
    ELSE LET left == {s \in SlotNo(d) : s >= off}
             stop == {s \in left : slots[d][s].kind = "end"}
             live == {s \in left : Live(slots[d][s]) /\ \A e \in stop : s < e} IN
         IF live # {} THEN [off |-> Min(live) + 1, slot |-> Min(live), eof |-> FALSE]
         ELSE [off |-> IF stop # {} THEN Min(stop) ELSE Cardinality(SlotNo(d)), slot |-> -3, eof |-> TRUE]

NoWalk == [dir |-> 0, off |-> 0, seen |-> << >>, had |-> {}, eof |-> TRUE]

opendir(d) ==
    /\ walk = NoWalk /\ ~Panicked
    /\ walk' = [dir |-> d, off |-> 0, seen |-> << >>, eof |-> FALSE,
                had |-> {s \in BeforeEnd(d) : Live(slots[d][s])}]
    /\ UNCHANGED <<fat, slots, data, vn, fop, toll, lost>>

fat32_readdir ==
    /\ ~walk.eof /\ ~Panicked
    /\ LET r == Iterate(walk.dir, walk.off) IN
       walk' = [walk EXCEPT !.off = r.off, !.eof = r.eof, !.seen = IF r.eof THEN @ ELSE Append(@, r.slot)]
    /\ UNCHANGED <<fat, slots, data, vn, fop, toll, lost>>

closedir ==
    /\ walk # NoWalk /\ walk.eof
    /\ walk' = NoWalk
    /\ UNCHANGED <<fat, slots, data, vn, fop, toll, lost>>

----------------------------------------------------------------------------
(* Faults.                                                                 *)

\* blk_read or blk_write fails.  fat_next answers end of chain for a read that failed,
\* fat_extend_chain does not look at its last fat_write; every other call gives up.
IoError(t) ==
    /\ ~Panicked /\ toll.errors < MaxErrors
    /\ toll' = [toll EXCEPT !.errors = @ + 1]
    /\ fop[t].pc \notin {"idle", "panic"}
    /\ CASE fop[t].pc = "seek" /\ fop[t].i < Want(fop[t]) ->
              Goes(t, [pc |-> "alloc"]) /\ lost' = [lost EXCEPT !.chain = @ \/ fat[fop[t].cl] # FAT32_EOC]
         [] fop[t].pc \in {"fat_read", "fat_write"} /\ fop[t].then = "ended" ->
              Goes(t, Continue(fop[t])) /\ UNCHANGED lost
         [] OTHER -> Ends(t) /\ UNCHANGED lost
    /\ UNCHANGED <<fat, slots, data, vn, walk>>

\* The machine loses power, or is reset after a fault, and mounts the volume again.
PowerCut ==
    /\ toll.crashes < MaxCrashes
    /\ toll' = [toll EXCEPT !.crashes = @ + 1]
    /\ vn' = {} /\ fop' = [t \in FatTask |-> FatIdle] /\ walk' = NoWalk
    /\ UNCHANGED <<fat, slots, data, lost>>

----------------------------------------------------------------------------
FirstOf(sector) == {sector[s].first : s \in {r \in DOMAIN sector : Live(sector[r])}}

FatInit ==
    /\ slots = [d \in FatDir |-> IF d = FatRoot THEN RootSlots ELSE SubSlots]
    /\ fat = [c \in Cluster |-> IF c \in {FatRoot} \cup FirstOf(RootSlots) \cup FirstOf(SubSlots)
                                THEN FAT32_EOC ELSE FREE]
    /\ data = [c \in Cluster |-> [b \in 1 .. ClusterBytes |-> 0]]
    /\ vn = {} /\ fop = [t \in FatTask |-> FatIdle] /\ walk = NoWalk
    /\ toll = [calls |-> 0, errors |-> 0, crashes |-> 0]
    /\ lost = [name |-> FALSE, chain |-> FALSE]

FatCall(t) ==
    \/ \E d \in FatDir, n \in FileName : fat32_lookup(t, d, n) \/ fat32_create_file(t, d, n)
    \/ \E v \in vn : \/ fat32_file_truncate(t, v)
                     \/ \E off \in Offset, n \in WriteLen :
                            fat32_file_write(t, v, off, [b \in 1 .. n |-> toll.calls + 1])

FatStep(t) ==
    \/ fat_alloc_cluster(t) \/ fat_write_read(t) \/ fat_write_write(t)
    \/ fat_seek_cluster(t) \/ write_at_read(t) \/ write_at_write(t)
    \/ truncate_path_read(t) \/ truncate_path_write(t)
    \/ dir_add_entry_read(t) \/ dir_add_entry_write(t)

FatNext ==
    \/ \E t \in FatTask : FatCall(t) \/ FatStep(t) \/ IoError(t)
    \/ \E d \in FatDir : opendir(d)
    \/ fat32_readdir \/ closedir
    \/ PowerCut

FatSpec == FatInit /\ [][FatNext]_fatvars

----------------------------------------------------------------------------
(* Properties.                                                             *)

LiveEntries == {<<d, s>> \in {<<x, r>> \in FatDir \X UNION {SlotNo(d) : d \in FatDir} : r \in SlotNo(x)} :
                    Live(slots[d][s])}
EntryAt(p) == slots[p[1]][p[2]]

\* fat32.c: every FAT entry is free, an end mark or a cluster of the volume, and every vnode
\* names a cluster of the volume.
FatTypeOK ==
    /\ fat \in [Cluster -> {FREE, FAT32_EOC} \cup Cluster]
    /\ \A v \in vn : v.first \in Cluster /\ v.size \in Nat
    /\ \A t \in FatTask : fop[t].pc \in {"idle", "panic", "alloc", "fat_read", "fat_write", "seek", "put",
                                         "entry", "size", "slot", "add"}

\* fat32.c:558-565 "a regular file always has a start cluster" and 707-710 "a failure
\* mid-extension leaves a shorter-but-valid chain rather than a dangling one": the chain of
\* every directory entry runs over allocated clusters to an end-of-chain mark, without a
\* cycle, and no cluster is in the chains of two entries.  It holds in every state, so also
\* after an I/O error or a power cut between any two sector writes.
ChainsSound ==
    /\ \A p \in LiveEntries : Path(EntryAt(p).first)[LastCluster] = FAT32_EOC
    /\ \A p, q \in LiveEntries :
          p # q => Chain(EntryAt(p).first) \cap Chain(EntryAt(q).first) = {}

\* The size in a directory entry never promises more bytes than its chain holds, unless a
\* table read that failed in the middle of a chain was taken for its end (fat32.c:31) or
\* the directory holds the name twice.
SizeWithinChain ==
    ~(lost.chain \/ lost.name) =>
        \A p \in LiveEntries : EntryAt(p).size <= ChainLen(EntryAt(p).first) * ClusterBytes

\* A directory holds two entries of one 8.3 name only after open(O_CREAT) took a failed
\* lookup for an absent file: a name of more than 12 characters, an empty vnode pool, or an
\* unreadable directory sector (vfs.c:285-291, fat32.c:485 does not look for the name).
NamesUnique ==
    ~lost.name => \A p, q \in LiveEntries :
        (p # q /\ p[1] = q[1]) => EntryAt(p).name # EntryAt(q).name

\* fat32_vfs.c:229-235: the size a vnode caches is the size on disk whenever its file is at
\* rest, as long as no other vnode stands for the same entry (two spellings of a name).
CachedSizeIsOnDisk ==
    \A v \in vn :
        (/\ ~lost.name
         /\ \A w \in vn : w.first = v.first => w = v)
        => \A p \in LiveEntries : EntryAt(p).first = v.first => EntryAt(p).size = v.size

\* A write that succeeds leaves the bytes before its offset as they were, its own bytes
\* after them, and makes the file end there; so a write inside a file also cuts it short
\* (fat32.c:824, fat32_vfs.c:263).
WriteReadsBack ==
    [][\A t \in FatTask :
         (truncate_path_write(t) /\ fop[t].call = "write" /\ ~lost.chain) =>
            LET o == fop[t]
                from == o.at - Len(o.all) IN
            \A v \in vn' : (v.dir = o.dir /\ v.name = o.name) =>
                LET now == FileRead(v, 0, o.at + 1) IN
                /\ Len(now) = o.at
                /\ \A b \in 1 .. o.at : IF b > from THEN now[b] = o.all[b - from]
                                        ELSE b \in DOMAIN o.old => now[b] = o.old[b]
      ]_fatvars

\* A listing that has reached the end returned, in order and once each, every entry that was
\* there when it began, except those in the first two slots of the root directory, whose
\* cookies stand for "." and ".." (fat32.c:216-231).
ListedOnce ==
    /\ \A i, j \in DOMAIN walk.seen : i < j => walk.seen[i] < walk.seen[j]
    /\ (walk.eof /\ walk # NoWalk) =>
          {s \in walk.had : walk.dir # FatRoot \/ s >= 2} \subseteq Range(walk.seen)

\* The volume, the vnodes that cache it and a listing of it, in every state a crash or an
\* I/O error can leave.
VolumeSound ==
    FatTypeOK /\ ChainsSound /\ SizeWithinChain /\ NamesUnique /\ CachedSizeIsOnDisk /\ ListedOnce
=============================================================================
