-------------------------------- MODULE Vfs --------------------------------
(***************************************************************************)
(* The virtual file system (fs/vfs/vfs.c), the device and /proc files      *)
(* behind it (devices/devices.c, fs/proc/proc.c) and the system calls that *)
(* use descriptors (syscall.c): path resolution, open with its flags,      *)
(* read, write, seek, close, directory listing, and the sharing of open    *)
(* file descriptions between the descriptor tables of forked tasks.        *)
(*                                                                         *)
(* A file's bytes are in module Fat32; here a regular file is its size and *)
(* whether it exists.  A call runs to its end without another task's call  *)
(* in between; the hazards of preemption inside one are listed apart.      *)
(***************************************************************************)
EXTENDS Integers, Sequences, FiniteSets

CONSTANTS
    VfsTask,        \* tasks
    MAX_FDS,        \* descriptors in a table
    FileId,         \* the blocks of the heap a file_t can occupy
    VNode,          \* the vnodes
    VRoot,          \* the root directory
    NoNode,         \* NULL
    Tree,           \* [VNode -> [kind, parent, name, kids]]
    OpenArgs,       \* what programs pass to open: [path, acc, creat, excl, trunc, append]
    Count,          \* lengths of reads and writes
    SeekTo,         \* offsets passed to lseek
    ProcLen,        \* lengths a /proc generator may produce
    MaxOffset,      \* bound on file offsets
    SECTOR          \* bytes of a sector of /dev/blk

NoFile == 0
NoTable == [f \in {} |-> f]
Fd == 0 .. MAX_FDS - 1

ASSUME VfsAssumption ==
    /\ IsFiniteSet(VfsTask)
    /\ MAX_FDS \in Nat /\ FileId \subseteq Nat /\ NoFile \notin FileId /\ NoNode \notin VNode /\ VRoot \in VNode

VARIABLES
    vfds,       \* [VfsTask -> descriptor table, or NoTable for a task without one]
    refc,       \* [FileId -> Nat]: file_t.refcount, 0 when the block is free
    desc,       \* [FileId -> [node, flags, off, from, listed]]
    there,      \* the regular files that exist
    vsize       \* [VNode -> Nat]: vnode.size

vfsvars == <<vfds, refc, desc, there, vsize>>

----------------------------------------------------------------------------
(* Paths.                                                                  *)

Kind(n) == Tree[n].kind
IsDir(n) == Kind(n) = "dir"
Exists(n) == Kind(n) = "reg" => n \in there

\* find_child: a cached child, or one the file system finds on disk.
find_child(dir, name) == {n \in VNode : Tree[n].parent = dir /\ Tree[n].name = name /\ Exists(n)}

StepTo(cur, name) ==
    IF cur = NoNode \/ ~IsDir(cur) THEN NoNode
    ELSE IF name = "." THEN cur
    ELSE IF name = ".." THEN IF Tree[cur].parent = NoNode THEN cur ELSE Tree[cur].parent
    ELSE IF find_child(cur, name) = {} THEN NoNode
    ELSE CHOOSE n \in find_child(cur, name) : TRUE

vfs_resolve_at(base, path) ==
    LET at[i \in 0 .. Len(path)] == IF i = 0 THEN base ELSE StepTo(at[i - 1], path[i])
    IN  at[Len(path)]

vfs_resolve(path) == vfs_resolve_at(VRoot, path)

\* The file that the mounted file system's hook makes for a path: the directory is there
\* and the file is not.
vfs_create_file(path) ==
    IF path = << >> THEN {}
    ELSE LET dir == vfs_resolve(SubSeq(path, 1, Len(path) - 1)) IN
         {n \in VNode : Kind(n) = "reg" /\ dir # NoNode /\ Tree[n].parent = dir
                        /\ Tree[n].name = path[Len(path)] /\ n \notin there}

----------------------------------------------------------------------------
(* Descriptor tables.                                                      *)

HasTable(t) == vfds[t] # NoTable
Holds(t, f) == \E i \in DOMAIN vfds[t] : vfds[t][i] = f
Holders(f) == {t \in VfsTask : Holds(t, f)}
EmptyTable == [i \in Fd |-> NoFile]

\* alloc_fd: the lowest free slot, as a set that is empty when the table is full.
alloc_fd(t) == {i \in Fd : vfds[t][i] = NoFile /\ \A j \in Fd : j < i => vfds[t][j] # NoFile}

\* What a freed block holds no longer matters.
Freed == [node |-> VRoot, flags |-> "r", off |-> 0, from |-> 0, listed |-> << >>]

\* fd_release of every description in S: one reference fewer, and kfree at 0.
fd_release(S) ==
    /\ refc' = [f \in FileId |-> IF f \in S THEN refc[f] - 1 ELSE refc[f]]
    /\ desc' = [f \in FileId |-> IF f \in S /\ refc[f] = 1 THEN Freed ELSE desc[f]]

fd_table_create(t) ==
    /\ ~HasTable(t)
    /\ vfds' = [vfds EXCEPT ![t] = EmptyTable]
    /\ UNCHANGED <<refc, desc, there, vsize>>
\* Mutant: the child's references are not counted.
CloneUncounted(t, c) ==
    /\ HasTable(t) /\ ~HasTable(c)
    /\ vfds' = [vfds EXCEPT ![c] = vfds[t]]
    /\ UNCHANGED <<refc, desc, there, vsize>>

\* fork: the child's table points at the same descriptions and counts as a holder.
fd_table_clone(t, c) ==
    /\ HasTable(t) /\ ~HasTable(c)
    /\ vfds' = [vfds EXCEPT ![c] = vfds[t]]
    /\ refc' = [f \in FileId |-> IF Holds(t, f) THEN refc[f] + 1 ELSE refc[f]]
    /\ UNCHANGED <<desc, there, vsize>>

\* The table of a dead task, when sched_free_task reaps it.
fd_table_destroy(t) ==
    /\ HasTable(t)
    /\ vfds' = [vfds EXCEPT ![t] = NoTable]
    /\ fd_release({f \in FileId : Holds(t, f)})
    /\ UNCHANGED <<there, vsize>>

fd_close(t, i) ==
    /\ HasTable(t) /\ vfds[t][i] # NoFile
    /\ vfds' = [vfds EXCEPT ![t][i] = NoFile]
    /\ fd_release({vfds[t][i]})
    /\ UNCHANGED <<there, vsize>>

----------------------------------------------------------------------------
(* open.                                                                   *)

\* Only files of the FAT32 volume have a truncate operation; O_TRUNC on any other node
\* is passed over.
Truncates(n, fl) == fl.trunc /\ Kind(n) = "reg"

\* The checks that refuse a call before anything is changed.
OpenRefused(fl) ==
    \/ fl.acc = "bad"
    \/ fl.excl /\ ~fl.creat
    \/ vfs_resolve(fl.path) # NoNode /\ fl.creat /\ fl.excl
    \/ vfs_resolve(fl.path) = NoNode /\ ~fl.creat

\* The node an open that is not refused goes on with, found or just created.
OpenNode(fl) ==
    IF vfs_resolve(fl.path) # NoNode THEN {vfs_resolve(fl.path)} ELSE vfs_create_file(fl.path)

SizeAfterOpen(n, fl) == IF Truncates(n, fl) THEN 0 ELSE vsize[n]

\* The description a successful open fills in; only the access mode of the flags is kept,
\* O_APPEND only chooses where the offset starts.
NewDesc(n, fl) ==
    LET start == IF fl.append THEN SizeAfterOpen(n, fl) ELSE 0 IN
    [node |-> n, flags |-> fl.acc, off |-> start, from |-> start, listed |-> << >>]

fd_open_ex(t, fl) ==
    /\ HasTable(t) /\ ~OpenRefused(fl)
    /\ \E n \in OpenNode(fl) :
        /\ there' = IF Kind(n) = "reg" THEN there \cup {n} ELSE there
        /\ \/ \* the truncation fails, and the file made for O_CREAT stays
              Truncates(n, fl) /\ UNCHANGED <<vfds, refc, desc, vsize>>
           \/ \* the table is full or kmalloc fails, after the truncation
              /\ vsize' = [vsize EXCEPT ![n] = SizeAfterOpen(n, fl)]
              /\ UNCHANGED <<vfds, refc, desc>>
           \/ \E i \in alloc_fd(t), f \in FileId :
              /\ refc[f] = 0 /\ \A g \in FileId : refc[g] = 0 => f <= g
              /\ vsize' = [vsize EXCEPT ![n] = SizeAfterOpen(n, fl)]
              /\ vfds' = [vfds EXCEPT ![t][i] = f]
              /\ refc' = [refc EXCEPT ![f] = 1]
              /\ desc' = [desc EXCEPT ![f] = NewDesc(n, fl)]

----------------------------------------------------------------------------
(* read, write, lseek.                                                     *)

Lesser(a, b) == IF a < b THEN a ELSE b

\* How far a read of count bytes moves the offset.  Character devices leave it; /dev/blk
\* moves whole sectors or fails; /proc regenerates its text, of any length, on every read.
ReadMoves(f, count) ==
    LET d == desc[f] IN
    CASE Kind(d.node) = "chr" -> {0}
      [] Kind(d.node) = "blk" -> IF d.off % SECTOR = 0 /\ count % SECTOR = 0 THEN {0, count} ELSE {0}
      [] Kind(d.node) = "proc" -> {IF d.off >= len THEN 0 ELSE Lesser(count, len - d.off) : len \in ProcLen}
      [] Kind(d.node) = "reg" -> {0, IF d.off >= vsize[d.node] THEN 0 ELSE Lesser(count, vsize[d.node] - d.off)}
      [] OTHER -> {0}

Moves(f, n) == desc[f].off + n <= MaxOffset /\ desc' = [desc EXCEPT ![f].off = @ + n]

fd_read(t, i, count) ==
    /\ HasTable(t) /\ vfds[t][i] # NoFile /\ desc[vfds[t][i]].flags # "w"
    /\ \E n \in ReadMoves(vfds[t][i], count) : Moves(vfds[t][i], n)
    /\ UNCHANGED <<vfds, refc, there, vsize>>

\* A regular file then ends where the write ended, wherever it ended before.
fd_write(t, i, count) ==
    /\ HasTable(t) /\ vfds[t][i] # NoFile /\ desc[vfds[t][i]].flags # "r"
    /\ LET f == vfds[t][i]
           n == desc[f].node IN
       \/ Kind(n) = "reg" /\ Moves(f, count) /\ vsize' = [vsize EXCEPT ![n] = desc[f].off + count]
       \/ Kind(n) = "blk" /\ desc[f].off % SECTOR = 0 /\ count % SECTOR = 0 /\ Moves(f, count) /\ UNCHANGED vsize
    /\ UNCHANGED <<vfds, refc, there>>

\* Character devices cannot seek, only regular files seek from their end, and no offset
\* becomes negative.  A directory's offset is the cookie of its listing.
fd_seek(t, i, offset, whence) ==
    /\ HasTable(t) /\ vfds[t][i] # NoFile
    /\ LET f == vfds[t][i]
           n == desc[f].node
           to == CASE whence = "set" -> offset
                   [] whence = "cur" -> desc[f].off + offset
                   [] whence = "end" -> vsize[n] + offset IN
       /\ Kind(n) # "chr" /\ (whence = "end" => Kind(n) \in {"reg", "proc"})
       /\ to \in 0 .. MaxOffset
       /\ desc' = [desc EXCEPT ![f] = [@ EXCEPT !.off = to, !.from = to, !.listed = << >>]]
    /\ UNCHANGED <<vfds, refc, there, vsize>>

----------------------------------------------------------------------------
(* getdents64 on a directory the VFS holds in memory.                      *)

Kids(n) == Tree[n].kids

\* vfs_builtin_readdir with room for one entry: the child after the cookie; eof is set
\* together with the last child.
ReadOne(n, off) ==
    [n |-> IF off < Len(Kids(n)) THEN 1 ELSE 0,
     off |-> IF off < Len(Kids(n)) THEN off + 1 ELSE Lesser(off, Len(Kids(n))),
     eof |-> off + 1 >= Len(Kids(n))]
\* Mutant: the cookie is not put back when an entry does not fit.
ListingSkips(n, off, room, exact) ==
    LET go[k \in 0 .. room] ==
            LET r == ReadOne(n, off + k) IN
            IF k = room /\ exact THEN [off |-> off + k, stored |-> k]
            ELSE IF r.n = 0 \/ r.eof \/ k = room THEN [off |-> r.off, stored |-> k]
            ELSE go[k + 1]
    IN  go[0]

\* The loop of the call, for a buffer that takes room entries, and with nothing left over
\* when exact.  An entry that comes with eof is not stored; one that does not fit is left.
Listing(n, off, room, exact) ==
    LET go[k \in 0 .. room] ==
            LET r == ReadOne(n, off + k) IN
            IF k = room /\ exact THEN [off |-> off + k, stored |-> k]
            ELSE IF r.n = 0 \/ r.eof THEN [off |-> r.off, stored |-> k]
            ELSE IF k = room THEN [off |-> off + k, stored |-> k]
            ELSE go[k + 1]
    IN  go[0]

getdents64(t, i, room, exact) ==
    /\ HasTable(t) /\ vfds[t][i] # NoFile /\ IsDir(desc[vfds[t][i]].node)
    /\ room > 0 \/ ~exact
    /\ LET f == vfds[t][i]
           d == desc[f]
           r == Listing(d.node, d.off, room, exact) IN
       desc' = [desc EXCEPT ![f] = [@ EXCEPT !.off = r.off,
                                             !.listed = @ \o [k \in 1 .. r.stored |-> Kids(d.node)[d.off + k]]]]
    /\ UNCHANGED <<vfds, refc, there, vsize>>

----------------------------------------------------------------------------
VfsInit ==
    /\ vfds = [t \in VfsTask |-> NoTable]
    /\ refc = [f \in FileId |-> 0]
    /\ desc = [f \in FileId |-> Freed]
    /\ there = {} /\ vsize = [n \in VNode |-> 0]

VfsStep(t) ==
    \/ fd_table_create(t) \/ fd_table_destroy(t)
    \/ \E c \in VfsTask : fd_table_clone(t, c)
    \/ \E fl \in OpenArgs : fd_open_ex(t, fl)
    \/ \E i \in Fd :
        \/ fd_close(t, i)
        \/ \E n \in Count : fd_read(t, i, n) \/ fd_write(t, i, n)
        \/ \E to \in SeekTo, w \in {"set", "cur", "end"} : fd_seek(t, i, to, w)
        \/ \E room \in 0 .. 1, exact \in BOOLEAN : getdents64(t, i, room, exact)

VfsNext == \E t \in VfsTask : VfsStep(t)

VfsSpec == VfsInit /\ [][VfsNext]_vfsvars

----------------------------------------------------------------------------
(* Properties.                                                             *)

\* vfs.c: a descriptor table holds open files or nothing, and offsets, sizes and reference
\* counts never go below zero.
VfsTypeOK ==
    /\ \A t \in VfsTask : vfds[t] = NoTable \/ vfds[t] \in [Fd -> FileId \cup {NoFile}]
    /\ refc \in [FileId -> Nat]
    /\ \A f \in FileId : desc[f].node \in VNode /\ desc[f].off \in Nat
    /\ \A n \in VNode : vsize[n] \in Nat

\* vfs.h: "Number of descriptors in ANY task's table that reference this open file": the
\* count is the number of tables that hold the description, through every order of open,
\* fork, close and exit; so a block is free exactly when no table points at it, and the
\* last close frees it.
RefcountsCount == \A f \in FileId : refc[f] = Cardinality(Holders(f))

\* The directory entries delivered through one description, by all the tasks that share it
\* and whatever the sizes of their buffers, are the children in order from where its
\* cookie stood, none twice and none passed over, up to the cookie; the last child is
\* never delivered, because eof comes with it (syscall.c:1224).
ListingInOrder ==
    \A f \in FileId :
        (refc[f] > 0 /\ IsDir(desc[f].node)) =>
            LET d == desc[f]
                K == Len(Kids(d.node))
                upto == Lesser(d.off, K - 1) IN
            d.listed = IF d.from < upto THEN SubSeq(Kids(d.node), d.from + 1, upto) ELSE << >>

\* The descriptor tables are well formed and a shared directory is listed in order
\* (vfs.c, syscall.c:1170-1240).
ListingSound == VfsTypeOK /\ ListingInOrder
=============================================================================
