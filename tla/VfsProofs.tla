----------------------------- MODULE VfsProofs -----------------------------
(***************************************************************************)
(* The reference counts of open files, for any number of tasks, of         *)
(* descriptors and of files, and any tree of names.                        *)
(***************************************************************************)
EXTENDS Vfs, FiniteSetTheorems, TLAPS

Tables == {NoTable} \cup [Fd -> FileId \cup {NoFile}]

\* Table T names description f.
Names(T, f) == \E i \in DOMAIN T : T[i] = f

\* No description is in two slots of one table: no call copies a descriptor within a
\* table.  A close could otherwise drop a reference while its task keeps another.
OncePerTable(T) == \A i, j \in DOMAIN T : T[i] = T[j] /\ T[i] # NoFile => i = j

\* The inductive invariant.
VInv ==
  /\ vfds \in [VfsTask -> Tables]
  /\ refc \in [FileId -> Nat]
  /\ \A t \in VfsTask : OncePerTable(vfds[t])
  /\ RefcountsCount

LEMMA HoldersFinite ==
  ASSUME NEW f
  PROVE  IsFiniteSet(Holders(f)) /\ Cardinality(Holders(f)) \in Nat
<1>1. Holders(f) \subseteq VfsTask
  BY DEF Holders
<1>2. IsFiniteSet(Holders(f))
  BY <1>1, VfsAssumption, FS_Subset
<1>3. QED BY <1>2, FS_CardinalityType

\* One table changes: the counts follow it when each goes up by one for a description
\* that the table now names, and down by one for one that it named.
LEMMA OneTableChanges ==
  ASSUME VInv, NEW t \in VfsTask, NEW T \in Tables, OncePerTable(T),
         vfds' = [vfds EXCEPT ![t] = T], refc' \in [FileId -> Int],
         \A f \in FileId : refc'[f] = refc[f] + (IF Names(T, f) THEN 1 ELSE 0)
                                              - (IF Holds(t, f) THEN 1 ELSE 0)
  PROVE  VInv'
<1>1. vfds' \in [VfsTask -> Tables] /\ vfds'[t] = T
      /\ \A u \in VfsTask : u # t => vfds'[u] = vfds[u]
  BY DEF VInv
<1>2. \A u \in VfsTask : OncePerTable(vfds'[u])
  BY <1>1 DEF VInv
<1>3. ASSUME NEW f \in FileId
      PROVE  refc'[f] = Cardinality(Holders(f)') /\ refc'[f] \in Nat
  <2> DEFINE H == Holders(f)
             rest == H \ {t}
  <2>1. rest \subseteq VfsTask /\ t \notin rest
    BY DEF Holders
  <2>2. H = IF Holds(t, f) THEN rest \cup {t} ELSE rest
    BY DEF Holders
  <2>3. Holders(f)' = IF Names(T, f) THEN rest \cup {t} ELSE rest
    <3>1. Holds(t, f)' <=> Names(T, f)
      BY <1>1 DEF Holds, Names
    <3>2. \A u \in VfsTask : u # t => (Holds(u, f)' <=> Holds(u, f))
      BY <1>1 DEF Holds
    <3>3. QED BY <3>1, <3>2 DEF Holders
  <2>4. IsFiniteSet(rest)
    BY <2>1, VfsAssumption, FS_Subset
  <2>5. Cardinality(rest) \in Nat
    BY <2>4, FS_CardinalityType
  <2>6. Cardinality(rest \cup {t}) = Cardinality(rest) + 1
    BY Zenon, <2>1, <2>4, FS_AddElement
  <2>7. refc[f] = Cardinality(H)
    BY DEF VInv, RefcountsCount
  <2> HIDE DEF rest, H
  <2>8. QED BY <2>2, <2>3, <2>5, <2>6, <2>7
<1>4. RefcountsCount'
  BY <1>3 DEF RefcountsCount
<1>5. refc' \in [FileId -> Nat]
  BY <1>3
<1>6. QED BY <1>1, <1>2, <1>4, <1>5 DEF VInv

\* A description that is in no table has the count 0, and the other way round.
LEMMA UncountedIsUnheld ==
  ASSUME VInv, NEW f \in FileId, refc[f] = 0, NEW t \in VfsTask
  PROVE  ~Holds(t, f)
<1>1. Holders(f) = {}
  BY HoldersFinite, FS_EmptySet DEF VInv, RefcountsCount
<1>2. QED BY <1>1 DEF Holders

LEMMA TableOf ==
  ASSUME VInv, NEW t \in VfsTask, HasTable(t)
  PROVE  vfds[t] \in [Fd -> FileId \cup {NoFile}] /\ OncePerTable(vfds[t])
  BY DEF VInv, Tables, HasTable

LEMMA CreateKeeps ==
  ASSUME VInv, NEW t \in VfsTask, fd_table_create(t)
  PROVE  VInv'
<1>1. vfds' = [vfds EXCEPT ![t] = EmptyTable] /\ refc' = refc /\ vfds[t] = NoTable
  BY DEF fd_table_create, HasTable
<1>2. EmptyTable \in Tables /\ OncePerTable(EmptyTable)
  BY DEF EmptyTable, Tables, OncePerTable
<1>3. \A f \in FileId : ~Names(EmptyTable, f) /\ ~Holds(t, f)
  BY <1>1, VfsAssumption DEF EmptyTable, Names, Holds, NoTable
<1>4. \A f \in FileId : refc[f] \in Nat /\ refc'[f] = refc[f]
  BY <1>1 DEF VInv
<1>5. refc' \in [FileId -> Int]
  BY <1>1 DEF VInv
<1> HIDE DEF EmptyTable
<1>6. \A f \in FileId : refc'[f] = refc[f] + (IF Names(EmptyTable, f) THEN 1 ELSE 0)
                                          - (IF Holds(t, f) THEN 1 ELSE 0)
  BY <1>3, <1>4
<1>7. QED BY Zenon, <1>1, <1>2, <1>5, <1>6, OneTableChanges

LEMMA CloneKeeps ==
  ASSUME VInv, NEW t \in VfsTask, NEW c \in VfsTask, fd_table_clone(t, c)
  PROVE  VInv'
<1> DEFINE T == vfds[t]
<1>1. vfds' = [vfds EXCEPT ![c] = T] /\ vfds[c] = NoTable
      /\ refc' = [f \in FileId |-> IF Holds(t, f) THEN refc[f] + 1 ELSE refc[f]]
  BY DEF fd_table_clone, HasTable
<1>2. T \in Tables /\ OncePerTable(T)
  BY DEF VInv
<1>3. \A f \in FileId : (Names(T, f) <=> Holds(t, f)) /\ ~Holds(c, f)
  BY <1>1 DEF Names, Holds, NoTable
<1>4. \A f \in FileId : refc[f] \in Nat
                        /\ refc'[f] = IF Holds(t, f) THEN refc[f] + 1 ELSE refc[f]
  BY <1>1 DEF VInv
<1>5. refc' \in [FileId -> Int]
  BY <1>1, <1>4
<1>6. \A f \in FileId : refc'[f] = refc[f] + (IF Names(T, f) THEN 1 ELSE 0)
                                          - (IF Holds(c, f) THEN 1 ELSE 0)
  BY <1>3, <1>4
<1> HIDE DEF T
<1>7. QED BY Zenon, <1>1, <1>2, <1>5, <1>6, OneTableChanges

LEMMA DestroyKeeps ==
  ASSUME VInv, NEW t \in VfsTask, fd_table_destroy(t)
  PROVE  VInv'
<1>1. vfds' = [vfds EXCEPT ![t] = NoTable]
      /\ refc' = [f \in FileId |-> IF f \in {g \in FileId : Holds(t, g)} THEN refc[f] - 1 ELSE refc[f]]
  BY DEF fd_table_destroy, fd_release
<1>2. NoTable \in Tables /\ OncePerTable(NoTable) /\ \A f \in FileId : ~Names(NoTable, f)
  BY DEF Tables, OncePerTable, NoTable, Names
<1>3. \A f \in FileId : refc[f] \in Nat
                        /\ refc'[f] = IF Holds(t, f) THEN refc[f] - 1 ELSE refc[f]
  BY <1>1 DEF VInv
<1>4. refc' \in [FileId -> Int]
  BY <1>1, <1>3
<1>5. \A f \in FileId : refc'[f] = refc[f] + (IF Names(NoTable, f) THEN 1 ELSE 0)
                                          - (IF Holds(t, f) THEN 1 ELSE 0)
  BY <1>2, <1>3
<1>6. QED BY Zenon, <1>1, <1>2, <1>4, <1>5, OneTableChanges

\* The slot that is cleared was the only one of its table with that description.
LEMMA CloseKeeps ==
  ASSUME VInv, NEW t \in VfsTask, NEW i \in Fd, fd_close(t, i)
  PROVE  VInv'
<1> DEFINE T == [vfds[t] EXCEPT ![i] = NoFile]
           g == vfds[t][i]
<1>1. /\ vfds' = [vfds EXCEPT ![t] = T] /\ g # NoFile
      /\ refc' = [f \in FileId |-> IF f \in {g} THEN refc[f] - 1 ELSE refc[f]]
  BY DEF fd_close, fd_release
<1>2. vfds[t] \in [Fd -> FileId \cup {NoFile}] /\ OncePerTable(vfds[t])
  BY TableOf DEF fd_close
<1>3. T \in [Fd -> FileId \cup {NoFile}] /\ \A j \in Fd : T[j] = IF j = i THEN NoFile ELSE vfds[t][j]
  BY <1>2
<1>4. T \in Tables /\ OncePerTable(T)
  BY <1>2, <1>3 DEF Tables, OncePerTable
<1>5. Holds(t, g) /\ \A f \in FileId : Names(T, f) <=> Holds(t, f) /\ f # g
  BY <1>1, <1>2, <1>3, VfsAssumption DEF Names, Holds, OncePerTable
<1>6. \A f \in FileId : refc[f] \in Nat /\ refc'[f] = IF f = g THEN refc[f] - 1 ELSE refc[f]
  BY <1>1 DEF VInv
<1>7. refc' \in [FileId -> Int]
  BY <1>1, <1>6
<1> HIDE DEF T, g
<1>8. \A f \in FileId : refc'[f] = refc[f] + (IF Names(T, f) THEN 1 ELSE 0)
                                          - (IF Holds(t, f) THEN 1 ELSE 0)
  BY <1>5, <1>6
<1>9. QED BY Zenon, <1>1, <1>4, <1>7, <1>8, OneTableChanges

\* A call that touches neither the tables nor the counts.
LEMMA OthersKeep ==
  ASSUME VInv, UNCHANGED <<vfds, refc>>
  PROVE  VInv'
  BY DEF VInv, RefcountsCount, Holders, Holds

\* A block of the heap that is reused for a new description is in no table.
LEMMA OpenKeeps ==
  ASSUME VInv, NEW t \in VfsTask, NEW fl \in OpenArgs, fd_open_ex(t, fl)
  PROVE  VInv'
<1>1. HasTable(t)
  BY DEF fd_open_ex
<1>2. CASE UNCHANGED <<vfds, refc>>
  BY <1>2, OthersKeep
<1>3. CASE \E i \in alloc_fd(t), f \in FileId :
             /\ refc[f] = 0
             /\ vfds' = [vfds EXCEPT ![t][i] = f]
             /\ refc' = [refc EXCEPT ![f] = 1]
  <2>1. PICK i \in alloc_fd(t), g \in FileId :
             /\ refc[g] = 0
             /\ vfds' = [vfds EXCEPT ![t][i] = g]
             /\ refc' = [refc EXCEPT ![g] = 1]
    BY Zenon, <1>3
  <2> DEFINE T == [vfds[t] EXCEPT ![i] = g]
  <2>2. i \in Fd /\ vfds[t][i] = NoFile /\ vfds' = [vfds EXCEPT ![t] = T]
    BY <2>1 DEF alloc_fd
  <2>3. vfds[t] \in [Fd -> FileId \cup {NoFile}] /\ OncePerTable(vfds[t]) /\ ~Holds(t, g)
    BY <1>1, <2>1, TableOf, UncountedIsUnheld
  <2>4. T \in [Fd -> FileId \cup {NoFile}] /\ \A j \in Fd : T[j] = IF j = i THEN g ELSE vfds[t][j]
    BY <2>2, <2>3
  <2>5. T \in Tables /\ OncePerTable(T)
    BY <2>2, <2>3, <2>4 DEF Tables, OncePerTable, Holds
  <2>6. \A f \in FileId : Names(T, f) <=> Holds(t, f) \/ f = g
    BY <2>2, <2>3, <2>4, VfsAssumption DEF Names, Holds
  <2>7. \A f \in FileId : refc[f] \in Nat /\ refc'[f] = IF f = g THEN refc[f] + 1 ELSE refc[f]
    BY <2>1 DEF VInv
  <2>8. refc' \in [FileId -> Int]
    BY <2>1 DEF VInv
  <2> HIDE DEF T
  <2>9. \A f \in FileId : refc'[f] = refc[f] + (IF Names(T, f) THEN 1 ELSE 0)
                                            - (IF Holds(t, f) THEN 1 ELSE 0)
    BY <2>3, <2>6, <2>7
  <2>10. QED BY Zenon, <2>2, <2>5, <2>8, <2>9, OneTableChanges
<1>4. QED BY <1>2, <1>3 DEF fd_open_ex

LEMMA InitCounts == VfsInit => VInv
<1> SUFFICES ASSUME VfsInit PROVE VInv
  OBVIOUS
<1>1. \A t \in VfsTask : vfds[t] = NoTable
  BY DEF VfsInit
<1>2. \A f \in FileId : Holders(f) = {}
  BY <1>1 DEF Holders, Holds, NoTable
<1>3. RefcountsCount
  BY <1>2, FS_EmptySet DEF RefcountsCount, VfsInit
<1>4. QED BY <1>1, <1>3 DEF VInv, VfsInit, Tables, OncePerTable, NoTable

LEMMA NextCounts ==
  ASSUME VInv, [VfsNext]_vfsvars
  PROVE  VInv'
<1>1. CASE UNCHANGED vfsvars
  BY <1>1, OthersKeep DEF vfsvars
<1>2. ASSUME NEW t \in VfsTask, VfsStep(t) PROVE VInv'
  <2>1. CASE fd_table_create(t) \/ fd_table_destroy(t)
    BY <2>1, CreateKeeps, DestroyKeeps
  <2>2. CASE \E c \in VfsTask : fd_table_clone(t, c)
    BY <2>2, CloneKeeps
  <2>3. CASE \E fl \in OpenArgs : fd_open_ex(t, fl)
    BY <2>3, OpenKeeps
  <2>4. CASE \E i \in Fd : fd_close(t, i)
    BY <2>4, CloseKeeps
  <2>5. CASE \E i \in Fd, n \in Count : fd_read(t, i, n) \/ fd_write(t, i, n)
    <3>1. UNCHANGED <<vfds, refc>>
      BY <2>5 DEF fd_read, fd_write
    <3>2. QED BY <3>1, OthersKeep
  <2>6. CASE \E i \in Fd, to \in SeekTo, w \in {"set", "cur", "end"} : fd_seek(t, i, to, w)
    <3>1. UNCHANGED <<vfds, refc>>
      BY SMTT(60), <2>6 DEF fd_seek
    <3>2. QED BY <3>1, OthersKeep
  <2>7. CASE \E i \in Fd, room \in 0 .. 1, exact \in BOOLEAN : getdents64(t, i, room, exact)
    <3>1. UNCHANGED <<vfds, refc>>
      BY <2>7 DEF getdents64
    <3>2. QED BY <3>1, OthersKeep
  <2>8. QED BY <1>2, <2>1, <2>2, <2>3, <2>4, <2>5, <2>6, <2>7 DEF VfsStep
<1>3. QED BY <1>1, <1>2 DEF VfsNext

\* Through every order of open, fork, close and exit of any number of tasks, the count of
\* an open file is the number of tables that hold it (vfs.c, fd_table_clone, fd_release):
\* a block is freed by its last close, never while a table points at it.
THEOREM CountsAreRight == VfsSpec => []RefcountsCount
<1>1. VfsInit => VInv
  BY InitCounts
<1>2. VInv /\ [VfsNext]_vfsvars => VInv'
  BY NextCounts
<1>3. VInv => RefcountsCount
  BY DEF VInv
<1>4. QED BY <1>1, <1>2, <1>3, PTL DEF VfsSpec
=============================================================================
