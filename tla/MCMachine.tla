------------------------------ MODULE MCMachine ------------------------------
(***************************************************************************)
(* Ten components beside each other: they share no variable, and a         *)
(* behaviour moves one of them, whichever moves first, so one search       *)
(* covers the state space of each.                                         *)
(***************************************************************************)
EXTENDS MCTrapReturn, MCPmmSteps, ProcMem, ElfLoad, ExecStack, KHeap, Malloc, VirtioBoot, Balloon, NetQueues

(* Executables: segments that overlap, wrap, leave the file or the address  *)
(* space, and program-header tables that do.                               *)
Seg(l, F, O, V, Z, M) == [load : l, flags : F, offset : O, vaddr : V, filesz : Z, memsz : M]
ElfsDef ==
    [ident_ok : {TRUE}, phoff : {0, 4}, phnum : {1, 2}, entry : {2, 5},
     ph : {<<s1, s2>> : s1 \in Seg({TRUE}, {{"r", "x"}, {"w", "x", "r"}}, {0, 3}, {1, 4, 30}, {3, 5, 30}, {3, 5, 6, 30}),
                      s2 \in Seg({TRUE}, {{"r", "w"}}, {3}, {5, 8, 11}, {0, 2}, {0, 2})
                            \cup Seg({FALSE}, {{}}, {0}, {0}, {0}, {0})}]
    \cup [ident_ok : {FALSE, TRUE}, phoff : {8, 9}, phnum : {0, 3, 9}, entry : {0}, ph : {<<>>}]
    \cup [ident_ok : {TRUE}, phoff : {0}, phnum : {3}, entry : {1},
          ph : {<<s1, s1, s2>> : s1 \in Seg({TRUE}, {{"r", "x"}}, {0}, {0}, {2}, {2}),
                              s2 \in Seg({TRUE}, {{"r"}, {"x"}}, {0}, {4}, {2}, {4})}]

(* Boards: up to four functions behind the bridge, among them one that is   *)
(* no endpoint, one the drivers do not know to be complete, and more than   *)
(* fit in pci_devices.  The BARs are of every kind, some empty.             *)
Bar(kind, size) == [kind |-> kind, size |-> size]
Cap(id, type, bar) == [id |-> id, type |-> type, bar |-> bar]
NoBar == Bar("mem32", 0)
BarLists == {<<Bar("io", 2), Bar("mem32", 2), NoBar, NoBar, Bar("mem64", 4), Bar("odd", 1)>>,
             <<Bar("mem32", 4), NoBar, Bar("mem64", 0), NoBar, Bar("mem64", 2), NoBar>>,
             <<Bar("mem64", 2), NoBar, Bar("mem32", 1), Bar("mem32", 2), NoBar, Bar("mem64", 2)>>}
CapLists == {<<Cap(17, 1, 0), Cap(9, 1, 4), Cap(9, 2, 4), Cap(9, 5, 0)>>, <<Cap(9, 1, 7), Cap(9, 1, 0)>>}
Functions(id) == {[id |-> id, endpoint |-> TRUE, bars |-> bs, caps |-> cs, features |-> f, accepts |-> ok, queues |-> q] :
    bs \in BarLists, cs \in CapLists, f \in {{"version1", "mac", "gso"}, {"mac"}}, ok \in BOOLEAN, q \in {<<4, 1>>, <<2, 0>>}}
Bridge == [id |-> "blk", endpoint |-> FALSE, bars |-> <<NoBar, NoBar, NoBar, NoBar, NoBar, NoBar>>, caps |-> << >>,
           features |-> {}, accepts |-> TRUE, queues |-> <<0, 0>>]
Good(id, bars, ok) == CHOOSE f \in Functions(id) : f.bars = bars /\ f.accepts = ok /\ f.queues = <<4, 1>> /\ f.caps[1].id = 17 /\ "version1" \in f.features
BoardDef == {<<f, g, h, Good("balloon", h.bars, FALSE)>> : f \in Functions("net"),
             g \in {Good("rng", bs, TRUE) : bs \in BarLists} \cup {Bridge, Good("console", <<Bar("mem32", 4), NoBar, Bar("mem64", 0), NoBar, Bar("mem64", 2), NoBar>>, FALSE)},
             h \in {Good(i, bs, TRUE) : i \in {"balloon", "console", "blk"}, bs \in BarLists}}

VARIABLE turn           \* the component that moves, once one has

MachineInit ==
    /\ turn = "any"
    /\ TrapInit /\ StepsInit /\ PmInit /\ ElfInit /\ XsInit /\ KHeapInit /\ MallocInit /\ VirtioInit /\ BalloonInit /\ NetInit

Turn(who) == turn \in {"any", who} /\ turn' = who

MachineNext ==
    \/ Turn("trap") /\ TrapNext /\ UNCHANGED <<stepsvars, pmvars, elfvars, xsvars, kheapvars, mallocvars, bootvars, balloonvars, netvars>>
    \/ Turn("pmm") /\ StepsNext /\ UNCHANGED <<trapvars, pmvars, elfvars, xsvars, kheapvars, mallocvars, bootvars, balloonvars, netvars>>
    \/ Turn("procmem") /\ PmNext /\ UNCHANGED <<trapvars, stepsvars, elfvars, xsvars, kheapvars, mallocvars, bootvars, balloonvars, netvars>>
    \/ Turn("elf") /\ ElfNext /\ UNCHANGED <<trapvars, stepsvars, pmvars, xsvars, kheapvars, mallocvars, bootvars, balloonvars, netvars>>
    \/ Turn("stack") /\ XsNext /\ UNCHANGED <<trapvars, stepsvars, pmvars, elfvars, kheapvars, mallocvars, bootvars, balloonvars, netvars>>
    \/ Turn("kheap") /\ KHeapNext /\ UNCHANGED <<trapvars, stepsvars, pmvars, elfvars, xsvars, mallocvars, bootvars, balloonvars, netvars>>
    \/ Turn("malloc") /\ MallocNext /\ UNCHANGED <<trapvars, stepsvars, pmvars, elfvars, xsvars, kheapvars, bootvars, balloonvars, netvars>>
    \/ Turn("boot") /\ VirtioNext /\ UNCHANGED <<trapvars, stepsvars, pmvars, elfvars, xsvars, kheapvars, mallocvars, balloonvars, netvars>>
    \/ Turn("balloon") /\ BalloonNext /\ UNCHANGED <<trapvars, stepsvars, pmvars, elfvars, xsvars, kheapvars, mallocvars, bootvars, netvars>>
    \/ Turn("net") /\ NetNext /\ UNCHANGED <<trapvars, stepsvars, pmvars, elfvars, xsvars, kheapvars, mallocvars, bootvars, balloonvars>>

MachineSpec == MachineInit /\ [][MachineNext]_<<turn, trapvars, stepsvars, pmvars, elfvars, xsvars, kheapvars, mallocvars, bootvars, balloonvars, netvars>>

MachineSymmetric == Symmetric \cup Permutations(PTask)
=============================================================================
