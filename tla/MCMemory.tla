------------------------------ MODULE MCMemory ------------------------------
(***************************************************************************)
(* The components with liveness beside each other: an address space, the   *)
(* block driver and the network bring-up.  They share no variable, and a   *)
(* behaviour moves one of them, whichever moves first, so one search       *)
(* covers the state space of each.                                         *)
(***************************************************************************)
EXTENDS AddressSpace, Blk, Dhcp

CONSTANTS Fixed                  \* where MAP_FIXED is asked for

(* A small address space: pages of two bytes; one page of stack to grow,   *)
(* three for mmap and two for brk.                                         *)
MmapArgsDef ==
    {[addr |-> 0, length |-> n, fixed |-> FALSE] : n \in {0, 2, 3}}
    \cup {[addr |-> a, length |-> 4, fixed |-> TRUE] : a \in Fixed}
MprotectArgsDef ==
    {[addr |-> 16, length |-> 1], [addr |-> 18, length |-> 1], [addr |-> 16, length |-> 4]}
MunmapArgsDef ==
    MprotectArgsDef \cup {[addr |-> 0, length |-> 2], [addr |-> 22, length |-> 2]}
BrkArgsDef == {23, 25, 27}

VARIABLE turn                    \* "any" until one has moved

Turn(who) == turn \in {"any", who} /\ turn' = who

MemoryInit == turn = "any" /\ AsInit /\ BlkInit /\ DhcpInit

MemoryNext ==
    \/ Turn("space") /\ AsNext /\ UNCHANGED <<blkvars, dhcpvars>>
    \/ Turn("blk") /\ BlkNext /\ UNCHANGED <<asvars, dhcpvars>>
    \/ Turn("dhcp") /\ DhcpNext /\ UNCHANGED <<asvars, blkvars>>

\* The fairness of the component that moves.
MemoryFairness ==
    /\ WF_asvars(turn = "space" /\ Retries)
    /\ \A t \in BTask : WF_blkvars(turn = "blk" /\ bcur = t /\ Busy(t))
    /\ WF_blkvars(turn = "blk" /\ Device)
    /\ WF_dhcpvars(turn = "dhcp" /\ DhcpStep)

MemorySpec == MemoryInit /\ [][MemoryNext]_<<turn, asvars, blkvars, dhcpvars>> /\ MemoryFairness
=============================================================================
