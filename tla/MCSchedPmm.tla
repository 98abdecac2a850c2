---------------------------- MODULE MCSchedPmm ----------------------------
(* The scheduler beside the page allocator whose calls are single steps.   *)
(* They share no variable; a behaviour moves one of them, whichever moves  *)
(* first, so one search covers both.                                       *)
EXTENDS MCSched, Pmm

VARIABLE turn                    \* "any" until one has moved

Turn(who) == turn \in {"any", who} /\ turn' = who

BothInit == turn = "any" /\ Init /\ PmmInit

BothNext ==
    \/ Turn("sched") /\ Next /\ UNCHANGED pmmvars
    \/ Turn("pmm") /\ PmmNext /\ UNCHANGED vars

BothSpec == BothInit /\ [][BothNext]_<<turn, vars, pmmvars>>

BothView == <<turn, View, pmmvars>>
===========================================================================
