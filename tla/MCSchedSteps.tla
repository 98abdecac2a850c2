---------------------------- MODULE MCSchedSteps ----------------------------
(* The scheduler with kernel tasks beside the page allocator whose calls    *)
(* the timer interrupts.  They share no variable; a behaviour moves one of  *)
(* them, whichever moves first, so one search covers both.                  *)
EXTENDS MCSched, MCPmmSteps

VARIABLE turn                    \* "any" until one has moved

Turn(who) == turn \in {"any", who} /\ turn' = who

BothInit == turn = "any" /\ Init /\ StepsInit

BothNext ==
    \/ Turn("sched") /\ Next /\ UNCHANGED stepsvars
    \/ Turn("pmm") /\ StepsNext /\ UNCHANGED vars

BothSpec == BothInit /\ [][BothNext]_<<turn, vars, stepsvars>>

BothView == <<turn, View, StepsView>>
=============================================================================
