---------------------------- MODULE MCPmmSteps ----------------------------
(* Two callers for TLC, all masked or all preemptible.                     *)
EXTENDS PmmSteps

NoCaller == {}

\* used_pages and the auxiliary before are written but never tested: runs that
\* are not about them leave them out, with the loaded copies of used_pages.
StepsView == <<bitmap, got,
               [t \in Caller |-> IF call[t].at \in {"count_store", "uncount_store"}
                                 THEN [call[t] EXCEPT !.reg = {}] ELSE call[t]]>>
===========================================================================
