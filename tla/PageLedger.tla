----------------------------- MODULE PageLedger -----------------------------
(***************************************************************************)
(* What the page allocator promises its callers, whatever its data         *)
(* structures: a page is handed out only while nobody holds it, a page that *)
(* is given back can be handed out again, and the pages of the kernel image *)
(* and of the bitmap are never handed out.                                 *)
(***************************************************************************)
EXTENDS Naturals

CONSTANTS Pages, Reserved        \* the pages, and those never handed out

VARIABLE holders                 \* how many callers hold each page

Init == holders = [p \in Pages |-> 0]

\* An allocation of one page or of a contiguous block, none of it held.
Grant(first, last) ==
    /\ first <= last
    /\ first .. last \subseteq Pages \ Reserved
    /\ \A p \in first .. last : holders[p] = 0
    /\ holders' = [p \in Pages |-> IF p \in first .. last THEN 1 ELSE holders[p]]

\* A release of pages.
Return(pages) == holders' = [p \in Pages |-> IF p \in pages THEN 0 ELSE holders[p]]

Next ==
    \/ \E pages \in SUBSET Pages : Return(pages)
    \/ \E first, last \in Pages : Grant(first, last)

Spec == Init /\ [][Next]_holders
=============================================================================
