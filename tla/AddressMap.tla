----------------------------- MODULE AddressMap -----------------------------
(***************************************************************************)
(* What mmap, munmap, mprotect, brk and the page-fault handler promise a   *)
(* user program about its own addresses, whatever the kernel's records     *)
(* look like: a page of the address space is unmapped or has a protection  *)
(* and, once touched, one physical page that stays the same until it is    *)
(* unmapped.                                                               *)
(***************************************************************************)
EXTENDS Integers

CONSTANTS VPage,                 \* addresses of the pages
          Prot,                  \* protections
          Frame                  \* physical pages

Untouched == 0                   \* mapped, not yet backed
Unmapped == [prot |-> {}, page |-> -1]

VARIABLE view

Init == view = [v \in VPage |-> Unmapped]

\* What a step may do to the pages D at which the map changes from old to new.

\* New pages appear only where nothing was mapped, and hold nothing yet.
Map(old, new, D) ==
    \E prot \in Prot : \A v \in D :
       old[v] = Unmapped /\ new[v] = [prot |-> prot, page |-> Untouched]

Unmap(old, new, D) == \A v \in D : new[v] = Unmapped

\* A new protection reaches what is mapped, and moves no page.
Protect(old, new, D) ==
    \E prot \in Prot : \A v \in D :
       old[v] # Unmapped /\ new[v] = [old[v] EXCEPT !.prot = prot]

\* The first touch backs a page with one that backs no other.
Touch(old, new, D) ==
    \E frame \in Frame : \E v \in D :
       /\ D = {v}
       /\ old[v] # Unmapped /\ old[v].page = Untouched
       /\ new[v] = [old[v] EXCEPT !.page = frame]
       /\ \A w \in VPage : old[w].page # frame

Next ==
    LET old == view
        new == view'
        D == {v \in VPage : old[v] # new[v]}
    IN  /\ DOMAIN new = VPage
        /\ \/ old = new
           \/ Map(old, new, D) \/ Unmap(old, new, D)
           \/ Protect(old, new, D) \/ Touch(old, new, D)

Spec == Init /\ [][Next]_view
=============================================================================
