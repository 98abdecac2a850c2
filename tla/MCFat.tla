------------------------------- MODULE MCFat -------------------------------
(* A small volume for Fat32.                                               *)
EXTENDS Fat32

Slot(kind, name, first, size) == Entry(kind, name, first, size)

\* A volume label, a deleted entry, the subdirectory, a file and free slots.
RootSlotsDef ==
    [s \in 0 .. 4 |-> CASE s = 0 -> Slot("vol", "FERMI", 0, 0)
                        [] s = 1 -> Slot("del", "OLD", 4, 1)
                        [] s = 2 -> Slot("dir", "SUB", 3, 0)
                        [] s = 3 -> Slot("file", "A", 4, 1)
                        [] OTHER -> Slot("end", "", 0, 0)]
SubSlotsDef == [s \in 0 .. 1 |-> IF s = 0 THEN Slot("file", "B", 5, 0) ELSE Slot("end", "", 0, 0)]
\* "a" and "A" are two spellings of one 8.3 name.
ShortDef == [n \in {"a", "A", "B", "long"} |-> IF n = "a" THEN "A" ELSE IF n = "long" THEN "LONGNAME" ELSE n]

\* A listing runs beside one creation of a file, without faults.
ListBound ==
    walk # NoWalk => /\ toll.calls <= 1 /\ toll.errors = 0 /\ toll.crashes = 0
                     /\ \A t \in FatTask : fop[t] = FatIdle \/ fop[t].call = "create"
=============================================================================
