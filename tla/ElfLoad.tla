------------------------------ MODULE ElfLoad -------------------------------
(***************************************************************************)
(* elf_load (syscall/elf.c): the checks on an executable's headers, and the *)
(* loop that allocates, fills and maps one region per loadable segment. A   *)
(* byte of memory is modelled by the file offset it was copied from, or     *)
(* Zero; what the headers may say is an input, out-of-range values included.*)
(***************************************************************************)
EXTENDS Integers, Sequences, FiniteSets

CONSTANTS PAGE, STACK_TOP,       \* bytes in a page, first address past user memory
          WORD,                  \* 2^64: where unsigned sums wrap
          PHENT,                 \* size of a program header
          MAX_PHNUM, MAX_REGIONS,
          FileSize,              \* bytes of the file
          Elfs                   \* the headers that are tried

ASSUME ElfAssumption == {PAGE, STACK_TOP, WORD, PHENT, FileSize} \subseteq Nat \ {0}

VARIABLES elf,                   \* the headers of the file
          ei,                    \* the program header the loop is at
          regions,               \* regions allocated: base, pages, their bytes, flags
          umap,                  \* user page -> the region its entry points at, 0 if none
          phdr_va,               \* where the program headers are advertised, 0 if nowhere
          eres                   \* "idle", "start", "load", "ok", "refused"
elfvars == <<elf, ei, regions, umap, phdr_va, eres>>

Zero == -1
PageOf(a) == a - (a % PAGE)
Sum(a, b) == (a + b) % WORD

\* The identification, type, machine and program-header table checks.
HeaderOk(e) ==
    /\ e.ident_ok
    /\ e.phnum # 0 /\ e.phnum <= MAX_PHNUM
    /\ e.phoff <= FileSize
    /\ e.phoff + e.phnum * PHENT <= FileSize

\* W+X and unreadable segments are rejected.
parse_flags(flags) == "r" \in flags /\ ~ {"w", "x"} \subseteq flags

SegmentOk(ph) ==
    /\ ph.filesz <= ph.memsz
    /\ ~ (Sum(ph.offset, ph.filesz) > FileSize \/ Sum(ph.offset, ph.filesz) < ph.offset)
    /\ ph.vaddr < STACK_TOP
    /\ ~ (Sum(ph.vaddr, ph.memsz) > STACK_TOP \/ Sum(ph.vaddr, ph.memsz) < ph.vaddr)
    /\ Len(regions) < MAX_REGIONS
    /\ parse_flags(ph.flags)

\* The pages that span the segment, zeroed, with the bytes of the file copied in.
Region(ph) ==
    LET lo == PageOf(ph.vaddr)
        hi == PageOf(ph.vaddr + ph.memsz + PAGE - 1)
    IN  [va |-> lo, pages |-> (hi - lo) \div PAGE, flags |-> ph.flags,
         byte |-> [a \in lo .. hi - 1 |->
                      IF ph.vaddr <= a /\ a < ph.vaddr + ph.filesz
                      THEN ph.offset + (a - ph.vaddr) ELSE Zero]]

Refuse ==
    /\ regions' = <<>> /\ eres' = "refused"       \* free_regions
    /\ UNCHANGED <<elf, ei, umap, phdr_va>>

CheckHeader ==
    /\ eres = "start"
    /\ \/ HeaderOk(elf) /\ eres' = "load" /\ UNCHANGED <<elf, ei, regions, umap, phdr_va>>
       \/ ~ HeaderOk(elf) /\ Refuse

\* One program header. A segment of no pages has no allocation to be had.
LoadSegment ==
    /\ eres = "load" /\ ei <= elf.phnum
    /\ LET ph == elf.ph[ei]
           r == Region(ph)
       IN  \/ ~ ph.load /\ ei' = ei + 1 /\ UNCHANGED <<elf, regions, umap, phdr_va, eres>>
           \/ ph.load /\ (~ SegmentOk(ph) \/ r.pages = 0) /\ Refuse
           \/ ph.load /\ SegmentOk(ph) /\ Refuse          \* no memory for the pages
           \/ /\ ph.load /\ SegmentOk(ph) /\ r.pages # 0
              /\ regions' = Append(regions, r)
              /\ umap' = [a \in DOMAIN umap |->
                             IF r.va <= a /\ a < r.va + r.pages * PAGE
                             THEN Len(regions) + 1 ELSE umap[a]]
              /\ ei' = ei + 1
              /\ UNCHANGED <<elf, phdr_va, eres>>

Loads(e) == {i \in 1 .. e.phnum : e.ph[i].load}

\* Mutant: a table that ends past the segment is advertised too.
PhdrStartsIn(e, i) ==
    /\ e.phoff >= e.ph[i].offset
    /\ e.phoff <= e.ph[i].offset + e.ph[i].filesz
\* The segment whose bytes of the file hold the whole program-header table.
PhdrCovered(e, i) ==
    /\ e.phoff >= e.ph[i].offset
    /\ e.phoff + e.phnum * PHENT <= e.ph[i].offset + e.ph[i].filesz

EntryOk(e) == \E i \in Loads(e) :
    /\ e.ph[i].vaddr <= e.entry /\ e.entry < e.ph[i].vaddr + e.ph[i].memsz
    /\ "x" \in e.ph[i].flags

Finish ==
    /\ eres = "load" /\ ei > elf.phnum
    /\ \/ Len(regions) = 0 /\ Refuse
       \/ Len(regions) # 0 /\ ~ EntryOk(elf) /\ Refuse
       \/ /\ Len(regions) # 0 /\ EntryOk(elf)
          /\ LET covering == {i \in Loads(elf) : PhdrCovered(elf, i)}
                 first == CHOOSE i \in covering : \A j \in covering : i <= j
             IN  phdr_va' = IF covering = {} THEN 0
                            ELSE elf.ph[first].vaddr + (elf.phoff - elf.ph[first].offset)
          /\ eres' = "ok"
          /\ UNCHANGED <<elf, ei, regions, umap>>

\* The file is in memory; what its headers say is up to its author.
ReadFile ==
    /\ eres = "idle" /\ eres' = "start" /\ elf' \in Elfs
    /\ UNCHANGED <<ei, regions, umap, phdr_va>>

ElfInit ==
    /\ elf = <<>> /\ ei = 1 /\ regions = <<>> /\ phdr_va = 0 /\ eres = "idle"
    /\ umap = [a \in {b \in 0 .. STACK_TOP - 1 : b % PAGE = 0} |-> 0]

ElfNext == ReadFile \/ CheckHeader \/ LoadSegment \/ Finish
ElfSpec == ElfInit /\ [][ElfNext]_elfvars
-----------------------------------------------------------------------------
\* The byte of the file a user address reads, through its page-table entry.
Reads(a) == regions[umap[PageOf(a)]].byte[a]

PagesOf(ph) == {PageOf(a) : a \in DOMAIN Region(ph).byte}
Disjoint == \A i, j \in Loads(elf) : i # j => PagesOf(elf.ph[i]) \cap PagesOf(elf.ph[j]) = {}

\* An accepted executable is in memory as its headers say: every byte of every
\* segment reads the byte of the file it stands for, or zero past the part the
\* file holds, unless two segments share a page (each gets a page of its own
\* there, and the entry of the later one wins).
ImageAsLinked ==
    eres = "ok" /\ Disjoint =>
        \A i \in Loads(elf) : \A k \in 0 .. elf.ph[i].memsz - 1 :
            /\ elf.ph[i].vaddr + k < STACK_TOP
            /\ umap[PageOf(elf.ph[i].vaddr + k)] # 0
            /\ Reads(elf.ph[i].vaddr + k) =
                   IF k < elf.ph[i].filesz THEN elf.ph[i].offset + k ELSE Zero

\* The program starts on a page it may execute, and no page can be both
\* written and executed.
StartsExecutable ==
    eres = "ok" /\ Disjoint =>
        /\ "x" \in regions[umap[PageOf(elf.entry)]].flags
        /\ \A a \in DOMAIN umap : umap[a] # 0 => ~ {"w", "x"} \subseteq regions[umap[a]].flags

\* An advertised program-header table (AT_PHDR) can be read whole: every byte
\* at the address given to the program is the byte of the table in the file.
PhdrReadable ==
    eres = "ok" /\ phdr_va # 0 /\ Disjoint =>
        \A k \in 0 .. elf.phnum * PHENT - 1 :
            umap[PageOf(phdr_va + k)] # 0 /\ Reads(phdr_va + k) = elf.phoff + k

\* An accepted executable is in memory, starts and finds its headers as its author meant.
LoadedAsLinked == ImageAsLinked /\ StartsExecutable /\ PhdrReadable
=============================================================================
