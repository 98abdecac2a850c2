----------------------------- MODULE VirtioBoot -----------------------------
(***************************************************************************)
(* Finding and starting the virtio devices at boot: the PCI bus scan, the   *)
(* assignment of BAR windows (pci/pci.c), the capability list               *)
(* (pci/virtio/virtio.c) and the bring-up of the five drivers, one after    *)
(* the other.  The hardware is external: which functions are on the bus,    *)
(* their BARs, capabilities, features and queues are those of a board.      *)
(***************************************************************************)
EXTENDS Integers, Sequences, SequencesExt, FiniteSets

CONSTANTS
    Board,              \* boards: sequences of functions, in scan order
    MAX_PCI_DEVICES,
    MMIO32_PHYS, MMIO32_LIMIT, MMIO64_PHYS, MMIO64_LIMIT,
    QMAX                \* VIRTQ_MAX_SIZE

ASSUME VirtioAssumption ==
    /\ {MAX_PCI_DEVICES, MMIO32_PHYS, MMIO32_LIMIT, MMIO64_PHYS, MMIO64_LIMIT, QMAX} \subseteq Nat \ {0}
    /\ MMIO32_LIMIT < MMIO64_PHYS

VARIABLES
    board,          \* the functions on the bus
    pci_devices,    \* pci_devices[]: indices into board
    mmio32_next, mmio64_next,
    bar_addr,       \* the window of each BAR of each function, 0 when none
    caps,           \* what the capability list of each function gave: the BARs of its areas
    chip,           \* what each function has been told: [status, features, queues, decodes]
    at,             \* the driver being started, and its next step
    ready           \* drivers that set their ready flag

bootvars == <<board, pci_devices, mmio32_next, mmio64_next, bar_addr, caps, chip, at, ready>>

----------------------------------------------------------------------------
(* The drivers' bring-ups, as the sequences of their steps.                *)

Prelude == <<"find", "bars", "enable", "caps", "reset", "ack", "driver">>
Agreed == <<"features", "features_ok", "verify">>

pci_virtio_rng_init == Prelude \o Agreed \o <<"queue0", "driver_ok">>
pci_virtio_blk_init == Prelude \o Agreed \o <<"queue0", "driver_ok", "capacity">>

\* A device without VIRTIO_F_VERSION_1 is refused; the receive buffers are posted once the
\* device runs.
pci_virtio_net_init == Prelude \o <<"version1">> \o Agreed \o <<"queue0", "queue1", "driver_ok", "rx_init", "config">>
pci_virtio_balloon_init == Prelude \o Agreed \o <<"queue0", "queue1", "driver_ok", "config", "ready">>
pci_virtio_console_init == Prelude \o Agreed \o <<"queue0", "queue1", "driver_ok", "ready">>

\* kernel_main's order.
Drivers == <<[id |-> "rng", steps |-> pci_virtio_rng_init, queues |-> {0}],
             [id |-> "blk", steps |-> pci_virtio_blk_init, queues |-> {0}],
             [id |-> "net", steps |-> pci_virtio_net_init, queues |-> {0, 1}],
             [id |-> "balloon", steps |-> pci_virtio_balloon_init, queues |-> {0, 1}],
             [id |-> "console", steps |-> pci_virtio_console_init, queues |-> {0, 1}]>>

Driver == Drivers[at.driver]
Doing(step) == at.driver \in DOMAIN Drivers /\ at.step <= Len(Driver.steps) /\ Driver.steps[at.step] = step
Proceed == at' = [at EXCEPT !.step = @ + 1]
Abandon == at' = [driver |-> at.driver + 1, step |-> 1, fn |-> 0]
Fn == board[at.fn]

----------------------------------------------------------------------------
(* The bus.                                                                *)

\* pci_enumerate_bus: the functions found, in scan order, up to the table's size.
pci_enumerate_bus(b) == [i \in 1 .. (IF Len(b) > MAX_PCI_DEVICES THEN MAX_PCI_DEVICES ELSE Len(b)) |-> i]

\* pci_find_device: the first in the table with the driver's identifier.
Matching == {i \in Range(pci_devices) : board[i].id = Driver.id}
pci_find_device ==
    /\ Doing("find")
    /\ IF Matching = {} \/ ~board[CHOOSE i \in Matching : \A j \in Matching : i <= j].endpoint THEN Abandon
       ELSE at' = [at EXCEPT !.step = @ + 1, !.fn = CHOOSE i \in Matching : \A j \in Matching : i <= j]
    /\ UNCHANGED <<board, pci_devices, mmio32_next, mmio64_next, bar_addr, caps, chip, ready>>

AlignUp(x, size) == ((x + size - 1) \div size) * size

\* alloc_mmio32, alloc_mmio64: aligned to the size, 0 when the window is exhausted; the
\* cursor stays aligned then, and moves past the BAR otherwise.
alloc_mmio(next, size, limit) ==
    LET base == AlignUp(next, size) IN
    IF base + size - 1 > limit THEN [next |-> base, addr |-> 0]
    ELSE [next |-> base + size, addr |-> base]

\* One BAR of pci_assign_bars: I/O and unknown types are passed over, a BAR of size 0 is
\* unimplemented, a 64-bit BAR takes the next one as its upper half and cannot be the last.
Assign(acc, bar) ==
    LET i == Len(acc.addr) + 1
        low == alloc_mmio(acc.next32, bar.size, MMIO32_LIMIT)
        high == alloc_mmio(acc.next64, bar.size, MMIO64_LIMIT) IN
    IF acc.skip \/ bar.kind \in {"io", "odd"} \/ bar.size = 0 \/ (bar.kind = "mem64" /\ i = 6)
    THEN [acc EXCEPT !.addr = Append(@, 0), !.skip = ~acc.skip /\ bar.kind = "mem64" /\ i < 6]
    ELSE IF bar.kind = "mem32" THEN [acc EXCEPT !.addr = Append(@, low.addr), !.next32 = low.next]
    ELSE [acc EXCEPT !.addr = Append(@, high.addr), !.next64 = high.next, !.skip = TRUE]

pci_assign_bars ==
    /\ Doing("bars")
    /\ LET all == FoldLeft(Assign, [addr |-> << >>, next32 |-> mmio32_next, next64 |-> mmio64_next, skip |-> FALSE],
                           Fn.bars) IN
       /\ bar_addr' = [bar_addr EXCEPT ![at.fn] = all.addr]
       /\ mmio32_next' = all.next32 /\ mmio64_next' = all.next64
    /\ Proceed /\ UNCHANGED <<board, pci_devices, caps, chip, ready>>

pci_enable_device ==
    /\ Doing("enable") /\ chip' = [chip EXCEPT ![at.fn].decodes = TRUE] /\ Proceed
    /\ UNCHANGED <<board, pci_devices, mmio32_next, mmio64_next, bar_addr, caps, ready>>

\* virtio_populate_capabilities: the last capability of a type with a valid BAR index wins.
Populate(acc, c) == IF c.bar >= 6 \/ c.type \notin 1 .. 4 THEN acc ELSE [acc EXCEPT ![c.type] = bar_addr[at.fn][c.bar + 1]]

\* virtio_parse_capabilities: only vendor-specific entries count.
VendorSpecific(c) == c.id = 9
virtio_parse_capabilities ==
    /\ Doing("caps")
    /\ caps' = [caps EXCEPT ![at.fn] = FoldLeft(Populate, caps[at.fn], SelectSeq(Fn.caps, VendorSpecific))]
    /\ Proceed
    /\ UNCHANGED <<board, pci_devices, mmio32_next, mmio64_next, bar_addr, chip, ready>>

----------------------------------------------------------------------------
(* The device's registers.                                                 *)

\* The common configuration area is the function's own only when its BAR has a window.
Reached == caps[at.fn][1] # 0
Tells(c) == chip' = [chip EXCEPT ![at.fn] = c] /\ Proceed
          /\ UNCHANGED <<board, pci_devices, mmio32_next, mmio64_next, bar_addr, caps, ready>>
Register(step) == Doing(step) /\ Reached

\* Without a window the accesses go to addresses near 0, where no register answers: the wait
\* for the reset never ends, or a 0 is read, and then FEATURES_OK does not stick.
Stray ==
    /\ Doing("reset") /\ ~Reached /\ (Abandon \/ at' = [at EXCEPT !.driver = Len(Drivers) + 2])
    /\ UNCHANGED <<board, pci_devices, mmio32_next, mmio64_next, bar_addr, caps, chip, ready>>

Reset == Register("reset") /\ Tells([chip[at.fn] EXCEPT !.status = {}, !.features = {}, !.queues = {}])
SetStatus(step, bit) == Register(step) /\ Tells([chip[at.fn] EXCEPT !.status = @ \cup {bit}])

\* The bits the driver accepts of those offered.
Wanted == IF Driver.id = "net" THEN {"version1", "mac", "status"} ELSE {"version1"}
Features == Register("features") /\ Tells([chip[at.fn] EXCEPT !.features = Fn.features \cap Wanted])

\* The device keeps FEATURES_OK only if it can work with what was accepted.
FeaturesOk ==
    Register("features_ok") /\ Tells([chip[at.fn] EXCEPT !.status = IF Fn.accepts THEN @ \cup {"features_ok"} ELSE @])

\* Mutant: the bit is not read back.
VerifyAlways ==
    /\ Register("verify") /\ Proceed
    /\ UNCHANGED <<board, pci_devices, mmio32_next, mmio64_next, bar_addr, caps, chip, ready>>

\* The checks that end a bring-up early.
Verify ==
    /\ \/ Register("verify") /\ (IF "features_ok" \in chip[at.fn].status THEN Proceed ELSE Abandon)
       \/ Register("version1") /\ (IF "version1" \in Fn.features THEN Proceed ELSE Abandon)
    /\ UNCHANGED <<board, pci_devices, mmio32_next, mmio64_next, bar_addr, caps, chip, ready>>

\* virtqueue_setup: a queue the device does not have ends the bring-up; the size is the
\* smaller of the two sides'.
Smaller(a, b) == IF a < b THEN a ELSE b
SetupQueue(q) ==
    /\ Register(IF q = 0 THEN "queue0" ELSE "queue1")
    /\ IF Fn.queues[q + 1] = 0
       THEN Abandon /\ UNCHANGED <<board, pci_devices, mmio32_next, mmio64_next, bar_addr, caps, chip, ready>>
       ELSE Tells([chip[at.fn] EXCEPT !.queues = @ \cup {[q |-> q, size |-> Smaller(QMAX, Fn.queues[q + 1])]}])

\* Configuration reads and the posting of receive buffers, after which the driver is done.
Uses(step) ==
    /\ Register(step) /\ Proceed
    /\ UNCHANGED <<board, pci_devices, mmio32_next, mmio64_next, bar_addr, caps, chip, ready>>

SetReady ==
    /\ Register("ready") /\ ready' = ready \cup {Driver.id} /\ Proceed
    /\ UNCHANGED <<board, pci_devices, mmio32_next, mmio64_next, bar_addr, caps, chip>>

NextDriver ==
    /\ at.driver \in DOMAIN Drivers /\ at.step > Len(Driver.steps) /\ Abandon
    /\ UNCHANGED <<board, pci_devices, mmio32_next, mmio64_next, bar_addr, caps, chip, ready>>

----------------------------------------------------------------------------
Quiet == [status |-> {}, features |-> {}, queues |-> {}, decodes |-> FALSE]

VirtioInit ==
    /\ board = << >> /\ pci_devices = << >> /\ mmio32_next = MMIO32_PHYS /\ mmio64_next = MMIO64_PHYS
    /\ bar_addr = << >> /\ caps = << >> /\ chip = << >> /\ ready = {}
    /\ at = [driver |-> 0, step |-> 1, fn |-> 0]

PowerOn ==
    /\ at.driver = 0 /\ Abandon
    /\ \E b \in Board :
        /\ board' = b /\ pci_devices' = pci_enumerate_bus(b)
        /\ bar_addr' = [i \in DOMAIN b |-> [k \in 1 .. 6 |-> 0]]
        /\ caps' = [i \in DOMAIN b |-> [t \in 1 .. 4 |-> 0]]
        /\ chip' = [i \in DOMAIN b |-> Quiet]
    /\ UNCHANGED <<mmio32_next, mmio64_next, ready>>

VirtioNext ==
    \/ PowerOn \/ pci_find_device \/ pci_assign_bars \/ pci_enable_device \/ virtio_parse_capabilities
    \/ Stray \/ Reset \/ SetStatus("ack", "ack") \/ SetStatus("driver", "driver") \/ Features \/ FeaturesOk \/ Verify
    \/ (\E q \in 0 .. 1 : SetupQueue(q)) \/ SetStatus("driver_ok", "driver_ok")
    \/ Uses("capacity") \/ Uses("rx_init") \/ Uses("config") \/ SetReady \/ NextDriver

VirtioSpec == VirtioInit /\ [][VirtioNext]_bootvars

----------------------------------------------------------------------------
(* Properties.                                                             *)

\* pci.c, virtio drivers: the device table stays within MAX_PCI_DEVICES and the window
\* allocators never run below their windows.
VirtioTypeOK ==
    /\ Len(pci_devices) \in 0 .. MAX_PCI_DEVICES /\ ready \subseteq {d.id : d \in Range(Drivers)}
    /\ mmio32_next \in MMIO32_PHYS .. MMIO64_PHYS /\ mmio64_next >= MMIO64_PHYS
    /\ \A i \in DOMAIN bar_addr : Len(bar_addr[i]) = 6

BarWindows == {w \in (DOMAIN bar_addr) \X (1 .. 6) : bar_addr[w[1]][w[2]] # 0}
First(w) == bar_addr[w[1]][w[2]]
SizeOf(w) == board[w[1]].bars[w[2]].size
LastOf(w) == First(w) + SizeOf(w) - 1

\* pci.c:12-40, 183-260: the windows given to BARs, of one device or of several, lie in the
\* bridge's windows, are aligned to their size and do not overlap, also when a window runs
\* out half way and with 64-bit BARs that take two slots.
BarsApart ==
    /\ \A w \in BarWindows : /\ First(w) % SizeOf(w) = 0
                          /\ \/ MMIO32_PHYS <= First(w) /\ LastOf(w) <= MMIO32_LIMIT
                             \/ MMIO64_PHYS <= First(w) /\ LastOf(w) <= MMIO64_LIMIT
    /\ \A v, w \in BarWindows : v # w => LastOf(v) < First(w) \/ LastOf(w) < First(v)

\* The initialisation sequence the drivers follow (net.c:725, console.c:148-150): a device is told
\* to run only after it has agreed to the features, and with every queue its driver uses set
\* up, no larger than it can hold and no larger than the driver's tables; a driver that says
\* it is ready drives a device that runs (balloon.c:290, console.c:174).
LiveInOrder ==
    /\ \A d \in ready : \E i \in DOMAIN chip : board[i].id = d /\ "driver_ok" \in chip[i].status
    /\ \A i \in DOMAIN chip : "driver_ok" \in chip[i].status =>
        /\ {"ack", "driver", "features_ok"} \subseteq chip[i].status
        /\ chip[i].features \subseteq board[i].features /\ chip[i].decodes
        /\ \E d \in Range(Drivers) :
            d.id = board[i].id /\ {q.q : q \in chip[i].queues} = d.queues
        /\ \A q \in chip[i].queues : q.size \in 1 .. Smaller(QMAX, board[i].queues[q.q + 1])

\* Discovery and bring-up of the devices, whatever they refuse.
DevicesSound == VirtioTypeOK /\ BarsApart /\ LiveInOrder
=============================================================================
