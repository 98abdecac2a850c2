------------------------------ MODULE Balloon ------------------------------
(***************************************************************************)
(* The balloon driver (pci/virtio/balloon/balloon.c): pages are taken from *)
(* the page allocator and named to the host, and taken back.  Two queues   *)
(* share one buffer of page numbers, which the device reads when it gets   *)
(* to the request.  A call is taken step by step; the device may be late.   *)
(***************************************************************************)
EXTENDS Virtqueue, Integers, SequencesExt, FiniteSets

CONSTANTS
    BPage,                      \* page frames the allocator can grant
    VIRTIO_BALLOON_MAX_PAGES,
    Asked,                      \* page counts passed to a call
    BalloonQueue,               \* entries of a queue
    MaxLate                     \* polls that give up

ASSUME BalloonAssumption == VIRTIO_BALLOON_MAX_PAGES \in Nat /\ Asked \subseteq Nat /\ {MaxLate, BalloonQueue} \subseteq Nat

VARIABLES
    unused,         \* pages the allocator holds
    pfn_buf,        \* pfn_buf[0 .. count - 1]
    pfns,           \* inflated_pfns[]: a sequence, its first `actual' entries valid
    actual,
    bop,            \* the call in progress: [op, n, phase]
    inq, outq,      \* the inflate and the deflate queue
    host,           \* pages the host believes are the balloon's
    published,      \* device_cfg.actual
    lates           \* polls that have given up

balloonvars == <<unused, pfn_buf, pfns, actual, bop, inq, outq, host, published, lates>>

NoOp == [op |-> "none", n |-> 0, phase |-> "idle"]
Capped(n, limit) == IF n > limit THEN limit ELSE n
Tracked == Range(SubSeq(pfns, 1, actual))
\* The pages the allocator, which is first fit, hands out in turn.
Lowest(n) == SubSeq(SetToSortSeq(unused, <), 1, n)
\* The first entries of the buffer are overwritten; what lay behind them stays.
Staged(pages) == pages \o SubSeq(pfn_buf, Len(pages) + 1, Len(pfn_buf))

----------------------------------------------------------------------------

\* Up to n pages, as many as the table has room for and the allocator has left, are staged
\* in pfn_buf and in the table behind its valid part, and submitted.
balloon_inflate(n) ==
    LET got == Capped(Capped(n, VIRTIO_BALLOON_MAX_PAGES - actual), Cardinality(unused))
        pages == Lowest(got) IN
    /\ bop = NoOp /\ got > 0
    /\ unused' = unused \ Range(pages) /\ pfn_buf' = Staged(pages)
    /\ pfns' = SubSeq(pfns, 1, actual) \o pages
    /\ inq' = virtqueue_submit(inq, got)
    /\ bop' = [op |-> "in", n |-> got, phase |-> "poll"]
    /\ UNCHANGED <<actual, outq, host, published, lates>>

\* Mutant: the pages are freed before the host is told.
DeflateFreesFirst(n) ==
    LET got == Capped(n, actual) IN
    /\ bop = NoOp /\ got > 0
    /\ pfn_buf' = Staged(SubSeq(pfns, actual - got + 1, actual))
    /\ unused' = unused \cup Range(SubSeq(pfns, actual - got + 1, actual))
    /\ outq' = virtqueue_submit(outq, got)
    /\ bop' = [op |-> "out", n |-> got, phase |-> "poll"]
    /\ UNCHANGED <<pfns, actual, inq, host, published, lates>>

\* The last n pages of the table are staged and submitted.
balloon_deflate(n) ==
    LET got == Capped(n, actual) IN
    /\ bop = NoOp /\ got > 0
    /\ pfn_buf' = Staged(SubSeq(pfns, actual - got + 1, actual))
    /\ outq' = virtqueue_submit(outq, got)
    /\ bop' = [op |-> "out", n |-> got, phase |-> "poll"]
    /\ UNCHANGED <<unused, pfns, actual, inq, host, published, lates>>

\* submit_pfn_batch: the poll consumes a completion or gives up; both look the same.
submit_pfn_batch ==
    /\ bop.phase = "poll"
    /\ bop' = [bop EXCEPT !.phase = "commit"]
    /\ LET vq == IF bop.op = "in" THEN inq ELSE outq IN
       \/ /\ Completed(vq) /\ lates' = lates
          /\ inq' = (IF bop.op = "in" THEN Consumed(inq) ELSE inq)
          /\ outq' = (IF bop.op = "out" THEN Consumed(outq) ELSE outq)
       \/ /\ ~Completed(vq) /\ lates < MaxLate /\ lates' = lates + 1
          /\ UNCHANGED <<inq, outq>>
    /\ UNCHANGED <<unused, pfn_buf, pfns, actual, host, published>>

\* publish_actual: the size goes to the device's configuration.
publish_actual(size) == published' = size

\* The rest of the call: pages that leave the balloon go back to the allocator, the size
\* changes and is published.
Commit ==
    /\ bop.phase = "commit" /\ bop' = NoOp
    /\ unused' = IF bop.op = "out" THEN unused \cup Range(SubSeq(pfn_buf, 1, bop.n)) ELSE unused
    /\ actual' = IF bop.op = "in" THEN actual + bop.n ELSE actual - bop.n
    /\ pfns' = SubSeq(pfns, 1, actual') /\ publish_actual(actual')
    /\ UNCHANGED <<pfn_buf, inq, outq, host, lates>>

----------------------------------------------------------------------------
\* The host reads the page numbers of a request, those the buffer holds by then.
HostInflates ==
    /\ HasWork(inq)
    /\ host' = host \cup Range(SubSeq(pfn_buf, 1, SegsAt(inq, NextHead(inq))[1]))
    /\ inq' = Return(TakeWork(inq), NextHead(inq))
    /\ UNCHANGED <<unused, pfn_buf, pfns, actual, bop, outq, published, lates>>

HostDeflates ==
    /\ HasWork(outq)
    /\ host' = host \ Range(SubSeq(pfn_buf, 1, SegsAt(outq, NextHead(outq))[1]))
    /\ outq' = Return(TakeWork(outq), NextHead(outq))
    /\ UNCHANGED <<unused, pfn_buf, pfns, actual, bop, inq, published, lates>>

BalloonInit ==
    /\ unused = BPage /\ pfn_buf = << >> /\ pfns = << >> /\ actual = 0 /\ bop = NoOp
    /\ inq = virtqueue_setup(BalloonQueue) /\ outq = virtqueue_setup(BalloonQueue)
    /\ host = {} /\ published = 0 /\ lates = 0

BalloonNext ==
    \/ \E n \in Asked : balloon_inflate(n) \/ balloon_deflate(n)
    \/ submit_pfn_batch \/ Commit \/ HostInflates \/ HostDeflates

BalloonSpec == BalloonInit /\ [][BalloonNext]_balloonvars

----------------------------------------------------------------------------
(* Properties.                                                             *)

\* The table never holds more than it has room for, and the size published is the size.
BalloonTypeOK ==
    /\ actual \in 0 .. VIRTIO_BALLOON_MAX_PAGES /\ Len(pfns) \in 0 .. VIRTIO_BALLOON_MAX_PAGES
    /\ unused \subseteq BPage /\ host \subseteq BPage /\ published = actual

\* balloon.c:46-49, 107-120, 150-168: whenever no call is in progress the table names every
\* page the allocator does not have, each once, so that a page the balloon holds cannot be
\* handed out, none is freed twice and none is lost - late device or not.
BalloonOwnsPages ==
    bop = NoOp => /\ Cardinality(Tracked) = actual
                  /\ Tracked = BPage \ unused

\* balloon.c:161-162 "The host has acknowledged that it's no longer using them": no page goes
\* back to the allocator while the host believes it is the balloon's - as long as no poll
\* has given up, which the driver cannot tell from an answer.
FreedOnlyWhenReleased == lates = 0 => unused \cap host = {}

\* balloon.c:79-88: between calls the host's view is the driver's, with the same exception.
HostAgrees == (bop = NoOp /\ lates = 0) => host = Tracked

\* The balloon's table, the page allocator and the host agree.
BalloonSound == BalloonTypeOK /\ BalloonOwnsPages /\ FreedOnlyWhenReleased /\ HostAgrees
=============================================================================
