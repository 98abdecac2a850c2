----------------------------- MODULE Virtqueue -----------------------------
(***************************************************************************)
(* One split virtqueue (pci/virtio/virtqueue.c), as operators on a record: *)
(* the descriptor table, the available ring the driver fills, the used     *)
(* ring the device fills, and the driver's two cursors.  The drivers' own  *)
(* modules hold the queues; the device is external.                        *)
(***************************************************************************)
EXTENDS Naturals, Sequences

NoDesc == [seg |-> "none", more |-> FALSE, next |-> 0]

\* Ring indices are 16 bits wide, a multiple of the size.  Modulo the size they name the same
\* slots, and tell apart as many outstanding chains as fit without filling the ring.
IndexMod(vq) == vq.size

\* Zeroed rings, cursors at 0.  `seen' is the device's own cursor in the available ring.
virtqueue_setup(size) ==
    LET Zeroed == [i \in 0 .. size - 1 |-> 0] IN
    [size |-> size, desc |-> [i \in 0 .. size - 1 |-> NoDesc], free_head |-> 0,
     ring |-> Zeroed, avail |-> 0, used |-> Zeroed, used_idx |-> 0, last_used |-> 0, seen |-> 0]

\* The available entry that publishes the chain at head.
Offered(vq, head) ==
    [vq EXCEPT !.ring[vq.avail % vq.size] = head, !.avail = (@ + 1) % IndexMod(vq)]

\* Mutant: the free cursor moves by one descriptor, whatever the chain's length.
ChainByOne(vq, segs) ==
    LET At(i) == (vq.free_head + i) % vq.size
        n == Len(segs)
        written == [s \in DOMAIN vq.desc |->
                      IF \E i \in 0 .. n - 1 : At(i) = s
                      THEN LET i == CHOOSE j \in 0 .. n - 1 : At(j) = s IN
                           [seg |-> segs[i + 1], more |-> i < n - 1, next |-> IF i < n - 1 THEN At(i + 1) ELSE 0]
                      ELSE vq.desc[s]] IN
    Offered([vq EXCEPT !.desc = written, !.free_head = At(1)], vq.free_head)

\* The segments go into the descriptors from free_head on, linked; nobody asks whether the
\* device has finished with those descriptors.
virtqueue_submit_chain(vq, segs) ==
    LET At(i) == (vq.free_head + i) % vq.size
        n == Len(segs)
        written == [s \in DOMAIN vq.desc |->
                      IF \E i \in 0 .. n - 1 : At(i) = s
                      THEN LET i == CHOOSE j \in 0 .. n - 1 : At(j) = s IN
                           [seg |-> segs[i + 1], more |-> i < n - 1, next |-> IF i < n - 1 THEN At(i + 1) ELSE 0]
                      ELSE vq.desc[s]] IN
    Offered([vq EXCEPT !.desc = written, !.free_head = At(n)], vq.free_head)

\* One descriptor.
virtqueue_submit(vq, seg) == virtqueue_submit_chain(vq, <<seg>>)

\* virtqueue_poll sees a completion; it consumes one, or gives up and consumes none.
Completed(vq) == vq.used_idx # vq.last_used
UsedHead(vq) == vq.used[vq.last_used % vq.size]

Consumed(vq) == [vq EXCEPT !.last_used = (@ + 1) % IndexMod(vq)]

----------------------------------------------------------------------------
(* The device's side.                                                      *)

HasWork(vq) == vq.seen # vq.avail
NextHead(vq) == vq.ring[vq.seen % vq.size]

\* The segments of the chain at head, as the descriptors say now.
SegsAt(vq, head) ==
    LET a == vq.desc[head]
        b == vq.desc[a.next]
        c == vq.desc[b.next] IN
    IF ~a.more THEN <<a.seg>> ELSE IF ~b.more THEN <<a.seg, b.seg>> ELSE <<a.seg, b.seg, c.seg>>

TakeWork(vq) == [vq EXCEPT !.seen = (@ + 1) % IndexMod(vq)]
Return(vq, head) ==
    [vq EXCEPT !.used[vq.used_idx % vq.size] = head, !.used_idx = (@ + 1) % IndexMod(vq)]
=============================================================================
