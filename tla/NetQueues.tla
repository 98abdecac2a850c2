----------------------------- MODULE NetQueues -----------------------------
(***************************************************************************)
(* The network driver's two queues (pci/virtio/net/net.c) and the pingers  *)
(* that use them: netd and the ping system call.  Receive buffers are      *)
(* posted once, drained by net_rx_poll and posted again; which buffer a    *)
(* descriptor carries is kept in rx_desc_to_buf, beside the queue.         *)
(* Nothing is locked: a pinger can be preempted at every step.  The device *)
(* (external) returns receive buffers in the order it got them.            *)
(***************************************************************************)
EXTENDS Virtqueue, Integers, FiniteSets

CONSTANTS
    Pinger, Netd,       \* the tasks that ping: netd, and tasks in SYS_NET_PING
    NetQueue,           \* entries of a queue
    NET_RX_BUF_COUNT,
    PingMod,             \* echo sequence numbers count modulo this
    MaxTxLate           \* transmit polls that give up

ASSUME NetAssumption ==
    /\ {NetQueue, NET_RX_BUF_COUNT, PingMod} \subseteq Nat \ {0} /\ MaxTxLate \in Nat
    /\ NET_RX_BUF_COUNT < NetQueue /\ Netd \in Pinger

VARIABLES
    rxq, rx_desc_to_buf,
    rx_bufs,        \* the frame each buffer holds: [num, seq]; seq -1 is not an echo reply
    txq, ping_frame,    \* the frame in the transmit buffer, by its sequence number
    npc, nloc,      \* where each pinger is; its locals [seq, id, buf, drain]
    echoes,         \* replies of the gateway on their way
    arrived, lastgot,   \* number of the next frame to arrive, of the last one delivered
    txlate,
    have_gateway_mac    \* what the bring-up learned

netvars == <<rxq, rx_desc_to_buf, rx_bufs, txq, ping_frame, npc, nloc, echoes, arrived, lastgot, txlate, have_gateway_mac>>

Bufs == 0 .. NET_RX_BUF_COUNT - 1
NumMod == NET_RX_BUF_COUNT + 2      \* frame numbers, modulo more than can be pending
NoFrame == [num |-> 0, seq |-> -1]
Start(seq) == [seq |-> seq, id |-> 0, buf |-> -1, drain |-> FALSE]
Goes(p, to) == npc' = [npc EXCEPT ![p] = to]

----------------------------------------------------------------------------
\* parse_arp_reply, in the bring-up: the gateway is learned before anybody pings, or never.
GatewayLearned ==
    /\ ~have_gateway_mac /\ have_gateway_mac' = TRUE
    /\ arrived = 1 /\ lastgot = 0 /\ \A p \in Pinger : npc[p] = "idle" /\ nloc[p] = Start(0)
    /\ UNCHANGED <<rxq, rx_desc_to_buf, rx_bufs, txq, ping_frame, npc, nloc, echoes, arrived, lastgot, txlate>>

\* netd wakes up; it first drains what came in while it slept, by polls that return a frame.
netd(p) ==
    /\ p = Netd /\ npc[p] = "idle" /\ Goes(p, "check")
    /\ nloc' = [nloc EXCEPT ![p].drain = TRUE]
    /\ UNCHANGED <<rxq, rx_desc_to_buf, rx_bufs, txq, ping_frame, echoes, arrived, lastgot, txlate, have_gateway_mac>>

\* net_send_ping builds the frame in the one buffer there is, if the gateway is known.
net_send_ping(p) ==
    /\ IF p = Netd THEN nloc[p].drain /\ (npc[p] = "drained" \/ (npc[p] = "check" /\ ~Completed(rxq)))
       ELSE npc[p] = "idle"
    /\ ping_frame' = (IF have_gateway_mac THEN nloc[p].seq ELSE ping_frame)
    /\ Goes(p, IF have_gateway_mac THEN "tx" ELSE "idle")
    /\ nloc' = [nloc EXCEPT ![p].drain = FALSE]
    /\ UNCHANGED <<rxq, rx_desc_to_buf, rx_bufs, txq, echoes, arrived, lastgot, txlate, have_gateway_mac>>

\* Mutant: the call returns without waiting for the device.
TxUnwaited(p) ==
    /\ npc[p] = "tx"
    /\ txq' = virtqueue_submit_chain(txq, <<"hdr", nloc[p].seq>>) /\ Goes(p, "check")
    /\ UNCHANGED <<rxq, rx_desc_to_buf, rx_bufs, ping_frame, nloc, echoes, arrived, lastgot, txlate, have_gateway_mac>>

\* net_tx: header and frame are offered; the device is polled until it has sent them, or
\* the poll gives up.  The segment names the frame meant.
net_tx(p) ==
    \/ /\ npc[p] = "tx"
       /\ txq' = virtqueue_submit_chain(txq, <<"hdr", nloc[p].seq>>) /\ Goes(p, "txpoll")
       /\ UNCHANGED <<rxq, rx_desc_to_buf, rx_bufs, ping_frame, nloc, echoes, arrived, lastgot, txlate, have_gateway_mac>>
    \/ /\ npc[p] = "txpoll" /\ Goes(p, "check")
       /\ \/ Completed(txq) /\ txq' = Consumed(txq) /\ txlate' = txlate
          \/ ~Completed(txq) /\ txlate < MaxTxLate /\ txlate' = txlate + 1 /\ txq' = txq
       /\ UNCHANGED <<rxq, rx_desc_to_buf, rx_bufs, ping_frame, nloc, echoes, arrived, lastgot, have_gateway_mac>>

\* net_rx_poll, step by step.  Is there an entry?
RxCheck(p) ==
    /\ npc[p] = "check" /\ Completed(rxq) /\ Goes(p, "take")
    /\ UNCHANGED <<rxq, rx_desc_to_buf, rx_bufs, txq, ping_frame, nloc, echoes, arrived, lastgot, txlate, have_gateway_mac>>

\* The entry's descriptor is read ...
RxTake(p) ==
    /\ npc[p] = "take" /\ Goes(p, "advance")
    /\ nloc' = [nloc EXCEPT ![p].id = UsedHead(rxq)]
    /\ UNCHANGED <<rxq, rx_desc_to_buf, rx_bufs, txq, ping_frame, echoes, arrived, lastgot, txlate, have_gateway_mac>>

\* ... and the cursor moved past it.
RxAdvance(p) ==
    /\ npc[p] = "advance" /\ Goes(p, "unmap") /\ rxq' = Consumed(rxq)
    /\ UNCHANGED <<rx_desc_to_buf, rx_bufs, txq, ping_frame, nloc, echoes, arrived, lastgot, txlate, have_gateway_mac>>

\* The descriptor's buffer, and the descriptor forgotten; one without a buffer is dropped.
RxUnmap(p) ==
    LET id == nloc[p].id IN
    /\ npc[p] = "unmap"
    /\ IF rx_desc_to_buf[id] < 0
       THEN Goes(p, IF nloc[p].drain THEN "drained" ELSE "check") /\ UNCHANGED <<rx_desc_to_buf, nloc>>
       ELSE /\ nloc' = [nloc EXCEPT ![p].buf = rx_desc_to_buf[id]]
            /\ rx_desc_to_buf' = [rx_desc_to_buf EXCEPT ![id] = -1] /\ Goes(p, "copy")
    /\ UNCHANGED <<rxq, rx_bufs, txq, ping_frame, echoes, arrived, lastgot, txlate, have_gateway_mac>>

\* The frame is copied out; whose reply it is decides whether the loop goes on.
RxCopy(p) ==
    /\ npc[p] = "copy" /\ lastgot' = rx_bufs[nloc[p].buf].num
    /\ Goes(p, IF rx_bufs[nloc[p].buf].seq = nloc[p].seq /\ ~nloc[p].drain THEN "postlast" ELSE "post")
    /\ UNCHANGED <<rxq, rx_desc_to_buf, rx_bufs, txq, ping_frame, nloc, echoes, arrived, txlate, have_gateway_mac>>

\* Mutant: the descriptor is recorded after the free cursor has moved.
SubmitLate(p) ==
    /\ npc[p] \in {"post", "postlast"}
    /\ rxq' = virtqueue_submit(rxq, nloc[p].buf)
    /\ nloc' = [nloc EXCEPT ![p].id = rxq'.free_head]
    /\ Goes(p, IF npc[p] = "post" THEN "map" ELSE "maplast")
    /\ UNCHANGED <<rx_desc_to_buf, rx_bufs, txq, ping_frame, echoes, arrived, lastgot, txlate, have_gateway_mac>>

\* net_rx_submit_buf: the buffer is offered again under the descriptor at free_head ...
net_rx_submit_buf(p) ==
    /\ npc[p] \in {"post", "postlast"}
    /\ nloc' = [nloc EXCEPT ![p].id = rxq.free_head]
    /\ rxq' = virtqueue_submit(rxq, nloc[p].buf)
    /\ Goes(p, IF npc[p] = "post" THEN "map" ELSE "maplast")
    /\ UNCHANGED <<rx_desc_to_buf, rx_bufs, txq, ping_frame, echoes, arrived, lastgot, txlate, have_gateway_mac>>

\* ... and recorded.  A call that has its reply returns; netd's next ping has a new number.
RxMap(p) ==
    LET answered == npc[p] = "maplast" IN
    /\ npc[p] \in {"map", "maplast"}
    /\ rx_desc_to_buf' = [rx_desc_to_buf EXCEPT ![nloc[p].id] = nloc[p].buf]
    /\ nloc' = [nloc EXCEPT ![p] = [Start(IF answered THEN (@.seq + 1) % PingMod ELSE @.seq) EXCEPT !.drain = nloc[p].drain]]
    /\ Goes(p, IF answered THEN "idle" ELSE "check")
    /\ UNCHANGED <<rxq, rx_bufs, txq, ping_frame, echoes, arrived, lastgot, txlate, have_gateway_mac>>

\* Enough polls that found nothing.
GivesUp(p) ==
    /\ npc[p] = "check" /\ ~nloc[p].drain /\ Goes(p, "idle")
    /\ nloc' = [nloc EXCEPT ![p] = Start((@.seq + 1) % PingMod)]
    /\ UNCHANGED <<rxq, rx_desc_to_buf, rx_bufs, txq, ping_frame, echoes, arrived, lastgot, txlate, have_gateway_mac>>

Pings(p) ==
    \/ netd(p) \/ net_send_ping(p) \/ net_tx(p) \/ RxCheck(p) \/ RxTake(p) \/ RxAdvance(p) \/ RxUnmap(p) \/ RxCopy(p)
    \/ net_rx_submit_buf(p) \/ RxMap(p) \/ GivesUp(p)

----------------------------------------------------------------------------
\* The device sends the frame as the buffer now holds it; the gateway answers, or not.
Transmits ==
    /\ HasWork(txq) /\ txq' = Return(TakeWork(txq), NextHead(txq))
    /\ echoes' \in {echoes, echoes \cup {ping_frame}}
    /\ UNCHANGED <<rxq, rx_desc_to_buf, rx_bufs, ping_frame, npc, nloc, arrived, lastgot, txlate, have_gateway_mac>>

\* A frame arrives: an answer, or something else.
Receives ==
    /\ HasWork(rxq)
    /\ \E seq \in echoes \cup {-1} :
        /\ rx_bufs' = [rx_bufs EXCEPT ![SegsAt(rxq, NextHead(rxq))[1]] = [num |-> arrived, seq |-> seq]]
        /\ echoes' = echoes \ {seq}
    /\ arrived' = (arrived + 1) % NumMod
    /\ rxq' = Return(TakeWork(rxq), NextHead(rxq))
    /\ UNCHANGED <<rx_desc_to_buf, txq, ping_frame, npc, nloc, lastgot, txlate, have_gateway_mac>>

\* net_rx_init: every buffer is posted, in order.
RECURSIVE Primed(_)
Primed(n) == IF n = 0 THEN virtqueue_setup(NetQueue) ELSE virtqueue_submit(Primed(n - 1), n - 1)

NetInit ==
    /\ rxq = Primed(NET_RX_BUF_COUNT) /\ txq = virtqueue_setup(NetQueue)
    /\ rx_desc_to_buf = [d \in 0 .. NetQueue - 1 |-> IF d < NET_RX_BUF_COUNT THEN d ELSE -1]
    /\ rx_bufs = [b \in Bufs |-> NoFrame] /\ ping_frame = 0
    /\ npc = [p \in Pinger |-> "idle"] /\ nloc = [p \in Pinger |-> Start(0)]
    /\ echoes = {} /\ arrived = 1 /\ lastgot = 0 /\ txlate = 0
    /\ have_gateway_mac = FALSE

NetNext == GatewayLearned \/ (\E p \in Pinger : Pings(p)) \/ Transmits \/ Receives

NetSpec == NetInit /\ [][NetNext]_netvars

----------------------------------------------------------------------------
(* Properties.  BuffersCirculate, RecordsMatch, FramesInOrder and           *)
(* SentAsBuilt hold of calls that do not overlap: with two                  *)
(* pingers preempting each other inside net_rx_poll they do not, and the    *)
(* runs have one, netd (the hazard is stated at syscall.c:1029-1032).       *)

\* Buffer numbers, sequence numbers and frame numbers stay in range; -1 is no buffer.
NetTypeOK ==
    /\ rx_desc_to_buf \in [0 .. NetQueue - 1 -> -1 .. NET_RX_BUF_COUNT - 1]
    /\ \A p \in Pinger : nloc[p].seq \in 0 .. PingMod - 1 /\ nloc[p].buf \in -1 .. NET_RX_BUF_COUNT - 1
    /\ lastgot \in 0 .. NumMod - 1 /\ echoes \subseteq 0 .. PingMod - 1

Unread == {rxq.ring[i % NetQueue] : i \in {(rxq.last_used + k) % IndexMod(rxq) :
              k \in 0 .. ((rxq.avail - rxq.last_used + IndexMod(rxq)) % IndexMod(rxq)) - 1}}
Carries(p, b) ==
    \/ npc[p] = "unmap" /\ rxq.desc[nloc[p].id].seg = b
    \/ npc[p] \in {"copy", "post", "postlast"} /\ nloc[p].buf = b

\* net.c:109-116: a receive buffer is always either with the device, under one descriptor
\* the driver has not read back, or in the hands of one poller: none drops out of
\* circulation, none is posted twice.
BuffersCirculate ==
    \A b \in Bufs :
        Cardinality({d \in Unread : rxq.desc[d].seg = b}) + Cardinality({p \in Pinger : Carries(p, b)}) = 1

\* net.c:125-130, 161-166: every descriptor not read back is recorded with the buffer it
\* names, so that no poll meets an unmapped one.
RecordsMatch ==
    \A d \in Unread : \/ rx_desc_to_buf[d] = rxq.desc[d].seg
                      \/ \E p \in Pinger : npc[p] \in {"map", "maplast"} /\ nloc[p].id = d /\ nloc[p].buf = rxq.desc[d].seg

\* net.c:145-186: the frames come out of net_rx_poll in the order they arrived, each once,
\* none overwritten before it was copied.
FramesInOrder ==
    [][\A p \in Pinger : RxCopy(p) => lastgot' = (lastgot + 1) % NumMod]_netvars

\* net.c:38-40 "we keep one global instance because net_tx is synchronous (poll-completed) so
\* re-use is safe": the device sends the frame the caller built, as long as no poll gave up.
SentAsBuilt ==
    [][(Transmits /\ txlate = 0) => ping_frame = SegsAt(txq, NextHead(txq))[2]]_netvars

\* The receive buffers and their records, between any two steps of a poll.
RxSound == NetTypeOK /\ BuffersCirculate /\ RecordsMatch

\* No frame is lost, repeated or overwritten on its way in or out.
FramesIntact == FramesInOrder /\ SentAsBuilt
=============================================================================
