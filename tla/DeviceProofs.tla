---------------------------- MODULE DeviceProofs ----------------------------
(***************************************************************************)
(* Two drivers, for any number of tasks, sectors, servers and addresses:   *)
(* what the network bring-up takes for its lease, and what the block       *)
(* driver returns as read or written.                                      *)
(***************************************************************************)
EXTENDS Blk, Dhcp, TLAPS

----------------------------------------------------------------------------
(* The lease.                                                              *)

\* The client has sent its request.
Requested == dpc \in {"ack", "arp", "reply", "ping", "up"}

\* The inductive invariant: an acknowledgement can only be on the wire once the client
\* has asked, and then the offer it names does not change any more.
DInv ==
  /\ DhcpTypeOK /\ LeaseAsRequested
  /\ \A f \in net : dhcp_parse(f, "offer") => f.ip \in Addr
  /\ \A f \in net : dhcp_parse(f, "ack") => Requested /\ f.ip = offer.ip /\ f.server = offer.server
  /\ dpc \in {"request", "ack"} => offer.ip \in Addr
  /\ lease.acquired => dpc \in {"arp", "reply", "ping", "up"}

\* What a discover is answered with, and a request.
LEMMA Offers ==
  ASSUME NEW f \in Answers(dhcp_build("discover", NoAddr, NoAddr))
  PROVE  ~dhcp_parse(f, "ack") /\ f.ip \in Addr
<1>1. PICK s \in DhcpServer, a \in Addr : \E r \in {s, NoAddr} : f = Reply("offer", a, s, r)
  BY DEF Answers, dhcp_build
<1>2. QED BY <1>1 DEF Reply, dhcp_parse

LEMMA Acknowledgements ==
  ASSUME NEW ip, NEW server, NEW f \in Answers(dhcp_build("request", ip, server))
  PROVE  ~dhcp_parse(f, "offer") /\ f.ip = ip /\ f.server = server
<1>1. PICK t \in {"ack", "nak"}, r \in {server, NoAddr} : f = Reply(t, ip, server, r)
  BY DEF Answers, dhcp_build
<1>2. QED BY <1>1 DEF Reply, dhcp_parse

\* The exchange stands still or goes on without a frame of its own.
LEMMA LeaseKept ==
  ASSUME DInv, UNCHANGED <<offer, lease, net>>,
         \/ dpc' = dpc
         \/ dpc \in {"start", "offer"} /\ dpc' \in {"arp", "reply"}
         \/ Requested /\ dpc' \in {"arp", "reply", "ping", "up"}
  PROVE  DInv'
  BY DEF DInv, DhcpTypeOK, LeaseAsRequested, Requested, dhcp_parse

LEMMA DhcpKeeps ==
  ASSUME DInv, [DhcpNext]_dhcpvars
  PROVE  DInv'
<1>1. CASE NoMac \/ NoDhcpReply \/ LookAtOneFrame \/ FirstPing \/ UNCHANGED dhcpvars
  BY <1>1, LeaseKept DEF NoMac, NoDhcpReply, LookAtOneFrame, FirstPing, dhcpvars, Requested
<1>2. CASE Discover
  <2>1. dpc = "start" /\ dpc' = "offer" /\ offer' = offer /\ lease' = lease
    BY <1>2 DEF Discover
  <2>2. PICK heard \in SUBSET Answers(dhcp_build("discover", NoAddr, NoAddr)) : net' = net \cup heard
    BY <1>2 DEF Discover, Sends
  <2>3. \A f \in net : ~dhcp_parse(f, "ack")
    BY <2>1 DEF DInv, Requested
  <2>4. \A f \in net' : ~dhcp_parse(f, "ack") /\ (dhcp_parse(f, "offer") => f.ip \in Addr)
    BY <2>2, <2>3, Offers DEF DInv
  <2>5. QED BY <2>1, <2>4 DEF DInv, DhcpTypeOK, LeaseAsRequested
<1>3. CASE TakeOffer
  <2>1. dpc = "offer" /\ dpc' = "request" /\ lease' = lease /\ net' = net
    BY <1>3 DEF TakeOffer
  <2>2. PICK f \in net : dhcp_parse(f, "offer") /\ offer' = [ip |-> f.ip, server |-> f.server]
    BY <1>3 DEF TakeOffer
  <2>3. offer'.ip \in Addr
    BY <2>2 DEF DInv
  <2>4. ~lease.acquired /\ \A g \in net : ~dhcp_parse(g, "ack")
    BY <2>1 DEF DInv, Requested
  <2>5. QED BY <2>1, <2>3, <2>4 DEF DInv, DhcpTypeOK, LeaseAsRequested, Requested
<1>4. CASE Request
  <2>1. dpc = "request" /\ dpc' = "ack" /\ offer' = offer /\ lease' = lease
    BY <1>4 DEF Request
  <2>2. PICK heard \in SUBSET Answers(dhcp_build("request", offer.ip, offer.server)) : net' = net \cup heard
    BY <1>4 DEF Request, Sends
  <2>3. \A f \in net : ~dhcp_parse(f, "ack")
    BY <2>1 DEF DInv, Requested
  <2>4. \A f \in heard : ~dhcp_parse(f, "offer") /\ f.ip = offer.ip /\ f.server = offer.server
    BY <2>2, Acknowledgements
  <2>5. /\ \A f \in net' : dhcp_parse(f, "offer") => f.ip \in Addr
        /\ \A f \in net' : dhcp_parse(f, "ack") => f.ip = offer'.ip /\ f.server = offer'.server
    BY <2>1, <2>2, <2>3, <2>4 DEF DInv
  <2>6. QED BY <2>1, <2>5 DEF DInv, DhcpTypeOK, LeaseAsRequested, Requested
<1>5. CASE TakeAck
  <2>1. dpc = "ack" /\ dpc' = "arp" /\ offer' = offer /\ net' = net
    BY <1>5 DEF TakeAck
  <2>2. PICK f \in net : /\ dhcp_parse(f, "ack")
                         /\ lease' = [ip |-> f.ip, gateway |-> f.router, server |-> f.server, acquired |-> TRUE]
    BY Zenon, <1>5 DEF TakeAck
  <2>3. f.ip = offer.ip /\ f.server = offer.server /\ offer.ip \in Addr
    BY <2>1, <2>2 DEF DInv
  <2>4. lease'.ip = offer'.ip /\ lease'.server = offer'.server /\ lease'.acquired /\ lease'.acquired \in BOOLEAN
    BY <2>1, <2>2, <2>3
  <2>5. \A g \in net' : /\ dhcp_parse(g, "offer") => g.ip \in Addr
                        /\ dhcp_parse(g, "ack") => g.ip = offer'.ip /\ g.server = offer'.server
    BY <2>1 DEF DInv
  <2>6. QED BY <2>1, <2>3, <2>4, <2>5 DEF DInv, DhcpTypeOK, LeaseAsRequested, Requested
<1>6. CASE net_send_arp_probe
  <2>1. dpc = "arp" /\ dpc' = "reply" /\ offer' = offer /\ lease' = lease
    BY <1>6 DEF net_send_arp_probe
  <2>2. PICK who : net' = net \cup {[kind |-> "arp", type |-> "reply", ip |-> a] : a \in who}
    BY <1>6 DEF net_send_arp_probe
  <2>3. \A f \in net' : f \in net \/ f.kind = "arp"
    BY <2>2
  <2>4. \A f \in net' : /\ dhcp_parse(f, "offer") => f.ip \in Addr
                        /\ dhcp_parse(f, "ack") => f.ip = offer'.ip /\ f.server = offer'.server
    BY <2>1, <2>3 DEF DInv, dhcp_parse
  <2>5. QED BY <2>1, <2>4 DEF DInv, DhcpTypeOK, LeaseAsRequested, Requested
<1>7. QED BY <1>1, <1>2, <1>3, <1>4, <1>5, <1>6 DEF DhcpNext, DhcpStep

\* dhcp_acquire (net.c:597-688): frames may be lost, repeated, delayed and reordered, any number of
\* servers may answer, and a lease that was acquired is still the one that was asked for,
\* from the server that was asked; without one the compiled-in addresses stay.
THEOREM LeaseIsAsRequested == DhcpSpec => []LeaseSound
<1>1. DhcpInit => DInv
  BY DEF DhcpInit, DInv, DhcpTypeOK, LeaseAsRequested, Requested, dhcp_parse
<1>2. DInv /\ [DhcpNext]_dhcpvars => DInv'
  BY DhcpKeeps
<1>3. DInv => LeaseSound
  BY DEF DInv, LeaseSound
<1>4. QED BY <1>1, <1>2, <1>3, PTL DEF DhcpSpec

----------------------------------------------------------------------------
(* The virtqueue under the block driver: what each of its operations does  *)
(* to the indices and to the chain that was offered.                       *)

Slots == 0 .. BlkQueue - 1
Inc(i) == (i + 1) % BlkQueue

Fields == {"size", "desc", "free_head", "ring", "avail", "used", "used_idx", "last_used", "seen"}

\* v is a queue: nothing is said of what its descriptors and rings hold.
Queue(v) ==
  /\ v = [f \in Fields |-> v[f]]
  /\ v.size = BlkQueue
  /\ v.desc = [i \in Slots |-> v.desc[i]] /\ v.ring = [i \in Slots |-> v.ring[i]]
  /\ v.free_head \in Slots /\ v.avail \in Slots /\ v.seen \in Slots
  /\ v.used_idx \in Slots /\ v.last_used \in Slots

LEMMA Around ==
  ASSUME NEW q \in Nat \ {0}, NEW f \in 0 .. q - 1, NEW i \in 0 .. q
  PROVE  /\ (f + i) % q = IF f + i < q THEN f + i ELSE f + i - q
         /\ (f + i) % q \in 0 .. q - 1 /\ f % q = f
  OBVIOUS

LEMMA IncMoves ==
  ASSUME BlkQueue >= 3, NEW i \in Slots
  PROVE  Inc(i) \in Slots /\ Inc(i) # i /\ i % BlkQueue = i
<1>1. BlkQueue \in Nat \ {0}
  BY BlkAssumption
<1> DEFINE q == BlkQueue
<1>2. 1 \in 0 .. q /\ i \in 0 .. q - 1
  BY <1>1 DEF Slots
<1>3. Inc(i) = IF i + 1 < q THEN i + 1 ELSE i + 1 - q
  BY Zenon, <1>1, <1>2, Around DEF Inc
<1>4. i % q = i
  BY <1>1, <1>2, Around
<1>5. QED BY <1>1, <1>2, <1>3, <1>4 DEF Slots

LEMMA OfferedIs ==
  ASSUME BlkQueue >= 3, NEW v, Queue(v), NEW head
  PROVE  LET w == Offered(v, head)
         IN  /\ Queue(w) /\ w.avail = Inc(v.avail) /\ w.ring[v.avail] = head
             /\ w.desc = v.desc /\ w.seen = v.seen /\ w.used_idx = v.used_idx /\ w.last_used = v.last_used
<1> DEFINE w == Offered(v, head)
<1>1. v.avail % v.size = v.avail /\ v.avail \in Slots /\ Inc(v.avail) \in Slots
  BY IncMoves DEF Queue
<1>2. w = [v EXCEPT !.ring = [v.ring EXCEPT ![v.avail] = head], !.avail = Inc(v.avail)]
  BY ZenonT(60), <1>1 DEF Offered, IndexMod, Inc, Queue
<1>3. QED BY ZenonT(60), <1>1, <1>2 DEF Queue, Fields

LEMMA ChainIs ==
  ASSUME BlkQueue >= 3, NEW v, Queue(v), NEW a, NEW b, NEW c
  PROVE  LET w == virtqueue_submit_chain(v, <<a, b, c>>)
         IN  /\ Queue(w) /\ w.avail = Inc(v.avail)
             /\ w.ring[v.avail] = v.free_head /\ SegsAt(w, v.free_head) = <<a, b, c>>
             /\ w.seen = v.seen /\ w.used_idx = v.used_idx /\ w.last_used = v.last_used
<1> DEFINE segs == <<a, b, c>>
           At(i) == (v.free_head + i) % v.size
           written == [s \in DOMAIN v.desc |->
                        IF \E i \in 0 .. Len(segs) - 1 : At(i) = s
                        THEN LET i == CHOOSE j \in 0 .. Len(segs) - 1 : At(j) = s IN
                             [seg |-> segs[i + 1], more |-> i < Len(segs) - 1,
                              next |-> IF i < Len(segs) - 1 THEN At(i + 1) ELSE 0]
                        ELSE v.desc[s]]
           u == [v EXCEPT !.desc = written, !.free_head = At(Len(segs))]
           w == Offered(u, v.free_head)
<1>1. virtqueue_submit_chain(v, segs) = w
  BY DEF virtqueue_submit_chain
<1>2. BlkQueue \in Nat \ {0} /\ v.size = BlkQueue /\ v.free_head \in 0 .. BlkQueue - 1
  BY BlkAssumption DEF Queue, Slots
<1>3. /\ \A i \in 0 .. 3 : At(i) = IF v.free_head + i < BlkQueue THEN v.free_head + i
                                                             ELSE v.free_head + i - BlkQueue
      /\ \A i \in 0 .. 3 : At(i) \in Slots
  <2>1. \A i \in 0 .. 3 : i \in 0 .. BlkQueue
    BY <1>2
  <2>2. QED BY Zenon, <1>2, <2>1, Around DEF Slots
<1> HIDE DEF At
<1>4. At(0) = v.free_head /\ At(0) # At(1) /\ At(1) # At(2) /\ At(0) # At(2)
  BY <1>2, <1>3
<1>5. DOMAIN v.desc = Slots /\ Len(segs) = 3
  BY DEF Queue
<1>6. \A i \in 0 .. 2 : \A j \in 0 .. 2 : At(i) = At(j) => i = j
  BY <1>4
<1>7. ASSUME NEW i \in 0 .. 2
      PROVE  written[At(i)] = [seg |-> segs[i + 1], more |-> i < 2, next |-> IF i < 2 THEN At(i + 1) ELSE 0]
  <2>1. Len(segs) - 1 = 2 /\ At(i) \in DOMAIN v.desc
    BY <1>3, <1>5
  <2>2. (CHOOSE j \in 0 .. 2 : At(j) = At(i)) = i
    BY <1>6
  <2>3. At(i) = At(i) /\ i \in 0 .. Len(segs) - 1
    BY <2>1
  <2> HIDE DEF segs
  <2>4. (CHOOSE j \in 0 .. Len(segs) - 1 : At(j) = At(i)) = i
    BY Zenon, <2>1, <2>2
  <2>5. \E j \in 0 .. Len(segs) - 1 : At(j) = At(i)
    BY <2>3
  <2>6. QED BY Zenon, <2>1, <2>4, <2>5
<1>8. /\ written[At(0)] = [seg |-> a, more |-> TRUE, next |-> At(1)]
      /\ written[At(1)] = [seg |-> b, more |-> TRUE, next |-> At(2)]
      /\ written[At(2)] = [seg |-> c, more |-> FALSE, next |-> 0]
  <2> HIDE DEF written
  <2>1. 0 \in 0 .. 2 /\ 1 \in 0 .. 2 /\ 2 \in 0 .. 2
    OBVIOUS
  <2>2. segs[0 + 1] = a /\ segs[1 + 1] = b /\ segs[2 + 1] = c
    OBVIOUS
  <2>3. written[At(0)] = [seg |-> segs[0 + 1], more |-> 0 < 2, next |-> IF 0 < 2 THEN At(0 + 1) ELSE 0]
    BY <1>7, <2>1
  <2>4. written[At(1)] = [seg |-> segs[1 + 1], more |-> 1 < 2, next |-> IF 1 < 2 THEN At(1 + 1) ELSE 0]
    BY <1>7, <2>1
  <2>5. written[At(2)] = [seg |-> segs[2 + 1], more |-> 2 < 2, next |-> IF 2 < 2 THEN At(2 + 1) ELSE 0]
    BY <1>7, <2>1
  <2> HIDE DEF segs
  <2>6. (0 < 2) = TRUE /\ (1 < 2) = TRUE /\ (2 < 2) = FALSE /\ 0 + 1 = 1 /\ 1 + 1 = 2
    OBVIOUS
  <2>7. QED BY Zenon, <2>2, <2>3, <2>4, <2>5, <2>6
<1>9. written = [i \in Slots |-> written[i]]
  BY <1>5
<1> HIDE DEF written
<1>10. /\ Queue(u) /\ u.desc = written /\ u.avail = v.avail
       /\ u.seen = v.seen /\ u.used_idx = v.used_idx /\ u.last_used = v.last_used
  <2> HIDE DEF segs
  <2>1. At(Len(segs)) \in Slots
    BY <1>3, <1>5
  <2>2. PICK h \in Slots : h = At(Len(segs))
    BY <2>1
  <2>3. u = [v EXCEPT !.desc = written, !.free_head = h]
    BY <2>2
  <2> HIDE DEF u
  <2>4. QED BY Zenon, <1>9, <2>3 DEF Queue, Fields
<1> HIDE DEF u
<1>11. /\ Queue(w) /\ w.avail = Inc(u.avail) /\ w.ring[u.avail] = v.free_head
       /\ w.desc = u.desc /\ w.seen = u.seen /\ w.used_idx = u.used_idx /\ w.last_used = u.last_used
  BY <1>10, OfferedIs
<1> HIDE DEF w
<1>12. SegsAt(w, v.free_head) = <<a, b, c>>
  BY <1>4, <1>8, <1>10, <1>11 DEF SegsAt
<1>13. QED BY <1>1, <1>10, <1>11, <1>12

LEMMA ConsumedIs ==
  ASSUME BlkQueue >= 3, NEW v, Queue(v)
  PROVE  LET w == Consumed(v)
         IN  /\ Queue(w) /\ w.last_used = Inc(v.last_used)
             /\ w.avail = v.avail /\ w.seen = v.seen /\ w.used_idx = v.used_idx
<1>1. Inc(v.last_used) \in Slots
  BY IncMoves DEF Queue
<1>2. Consumed(v) = [v EXCEPT !.last_used = Inc(v.last_used)]
  BY DEF Consumed, IndexMod, Inc, Queue
<1>3. QED BY <1>1, <1>2 DEF Queue, Fields

LEMMA TakenIs ==
  ASSUME BlkQueue >= 3, NEW v, Queue(v)
  PROVE  LET w == TakeWork(v)
         IN  /\ Queue(w) /\ w.seen = Inc(v.seen)
             /\ w.avail = v.avail /\ w.last_used = v.last_used /\ w.used_idx = v.used_idx
<1>1. Inc(v.seen) \in Slots
  BY IncMoves DEF Queue
<1>2. TakeWork(v) = [v EXCEPT !.seen = Inc(v.seen)]
  BY DEF TakeWork, IndexMod, Inc, Queue
<1>3. QED BY <1>1, <1>2 DEF Queue, Fields

LEMMA ReturnedIs ==
  ASSUME BlkQueue >= 3, NEW v, Queue(v), NEW head
  PROVE  LET w == Return(v, head)
         IN  /\ Queue(w) /\ w.used_idx = Inc(v.used_idx)
             /\ w.avail = v.avail /\ w.last_used = v.last_used /\ w.seen = v.seen
<1>1. Inc(v.used_idx) \in Slots
  BY IncMoves DEF Queue
<1>2. Return(v, head) = [v EXCEPT !.used = [v.used EXCEPT ![v.used_idx % v.size] = head], !.used_idx = Inc(v.used_idx)]
  BY ZenonT(60) DEF Return, IndexMod, Inc, Queue
<1>3. QED BY Zenon, <1>1, <1>2 DEF Queue, Fields

LEMMA SetUpIs ==
  ASSUME BlkQueue >= 3
  PROVE  LET w == virtqueue_setup(BlkQueue)
         IN  Queue(w) /\ w.avail = w.seen /\ w.seen = w.used_idx /\ w.used_idx = w.last_used
<1>1. 0 \in Slots
  BY BlkAssumption DEF Slots
<1>2. QED BY Zenon, <1>1 DEF virtqueue_setup, Queue, Fields, Slots

----------------------------------------------------------------------------
(* The inductive invariant of the block driver.                            *)

Table(f) == f = [t \in BTask |-> f[t]]

\* Only the running task is inside a call, with interrupts masked, and the lock is set
\* exactly while its call is between the two ends of the request.
Lock ==
  /\ bcur \in BTask /\ Table(bpc)
  /\ \A t \in BTask : t # bcur => bpc[t] = "idle"
  /\ bpc[bcur] \in {"idle", "test", "submit", "poll", "check"}
  /\ bpc[bcur] # "idle" => bmasked
  /\ blk_busy <=> bpc[bcur] \in {"submit", "poll", "check"}

\* The status byte is believed: it says ok only when the transfer was done.
Right(t) == status[t] = "ok" => buf[t] = disk[call[t].sector]

Header(t) == [op |-> call[t].op, sector |-> call[t].sector]

\* How far the one request has got: nothing is in the queue; the chain is offered; the
\* device has read the header; the chain is back.
Quiet == /\ work = << >> /\ bvq.avail = bvq.seen
         /\ bvq.seen = bvq.used_idx /\ bvq.used_idx = bvq.last_used
Waiting(t) == /\ work = << >> /\ bvq.avail = Inc(bvq.seen)
              /\ bvq.seen = bvq.used_idx /\ bvq.used_idx = bvq.last_used
              /\ hdr[t] = Header(t)
              /\ SegsAt(bvq, bvq.ring[bvq.seen]) = << <<"hdr", t>>, <<"buf", t>>, <<"status", t>> >>
Taken(t) == /\ \E h : work = <<h, Header(t), t, t>>
            /\ bvq.avail = bvq.seen /\ bvq.seen = Inc(bvq.used_idx) /\ bvq.used_idx = bvq.last_used
Served(t) == /\ work = << >> /\ bvq.avail = bvq.seen
             /\ bvq.seen = bvq.used_idx /\ bvq.used_idx = Inc(bvq.last_used) /\ Right(t)

Progress(t) ==
  /\ bpc[t] # "poll" => Quiet
  /\ bpc[t] = "check" => Right(t)
  /\ bpc[t] = "poll" => Waiting(t) \/ Taken(t) \/ Served(t)

\* As long as no poll has given up there is one request at a time.
BInv ==
  /\ Lock /\ Queue(bvq) /\ late \in Nat
  /\ Table(call) /\ Table(hdr) /\ Table(status) /\ Table(buf)
  /\ disk = [s \in Sector |-> disk[s]]
  /\ bpc[bcur] # "idle" => call[bcur].op \in {"in", "out"} /\ call[bcur].sector \in Sector
  /\ late = 0 => Progress(bcur)

LEMMA StepOfRunning ==
  ASSUME Lock, NEW t \in BTask, bpc[t] # "idle"
  PROVE  t = bcur /\ bmasked
  BY DEF Lock

LEMMA EnterKeeps ==
  ASSUME BlkQueue >= 3, BInv,
         \E s \in Sector : blk_read(bcur, s) \/ \E w \in Word : blk_write(bcur, s, w)
  PROVE  BInv'
<1>1. PICK c : c.op \in {"in", "out"} /\ c.sector \in Sector /\ BlkEnter(bcur, c)
  BY Zenon DEF blk_read, blk_write
<1> DEFINE t == bcur
<1>2. /\ bpc[t] = "idle" /\ bpc' = [bpc EXCEPT ![t] = "test"] /\ bcur' = bcur
      /\ call' = [call EXCEPT ![t] = c] /\ buf' = [buf EXCEPT ![t] = c.word]
      /\ bmasked' = TRUE /\ blk_busy' = blk_busy
      /\ UNCHANGED <<bvq, hdr, status, work, disk, late>>
  BY <1>1 DEF BlkEnter
<1>3. t \in BTask /\ Table(bpc) /\ Table(call) /\ Table(buf)
  BY DEF BInv, Lock
<1>4. bpc'[t] = "test" /\ call'[t] = c /\ Table(bpc)' /\ Table(call)' /\ Table(buf)'
      /\ \A u \in BTask : u # t => bpc'[u] = bpc[u]
  BY Zenon, <1>2, <1>3 DEF Table
<1>5. Lock'
  BY <1>2, <1>4 DEF BInv, Lock
<1>6. late = 0 => Progress(bcur)'
  BY <1>2, <1>4 DEF BInv, Progress, Quiet
<1>7. QED BY <1>1, <1>2, <1>4, <1>5, <1>6 DEF BInv, Table

LEMMA AcquireKeeps ==
  ASSUME BlkQueue >= 3, BInv, blk_lock_acquire(bcur)
  PROVE  BInv'
<1> DEFINE t == bcur
<1>1. bpc[t] = "test" /\ ~blk_busy /\ t \in BTask /\ Table(bpc)
  BY Zenon DEF blk_lock_acquire, BInv, Lock
<1>2. /\ bpc' = [bpc EXCEPT ![t] = "submit"] /\ bcur' = bcur
      /\ bmasked' = TRUE /\ blk_busy' = TRUE
      /\ UNCHANGED <<call, bvq, hdr, status, buf, work, disk, late>>
  BY <1>1 DEF blk_lock_acquire
<1>3. bpc'[t] = "submit" /\ Table(bpc)' /\ \A u \in BTask : u # t => bpc'[u] = bpc[u]
  BY <1>1, <1>2 DEF Table
<1>4. Lock'
  BY <1>2, <1>3 DEF BInv, Lock
<1>5. late = 0 => Progress(bcur)'
  BY <1>1, <1>2, <1>3 DEF BInv, Progress, Quiet
<1>6. QED BY <1>1, <1>2, <1>4, <1>5 DEF BInv, Table

LEMMA SubmitKeeps ==
  ASSUME BlkQueue >= 3, BInv, Submit(bcur)
  PROVE  BInv'
<1> DEFINE t == bcur
           segs == << <<"hdr", t>>, <<"buf", t>>, <<"status", t>> >>
<1>1. /\ bpc[t] = "submit" /\ bpc' = [bpc EXCEPT ![t] = "poll"] /\ bcur' = bcur
      /\ hdr' = [hdr EXCEPT ![t] = Header(t)] /\ status' = [status EXCEPT ![t] = "unset"]
      /\ bvq' = virtqueue_submit_chain(bvq, segs)
      /\ UNCHANGED <<bmasked, call, blk_busy, buf, work, disk, late>>
  BY DEF Submit, Header
<1>2. t \in BTask /\ Table(bpc) /\ Table(hdr) /\ Table(status) /\ Queue(bvq)
  BY DEF BInv, Lock
<1>3. /\ Queue(bvq)' /\ bvq'.avail = Inc(bvq.avail) /\ bvq'.ring[bvq.avail] = bvq.free_head
      /\ SegsAt(bvq', bvq.free_head) = segs
      /\ bvq'.seen = bvq.seen /\ bvq'.used_idx = bvq.used_idx /\ bvq'.last_used = bvq.last_used
  <2>1. PICK a, b, c : a = <<"hdr", t>> /\ b = <<"buf", t>> /\ c = <<"status", t>>
    BY Zenon
  <2> DEFINE w == virtqueue_submit_chain(bvq, <<a, b, c>>)
  <2>2. /\ Queue(w) /\ w.avail = Inc(bvq.avail)
        /\ w.ring[bvq.avail] = bvq.free_head /\ SegsAt(w, bvq.free_head) = <<a, b, c>>
        /\ w.seen = bvq.seen /\ w.used_idx = bvq.used_idx /\ w.last_used = bvq.last_used
    BY <1>2, ChainIs
  <2>3. bvq' = w /\ segs = <<a, b, c>>
    BY <1>1, <2>1
  <2> HIDE DEF w, segs
  <2>4. QED BY <2>2, <2>3
<1> HIDE DEF segs
<1>4. bpc'[t] = "poll" /\ hdr'[t] = Header(t) /\ Table(bpc)' /\ Table(hdr)' /\ Table(status)'
      /\ \A u \in BTask : u # t => bpc'[u] = bpc[u]
  BY Zenon, <1>1, <1>2 DEF Table
<1>5. Lock'
  BY <1>1, <1>4 DEF BInv, Lock
<1>6. late = 0 => Progress(bcur)'
  <2> SUFFICES ASSUME late = 0 PROVE Progress(bcur)'
    OBVIOUS
  <2>1. Quiet
    BY <1>1 DEF BInv, Progress
  <2>2. Waiting(t)'
    BY <1>1, <1>3, <1>4, <2>1 DEF Waiting, Quiet, Header, segs
  <2>3. QED BY <1>1, <1>4, <2>2 DEF Progress
<1>7. QED BY <1>1, <1>3, <1>4, <1>5, <1>6 DEF BInv, Table

\* The completion that a poll finds is that of the request, which the device has served.
LEMMA PollKeeps ==
  ASSUME BlkQueue >= 3, BInv, virtqueue_poll(bcur)
  PROVE  BInv'
<1> DEFINE t == bcur
<1>1. /\ bpc[t] = "poll" /\ bpc' = [bpc EXCEPT ![t] = "check"] /\ bcur' = bcur
      /\ Completed(bvq) /\ bvq' = Consumed(bvq)
      /\ UNCHANGED <<bmasked, call, blk_busy, hdr, status, buf, work, disk, late>>
  BY DEF virtqueue_poll
<1>2. t \in BTask /\ Table(bpc) /\ Queue(bvq)
  BY DEF BInv, Lock
<1>3. /\ Queue(bvq)' /\ bvq'.last_used = Inc(bvq.last_used)
      /\ bvq'.avail = bvq.avail /\ bvq'.seen = bvq.seen /\ bvq'.used_idx = bvq.used_idx
  BY <1>1, <1>2, ConsumedIs
<1>4. bpc'[t] = "check" /\ Table(bpc)' /\ \A u \in BTask : u # t => bpc'[u] = bpc[u]
  BY <1>1, <1>2 DEF Table
<1>5. Lock'
  BY <1>1, <1>4 DEF BInv, Lock
<1>6. late = 0 => Progress(bcur)'
  <2> SUFFICES ASSUME late = 0 PROVE Progress(bcur)'
    OBVIOUS
  <2>1. Served(t)
    BY <1>1 DEF BInv, Progress, Waiting, Taken, Completed
  <2>2. Quiet' /\ Right(t)'
    BY <1>1, <1>3, <2>1 DEF Served, Quiet, Right
  <2>3. QED BY <1>1, <1>4, <2>2 DEF Progress
<1>7. QED BY <1>1, <1>3, <1>5, <1>6 DEF BInv, Table

LEMMA TimeoutKeeps ==
  ASSUME BlkQueue >= 3, BInv, PollTimeout(bcur)
  PROVE  BInv'
<1> DEFINE t == bcur
<1>1. /\ bpc[t] = "poll" /\ bpc' = [bpc EXCEPT ![t] = "check"] /\ bcur' = bcur /\ late' = late + 1
      /\ UNCHANGED <<bmasked, call, blk_busy, bvq, hdr, status, buf, work, disk>>
  BY DEF PollTimeout
<1>2. t \in BTask /\ Table(bpc) /\ late' \in Nat /\ late' # 0
  BY <1>1 DEF BInv, Lock
<1>3. bpc'[t] = "check" /\ Table(bpc)' /\ \A u \in BTask : u # t => bpc'[u] = bpc[u]
  BY <1>1, <1>2 DEF Table
<1>4. Lock'
  BY <1>1, <1>3 DEF BInv, Lock
<1>5. QED BY <1>1, <1>2, <1>4 DEF BInv, Table

LEMMA ReleaseKeeps ==
  ASSUME BlkQueue >= 3, BInv, blk_lock_release(bcur)
  PROVE  BInv'
<1> DEFINE t == bcur
<1>1. /\ bpc[t] = "check" /\ bpc' = [bpc EXCEPT ![t] = "idle"] /\ bcur' = bcur
      /\ call' = [call EXCEPT ![t] = NoCall] /\ blk_busy' = FALSE
      /\ UNCHANGED <<bvq, hdr, status, buf, work, disk, late>>
  BY DEF blk_lock_release
<1>2. t \in BTask /\ Table(bpc) /\ Table(call)
  BY DEF BInv, Lock
<1>3. bpc'[t] = "idle" /\ Table(bpc)' /\ Table(call)' /\ \A u \in BTask : u # t => bpc'[u] = bpc[u]
  BY Zenon, <1>1, <1>2 DEF Table
<1>4. Lock'
  BY <1>1, <1>3 DEF BInv, Lock
<1>5. late = 0 => Progress(bcur)'
  BY <1>1, <1>3 DEF BInv, Progress, Quiet
<1>6. QED BY <1>1, <1>3, <1>4, <1>5 DEF BInv, Table

\* The timer finds the running task outside its call, and so are all the others.
LEMMA TimerKeeps ==
  ASSUME BlkQueue >= 3, BInv, NEW t \in BTask, TimerIrq(t)
  PROVE  BInv'
<1>1. ~bmasked /\ bcur' = t /\ t # bcur
      /\ UNCHANGED <<bmasked, bpc, call, blk_busy, bvq, hdr, status, buf, work, disk, late>>
  BY DEF TimerIrq
<1>2. bpc[bcur] = "idle" /\ bpc[t] = "idle" /\ \A u \in BTask : bpc[u] = "idle"
  BY <1>1 DEF BInv, Lock
<1>3. Lock'
  BY <1>1, <1>2 DEF BInv, Lock, Table
<1>4. late = 0 => Progress(bcur)'
  BY <1>1, <1>2 DEF BInv, Progress, Quiet
<1>5. QED BY <1>1, <1>2, <1>3, <1>4 DEF BInv, Table

LEMMA TakesKeeps ==
  ASSUME BlkQueue >= 3, BInv, DeviceTakes
  PROVE  BInv'
<1> DEFINE t == bcur
           segs == SegsAt(bvq, NextHead(bvq))
<1>1. /\ work = << >> /\ bvq.seen # bvq.avail /\ bvq' = TakeWork(bvq)
      /\ work' = <<NextHead(bvq), hdr[segs[1][2]], segs[2][2], segs[3][2]>>
      /\ UNCHANGED <<bcur, bmasked, bpc, call, blk_busy, hdr, status, buf, disk, late>>
  BY DEF DeviceTakes, HasWork
<1>2. Queue(bvq)
  BY DEF BInv
<1>3. /\ Queue(bvq)' /\ bvq'.seen = Inc(bvq.seen)
      /\ bvq'.avail = bvq.avail /\ bvq'.last_used = bvq.last_used /\ bvq'.used_idx = bvq.used_idx
  BY <1>1, <1>2, TakenIs
<1>4. Lock'
  BY <1>1 DEF BInv, Lock, Table
<1>5. late = 0 => Progress(bcur)'
  <2> SUFFICES ASSUME late = 0 PROVE Progress(bcur)'
    OBVIOUS
  <2>1. bpc[t] = "poll" /\ Waiting(t)
    BY <1>1 DEF BInv, Progress, Quiet, Taken, Served
  <2>2. NextHead(bvq) = bvq.ring[bvq.seen]
    BY <1>2, IncMoves DEF NextHead, Queue
  <2>3. segs[1][2] = t /\ segs[2][2] = t /\ segs[3][2] = t
    BY <2>1, <2>2 DEF Waiting
  <2>4. work' = <<NextHead(bvq), Header(t)', t, t>>
    BY SMTT(60), <1>1, <2>1, <2>3 DEF Waiting, Header
  <2>5. Taken(t)'
    BY <1>1, <1>3, <2>1, <2>4 DEF Waiting, Taken
  <2>6. QED BY <1>1, <2>1, <2>5 DEF Progress
<1>6. QED BY <1>1, <1>3, <1>4, <1>5 DEF BInv, Table

\* The buffer and the sector agree when the device reports success.
LEMMA ServesKeeps ==
  ASSUME BlkQueue >= 3, BInv, NEW ok \in BOOLEAN, DeviceServes(ok)
  PROVE  BInv'
<1> DEFINE t == bcur
           op == work[2].op
           s == work[2].sector
           b == work[3]
<1>1. /\ work # << >> /\ work' = << >> /\ bvq' = Return(bvq, work[1])
      /\ buf' = IF ok /\ op = "in" THEN [buf EXCEPT ![b] = disk[s]] ELSE buf
      /\ disk' = IF ok /\ op = "out" THEN [disk EXCEPT ![s] = buf[b]] ELSE disk
      /\ status' = [status EXCEPT ![work[4]] = IF ok THEN "ok" ELSE "ioerr"]
      /\ UNCHANGED <<bcur, bmasked, bpc, call, blk_busy, hdr, late>>
  BY DEF DeviceServes
<1>2. Queue(bvq) /\ t \in BTask /\ Table(buf) /\ Table(status) /\ disk = [x \in Sector |-> disk[x]]
  BY DEF BInv, Lock
<1>3. /\ Queue(bvq)' /\ bvq'.used_idx = Inc(bvq.used_idx)
      /\ bvq'.avail = bvq.avail /\ bvq'.last_used = bvq.last_used /\ bvq'.seen = bvq.seen
  BY <1>1, <1>2, ReturnedIs
<1>4. Lock'
  BY <1>1 DEF BInv, Lock, Table
<1>5. Table(buf)' /\ Table(status)' /\ disk' = [x \in Sector |-> disk'[x]]
  BY Zenon, <1>1, <1>2 DEF Table
<1>6. late = 0 => Progress(bcur)'
  <2> SUFFICES ASSUME late = 0 PROVE Progress(bcur)'
    OBVIOUS
  <2>1. bpc[t] = "poll" /\ Taken(t)
    BY <1>1 DEF BInv, Progress, Quiet, Waiting, Served
  <2>2. b = t /\ work[4] = t /\ op = call[t].op /\ s = call[t].sector
    BY <2>1 DEF Taken, Header
  <2>3. call[t].op \in {"in", "out"} /\ call[t].sector \in Sector
    BY <2>1 DEF BInv
  <2>4. status'[t] = IF ok THEN "ok" ELSE "ioerr"
    BY <1>1, <1>2, <2>2 DEF Table
  <2>6. Right(t)'
    <3>1. CASE ok /\ op = "in"
      <4>1. buf'[t] = disk[s] /\ disk' = disk
        BY <1>1, <1>2, <2>2, <3>1 DEF Table
      <4>2. QED BY <1>1, <2>2, <4>1 DEF Right
    <3>2. CASE ok /\ op = "out"
      <4>1. disk'[s] = buf[t] /\ buf' = buf
        BY <1>1, <1>2, <2>2, <2>3, <3>2
      <4>2. QED BY <1>1, <2>2, <4>1 DEF Right
    <3>3. CASE ~ok
      BY <1>1, <2>4, <3>3 DEF Right
    <3>4. QED BY <2>2, <2>3, <3>1, <3>2, <3>3
  <2>7. Served(t)'
    BY <1>1, <1>3, <2>1, <2>6 DEF Taken, Served
  <2>8. QED BY <1>1, <2>1, <2>7 DEF Progress
<1>7. QED BY <1>1, <1>3, <1>4, <1>5, <1>6 DEF BInv, Table

LEMMA InitBlk == ASSUME BlkQueue >= 3, BTask # {} PROVE BlkInit => BInv
<1> SUFFICES ASSUME BlkInit PROVE BInv
  OBVIOUS
<1>1. bcur \in BTask /\ \A t \in BTask : bpc[t] = "idle"
  BY DEF BlkInit
<1>2. Queue(bvq) /\ Quiet
  BY SetUpIs DEF BlkInit, Quiet
<1>3. Lock
  BY <1>1 DEF BlkInit, Lock, Table
<1>4. QED BY <1>1, <1>2, <1>3 DEF BlkInit, BInv, Progress, Table

LEMMA NextBlk ==
  ASSUME BlkQueue >= 3, BInv, [BlkNext]_blkvars
  PROVE  BInv'
<1>1. CASE Step(bcur)
  BY <1>1, EnterKeeps, AcquireKeeps, SubmitKeeps, PollKeeps, TimeoutKeeps, ReleaseKeeps DEF Step
<1>2. CASE \E t \in BTask : TimerIrq(t)
  BY <1>2, TimerKeeps
<1>3. CASE Device
  BY SMTT(60), <1>3, TakesKeeps, ServesKeeps DEF Device
<1>4. CASE UNCHANGED blkvars
  BY <1>4 DEF blkvars, BInv, Lock, Table, Progress, Quiet, Waiting, Taken, Served, Right, Header
<1>5. QED BY <1>1, <1>2, <1>3, <1>4 DEF BlkNext

\* blk_read and blk_write, on a queue that holds a chain: as long as no poll has given up, a
\* call that returns success was served by the device, for any number of tasks and sectors
\* and wherever the timer interrupts and the device's steps fall.
THEOREM SuccessMeansServed ==
  ASSUME BlkQueue >= 3, BTask # {}
  PROVE  BlkSpec => SuccessIsServed
<1> DEFINE Honest == \A t \in BTask :
                       (blk_lock_release(t) /\ Succeeded(t) /\ late = 0) => buf[t] = disk[call[t].sector]
<1>1. BInv => Honest
  <2> SUFFICES ASSUME BInv, NEW t \in BTask, bpc[t] = "check", status[t] = "ok", late = 0
               PROVE  buf[t] = disk[call[t].sector]
    BY DEF Succeeded
  <2>1. t = bcur
    BY StepOfRunning DEF BInv
  <2>2. QED BY SMTT(60), <2>1 DEF BInv, Progress, Right
<1>2. BInv /\ [BlkNext]_blkvars => BInv' /\ [Honest]_blkvars
  BY <1>1, NextBlk
<1>3. QED BY <1>2, InitBlk, PTL DEF BlkSpec, SuccessIsServed

\* blk_lock_acquire, blk_lock_release: no task ever finds the lock taken, for any number of
\* tasks: its holder is never interrupted.
THEOREM LockIsNeverContended ==
  ASSUME BlkQueue >= 3, BTask # {}
  PROVE  BlkSpec => []NeverContended
<1>1. BInv => NeverContended
  BY DEF BInv, Lock, NeverContended
<1>2. BInv /\ [BlkNext]_blkvars => BInv'
  BY NextBlk
<1>3. QED BY <1>1, <1>2, InitBlk, PTL DEF BlkSpec
=============================================================================
