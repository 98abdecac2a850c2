-------------------------------- MODULE Blk --------------------------------
(***************************************************************************)
(* The block driver (pci/virtio/blk/blk.c) on one virtqueue: blk_read and  *)
(* blk_write take the device lock with interrupts masked, submit a chain of *)
(* header, sector buffer and status byte, poll for the completion and give  *)
(* up after a bounded wait.  One CPU: the task that runs changes only at a  *)
(* timer interrupt, and only with interrupts unmasked.  The device is       *)
(* external and may be late.  A request's header and status live in the     *)
(* stack frame of its call, which a later call of the same task reuses.     *)
(***************************************************************************)
EXTENDS Virtqueue, Integers

CONSTANTS
    BTask,          \* tasks using the disk
    Sector,         \* sectors
    Word,           \* contents of a sector
    BlkQueue,       \* entries of the queue
    MaxTimeouts     \* polls that give up before the device answers

ASSUME BlkAssumption == BlkQueue \in Nat \ {0} /\ MaxTimeouts \in Nat

VARIABLES
    bcur, bmasked,  \* the running task, DAIF.I
    bpc,            \* where a task is in its call
    call,           \* its call: [op, sector, word]
    saved,          \* the DAIF it will restore
    blk_busy,
    bvq,            \* blk_dev.vq
    hdr, status, buf,   \* the call's header, status byte and sector buffer
    work,           \* the request the device has read: <<head, header, task>>, or << >>
    disk,           \* the sectors
    late            \* polls that have given up

blkvars == <<bcur, bmasked, bpc, call, saved, blk_busy, bvq, hdr, status, buf, work, disk, late>>

NoCall == [op |-> "none", sector |-> CHOOSE s \in Sector : TRUE, word |-> CHOOSE w \in Word : TRUE]

----------------------------------------------------------------------------
\* blk_lock_acquire: DAIF is read, interrupts are masked.
BlkEnter(t, c) ==
    /\ bpc[t] = "idle"
    /\ call' = [call EXCEPT ![t] = c] /\ buf' = [buf EXCEPT ![t] = c.word]
    /\ saved' = [saved EXCEPT ![t] = bmasked] /\ bmasked' = TRUE
    /\ bpc' = [bpc EXCEPT ![t] = "test"]
    /\ UNCHANGED <<bcur, blk_busy, bvq, hdr, status, work, disk, late>>

blk_read(t, s) == BlkEnter(t, [op |-> "in", sector |-> s, word |-> NoCall.word])
blk_write(t, s, w) == BlkEnter(t, [op |-> "out", sector |-> s, word |-> w])

\* The lock word is tested with interrupts masked; found set, they are unmasked for one
\* instruction and masked again.
blk_lock_acquire(t) ==
    \/ /\ bpc[t] = "test"
       /\ bmasked' = (IF blk_busy THEN saved[t] ELSE TRUE)
       /\ blk_busy' = TRUE
       /\ bpc' = [bpc EXCEPT ![t] = IF blk_busy THEN "spin" ELSE "submit"]
       /\ UNCHANGED <<bcur, call, saved, bvq, hdr, status, buf, work, disk, late>>
    \/ /\ bpc[t] = "spin"
       /\ bmasked' = TRUE /\ bpc' = [bpc EXCEPT ![t] = "test"]
       /\ UNCHANGED <<bcur, call, saved, blk_busy, bvq, hdr, status, buf, work, disk, late>>

\* Header and status are filled in, the chain is offered and the device notified.
Submit(t) ==
    /\ bpc[t] = "submit"
    /\ hdr' = [hdr EXCEPT ![t] = [op |-> call[t].op, sector |-> call[t].sector]]
    /\ status' = [status EXCEPT ![t] = "unset"]
    /\ bvq' = virtqueue_submit_chain(bvq, << <<"hdr", t>>, <<"buf", t>>, <<"status", t>> >>)
    /\ bpc' = [bpc EXCEPT ![t] = "poll"]
    /\ UNCHANGED <<bcur, bmasked, call, saved, blk_busy, buf, work, disk, late>>

\* A completion is consumed, whichever request it is of.
virtqueue_poll(t) ==
    /\ bpc[t] = "poll" /\ Completed(bvq)
    /\ bvq' = Consumed(bvq) /\ bpc' = [bpc EXCEPT ![t] = "check"]
    /\ UNCHANGED <<bcur, bmasked, call, saved, blk_busy, hdr, status, buf, work, disk, late>>

\* VIRTQUEUE_POLL_MAX_SPINS: nothing is consumed.
PollTimeout(t) ==
    /\ bpc[t] = "poll" /\ ~Completed(bvq) /\ late < MaxTimeouts
    /\ late' = late + 1 /\ bpc' = [bpc EXCEPT ![t] = "check"]
    /\ UNCHANGED <<bcur, bmasked, call, saved, blk_busy, bvq, hdr, status, buf, work, disk>>

\* Mutant: any answer of the device is taken for success.
SucceededAny(t) == bpc[t] = "check" /\ status[t] # "unset"

Succeeded(t) == bpc[t] = "check" /\ status[t] = "ok"

\* Mutant: a failed request returns without releasing the lock.
ReleaseOnSuccess(t) ==
    /\ bpc[t] = "check"
    /\ blk_busy' = ~Succeeded(t) /\ bmasked' = saved[t]
    /\ bpc' = [bpc EXCEPT ![t] = "idle"] /\ call' = [call EXCEPT ![t] = NoCall]
    /\ UNCHANGED <<bcur, saved, bvq, hdr, status, buf, work, disk, late>>

\* The status byte gives the result; the lock is released on every path.
blk_lock_release(t) ==
    /\ bpc[t] = "check"
    /\ blk_busy' = FALSE /\ bmasked' = saved[t]
    /\ bpc' = [bpc EXCEPT ![t] = "idle"] /\ call' = [call EXCEPT ![t] = NoCall]
    /\ UNCHANGED <<bcur, saved, bvq, hdr, status, buf, work, disk, late>>

----------------------------------------------------------------------------
\* A timer interrupt; every other task is ready.
TimerIrq(t) ==
    /\ ~bmasked /\ t # bcur /\ bcur' = t
    /\ UNCHANGED <<bmasked, bpc, call, saved, blk_busy, bvq, hdr, status, buf, work, disk, late>>

\* The device reads the next chain and the header it points to.
DeviceTakes ==
    /\ work = << >> /\ HasWork(bvq)
    /\ LET segs == SegsAt(bvq, NextHead(bvq)) IN
       work' = <<NextHead(bvq), hdr[segs[1][2]], segs[2][2], segs[3][2]>>
    /\ bvq' = TakeWork(bvq)
    /\ UNCHANGED <<bcur, bmasked, bpc, call, saved, blk_busy, hdr, status, buf, disk, late>>

\* The device serves it or fails it, writes the status byte and returns the chain.
DeviceServes(ok) ==
    /\ work # << >>
    /\ LET op == work[2].op
           s == work[2].sector
           b == work[3] IN
       /\ buf' = IF ok /\ op = "in" THEN [buf EXCEPT ![b] = disk[s]] ELSE buf
       /\ disk' = IF ok /\ op = "out" THEN [disk EXCEPT ![s] = buf[b]] ELSE disk
       /\ status' = [status EXCEPT ![work[4]] = IF ok THEN "ok" ELSE "ioerr"]
    /\ bvq' = Return(bvq, work[1]) /\ work' = << >>
    /\ UNCHANGED <<bcur, bmasked, bpc, call, saved, blk_busy, hdr, late>>

Step(t) ==
    \/ \E s \in Sector : blk_read(t, s) \/ \E w \in Word : blk_write(t, s, w)
    \/ blk_lock_acquire(t) \/ Submit(t) \/ virtqueue_poll(t) \/ PollTimeout(t) \/ blk_lock_release(t)

Busy(t) == bpc[t] # "idle" /\ Step(t)
Device == DeviceTakes \/ \E ok \in BOOLEAN : DeviceServes(ok)

BlkInit ==
    /\ bcur = (CHOOSE t \in BTask : TRUE) /\ bmasked = FALSE
    /\ bpc = [t \in BTask |-> "idle"] /\ call = [t \in BTask |-> NoCall]
    /\ saved = [t \in BTask |-> FALSE] /\ blk_busy = FALSE /\ bvq = virtqueue_setup(BlkQueue)
    /\ hdr = [t \in BTask |-> [op |-> "none", sector |-> NoCall.sector]]
    /\ status = [t \in BTask |-> "unset"] /\ buf = [t \in BTask |-> NoCall.word]
    /\ work = << >> /\ disk = [s \in Sector |-> NoCall.word] /\ late = 0

BlkNext == Step(bcur) \/ (\E t \in BTask : TimerIrq(t)) \/ Device

\* The running task keeps executing, and the device answers what it was given.
BlkFairness == (\A t \in BTask : WF_blkvars(bcur = t /\ Busy(t))) /\ WF_blkvars(Device)

BlkSpec == BlkInit /\ [][BlkNext]_blkvars /\ BlkFairness

----------------------------------------------------------------------------
(* Properties.                                                             *)

\* blk.c, virtqueue.c: the indices of the ring stay inside their 16-bit modulus and the lock,
\* the saved interrupt masks and the status byte keep their types.
BlkTypeOK ==
    /\ bcur \in BTask /\ bmasked \in BOOLEAN /\ blk_busy \in BOOLEAN
    /\ bpc \in [BTask -> {"idle", "test", "spin", "submit", "poll", "check"}]
    /\ saved \in [BTask -> BOOLEAN] /\ late \in 0 .. MaxTimeouts
    /\ status \in [BTask -> {"unset", "ok", "ioerr"}] /\ buf \in [BTask -> Word]
    /\ disk \in [Sector -> Word]
    /\ {bvq.avail, bvq.last_used, bvq.used_idx} \subseteq 0 .. IndexMod(bvq) - 1

\* blk.c:23-32, 36-55: the lock is never contended on one CPU.  Its holder runs with
\* interrupts masked from the store that takes it to the store that frees it, so no task
\* ever finds it set, no matter where the timer interrupt falls.
NeverContended ==
    /\ blk_busy => bmasked /\ bpc[bcur] \in {"submit", "poll", "check"}
    /\ \A t \in BTask : t # bcur => bpc[t] = "idle"
    /\ bpc[bcur] # "spin"

\* blk.c:178-213: as long as no poll has given up, a call that returns success was served by
\* the device: a read returns the sector's contents, a write is on the disk.
SuccessIsServed ==
    [][\A t \in BTask :
         (blk_lock_release(t) /\ Succeeded(t) /\ late = 0) => buf[t] = disk[call[t].sector]]_blkvars

Outstanding == (bvq.avail - bvq.used_idx + IndexMod(bvq)) % IndexMod(bvq)
InFlight == {(bvq.used_idx + k) % IndexMod(bvq) : k \in 0 .. Outstanding - 1}
HeadOfEntry(i) == bvq.ring[i % BlkQueue]
ChainSlots(h) == {(h + k) % BlkQueue : k \in 0 .. 2}

\* virtqueue.c:130-154: the chains the device has not returned share no descriptor while
\* they are few enough to fit the table, so no request overwrites one in flight.
ChainsApart ==
    3 * Outstanding <= BlkQueue =>
        /\ \A i, j \in InFlight : i # j => ChainSlots(HeadOfEntry(i)) \cap ChainSlots(HeadOfEntry(j)) = {}
        /\ \A i \in InFlight : Len(SegsAt(bvq, HeadOfEntry(i))) = 3

\* virtqueue.c:106-119, blk.c:246-248: every call returns, also when the device is late, and
\* leaves the lock free for the next.
CallsReturn == \A t \in BTask : bpc[t] # "idle" ~> (bpc[t] = "idle" /\ ~blk_busy)

\* The lock and the ring of the block driver, whenever interrupts and completions come.
BlkSound == BlkTypeOK /\ NeverContended /\ ChainsApart
=============================================================================
