------------------------------- MODULE Stdio -------------------------------
(***************************************************************************)
(* The buffered streams of the C library (user/lib/stdio.c): one stream of *)
(* a program over a regular file.  The system calls under it (external     *)
(* here, see Vfs and Fat32) may transfer less than was asked for, or fail.  *)
(* The other streams of the program matter only as entries of the table.   *)
(* Bytes are numbered in the order the program hands them over.            *)
(***************************************************************************)
EXTENDS Integers, Sequences, SequencesExt

CONSTANTS
    STD_BUF_SIZE, MAX_OPEN_STREAMS,
    Modes,                  \* modes given to fopen, as pairs such as <<"w", "+">>
    ReadLen, PutLen,        \* counts given to fread and fwrite
    SeekBy,                 \* offsets given to fseek
    OldBytes,               \* the file before it is opened
    MaxPut, MaxFails,       \* bounds: bytes handed over, system calls that fail
    MaxBase                 \* bound: where a direct read may take base, which can drift

ASSUME StdioAssumption ==
    /\ STD_BUF_SIZE \in Nat \ {0} /\ MAX_OPEN_STREAMS \in Nat \ {0}
    /\ ReadLen \subseteq Nat \ {0} /\ PutLen \subseteq Nat \ {0} /\ SeekBy \subseteq Int

VARIABLES
    FILE,       \* the FILE of the stream
    others,     \* entries of streams[] that other streams hold
    todo,       \* bytes the fwrite in progress has left
    fdesc,      \* the descriptor: file offset and the file's bytes
    got,        \* what the last call returned to a reader
    fails,      \* system calls that failed so far
    ref         \* the same calls without a buffer: position, bytes of the file, bytes
                \* handed over; and how the stream departed from that (astray)

stdiovars == <<FILE, others, todo, fdesc, got, fails, ref>>

----------------------------------------------------------------------------
Closed == [open |-> FALSE, listed |-> FALSE, read |-> FALSE, write |-> FALSE, eof |-> FALSE, err |-> FALSE,
           buf |-> [i \in 1 .. STD_BUF_SIZE |-> 0], rpos |-> 0, rlen |-> 0, wpos |-> 0, base |-> 0]

Least(a, b) == IF a < b THEN a ELSE b

\* A write to a regular file at its offset; the file then ends there.
PutAt(data, at, bytes) == IF bytes = << >> THEN data ELSE SubSeq(data, 1, Least(at, Len(data))) \o bytes

Store(buf, at, bytes) == [i \in DOMAIN buf |-> IF i - at \in DOMAIN bytes THEN bytes[i - at] ELSE buf[i]]
Pending == SubSeq(FILE.buf, 1, FILE.wpos)
Buffered == SubSeq(FILE.buf, FILE.rpos + 1, FILE.rlen)
Avail == Len(fdesc.data) - fdesc.off

\* The stream is not in the middle of an fwrite.
Idle == FILE.open /\ todo = << >>
Fails == fails < MaxFails /\ fails' = fails + 1
Written(bytes) == fdesc' = [off |-> fdesc.off + Len(bytes), data |-> PutAt(fdesc.data, fdesc.off, bytes)]
Astray(why) == [ref EXCEPT !.astray = @ \cup {why}]

----------------------------------------------------------------------------
\* stream_register: a full table is passed over in silence.
stream_register == others < MAX_OPEN_STREAMS

\* The modes r, w, a and their + forms; O_RDWR alone gives _F_READ beside _F_WRITE.
fopen(mode) ==
    LET data == IF mode[1] = "w" THEN << >> ELSE fdesc.data
        base == IF mode[1] = "a" THEN Len(data) ELSE 0 IN
    /\ ~FILE.open
    /\ FILE' = [Closed EXCEPT !.open = TRUE, !.listed = stream_register, !.base = base,
                              !.read = mode[1] = "r", !.write = mode # <<"r", "">>]
    /\ fdesc' = [off |-> base, data |-> data]
    /\ ref' = [ref EXCEPT !.pos = base, !.data = data, !.astray = {}]
    /\ got' = << >> /\ UNCHANGED <<others, todo, fails>>

\* Other streams come and go in the table.
OtherStreams ==
    /\ others' \in 0 .. MAX_OPEN_STREAMS - (IF FILE.listed THEN 1 ELSE 0)
    /\ UNCHANGED <<FILE, todo, fdesc, got, fails, ref>>

\* Mutant: a flush that wrote everything leaves the bytes in the buffer.
FlushKeeps(f) == [f EXCEPT !.base = @ + f.wpos]

FlushedWrite(f) == [f EXCEPT !.base = @ + f.wpos, !.wpos = 0]

stream_discard_read(f) == [f EXCEPT !.base = @ + f.rlen, !.rpos = 0, !.rlen = 0]

\* stream_flush_write: all that is buffered goes out; or a write fails after some of it, and
\* all of it stays buffered.
FlushFails ==
    \E n \in 0 .. FILE.wpos - 1 :
        /\ Fails /\ Written(SubSeq(FILE.buf, 1, n))
        /\ FILE' = [FILE EXCEPT !.err = TRUE]
        /\ ref' = IF n = 0 THEN ref ELSE Astray("repeated")

\* fflush, on this stream or on all: a stream that can write is flushed, another one
\* forgets what it has read ahead.
fflush ==
    /\ Idle /\ FILE.listed /\ got' = << >> /\ UNCHANGED <<others, todo>>
    /\ \/ FILE.write /\ Written(Pending) /\ FILE' = FlushedWrite(FILE) /\ UNCHANGED <<fails, ref>>
       \/ FILE.write /\ FlushFails
       \/ /\ ~FILE.write /\ FILE' = stream_discard_read(FILE)
          /\ ref' = [ref EXCEPT !.pos = fdesc.off] /\ UNCHANGED <<fdesc, fails>>

\* fclose does nothing to a stream that is not in the table.
fclose ==
    /\ Idle /\ FILE.listed /\ FILE' = Closed /\ got' = << >> /\ UNCHANGED <<others, todo>>
    /\ \/ FILE.write /\ Written(Pending) /\ UNCHANGED <<fails, ref>>
       \/ /\ FILE.write /\ Fails /\ ref' = Astray("lost")
          /\ \E n \in 0 .. FILE.wpos - 1 : Written(SubSeq(FILE.buf, 1, n))
       \/ ~FILE.write /\ UNCHANGED <<fdesc, fails, ref>>
----------------------------------------------------------------------------
\* The bytes k of the buffer hands over, and what the descriptor would yield next.
FromBuffer(n) == Least(n, FILE.rlen - FILE.rpos)
FromFile(n) == SubSeq(fdesc.data, fdesc.off + 1, fdesc.off + n)
Returns(bytes) == got' = bytes /\ UNCHANGED <<others, todo>>
Took(n) == ref' = [ref EXCEPT !.pos = @ + n]

\* The buffer is filled from the descriptor and up to rest bytes are taken after head; at the
\* end of the file, or on an error of lseek or read, head is all.
TopUp(head, rest) ==
    \/ /\ Avail = 0 /\ Returns(head) /\ Took(Len(head))
       /\ FILE' = [FILE EXCEPT !.eof = TRUE, !.rpos = @ + Len(head)] /\ UNCHANGED <<fdesc, fails>>
    \/ /\ Fails /\ Returns(head) /\ Took(Len(head))
       /\ FILE' = [FILE EXCEPT !.err = TRUE, !.rpos = @ + Len(head)] /\ UNCHANGED fdesc
    \/ \E n \in 1 .. Least(STD_BUF_SIZE, Avail) :
        /\ FILE' = [FILE EXCEPT !.base = fdesc.off, !.buf = Store(@, 0, FromFile(n)),
                                !.rlen = n, !.rpos = Least(rest, n)]
        /\ fdesc' = [fdesc EXCEPT !.off = @ + n]
        /\ Returns(head \o FromFile(Least(rest, n))) /\ Took(Len(head) + Least(rest, n))
        /\ UNCHANGED fails

\* A request the buffer cannot hold goes to the descriptor until it is served, the file
\* ends or a read fails.  base moves by all that the call handed over.
Direct(head, rest) ==
    \E n \in 0 .. Least(rest, Avail), end \in {"served", "eof", "err"} :
        /\ CASE end = "served" -> n = rest /\ UNCHANGED fails
             [] end = "eof" -> n = Avail /\ n < rest /\ UNCHANGED fails
             [] end = "err" -> n < rest /\ Fails
        /\ FILE.base + Len(head) + n <= MaxBase
        /\ FILE' = [FILE EXCEPT !.rpos = @ + Len(head), !.base = @ + Len(head) + n,
                                !.eof = @ \/ end = "eof", !.err = @ \/ end = "err"]
        /\ fdesc' = [fdesc EXCEPT !.off = @ + n]
        /\ Returns(head \o FromFile(n))
        /\ ref' = [ref EXCEPT !.pos = @ + Len(head) + n,
                              !.astray = IF head = << >> THEN @ ELSE @ \cup {"skewed"}]

\* What is buffered first, then the descriptor.
fread(n) ==
    LET k == FromBuffer(n)
        head == SubSeq(Buffered, 1, k) IN
    /\ Idle /\ FILE.read
    /\ \/ /\ k = n /\ Returns(head) /\ Took(n)
          /\ FILE' = [FILE EXCEPT !.rpos = @ + n] /\ UNCHANGED <<fdesc, fails>>
       \/ k < n /\ n - k >= STD_BUF_SIZE /\ Direct(head, n - k)
       \/ k < n /\ n - k < STD_BUF_SIZE /\ TopUp(head, n - k)

\* fgets is fgetc up to a newline.
fgetc ==
    /\ Idle /\ FILE.read
    /\ \/ /\ FILE.rpos < FILE.rlen /\ Returns(<<Buffered[1]>>) /\ Took(1)
          /\ FILE' = [FILE EXCEPT !.rpos = @ + 1] /\ UNCHANGED <<fdesc, fails>>
       \/ FILE.rpos = FILE.rlen /\ TopUp(<< >>, 1)

\* The byte that was read last is pushed back.
ungetc ==
    /\ Idle /\ FILE.read /\ got # << >> /\ FILE.rpos > 0 /\ FILE.rpos <= FILE.rlen
    /\ FILE' = [FILE EXCEPT !.rpos = @ - 1, !.buf = Store(@, FILE.rpos - 1, <<Last(got)>>), !.eof = FALSE]
    /\ got' = Front(got) /\ ref' = [ref EXCEPT !.pos = @ - 1] /\ UNCHANGED <<others, todo, fdesc, fails>>

----------------------------------------------------------------------------
\* The bytes the program hands over, and their being accepted.
Fresh(n) == [i \in 1 .. n |-> ref.put + i]
Accepted(r, bytes) == [r EXCEPT !.data = PutAt(@, r.pos, bytes), !.pos = @ + Len(bytes)]

fwrite(n) ==
    /\ Idle /\ FILE.write /\ ref.put + n <= MaxPut
    /\ todo' = Fresh(n) /\ ref' = [ref EXCEPT !.put = @ + n]
    /\ got' = << >> /\ UNCHANGED <<FILE, others, fdesc, fails>>

\* One round of fwrite's loop: a full buffer is flushed; what the buffer could not hold goes
\* to the descriptor, ahead of what is buffered; the rest is buffered.
FwriteFlush ==
    /\ todo # << >> /\ FILE.wpos = STD_BUF_SIZE /\ UNCHANGED <<others, got>>
    /\ \/ Written(Pending) /\ FILE' = FlushedWrite(FILE) /\ UNCHANGED <<todo, fails, ref>>
       \/ FlushFails /\ todo' = << >>

FwriteDirect ==
    /\ todo # << >> /\ FILE.wpos < STD_BUF_SIZE /\ Len(todo) >= STD_BUF_SIZE /\ UNCHANGED <<others, got>>
    /\ \/ \E n \in 1 .. Len(todo) :
            /\ Written(SubSeq(todo, 1, n)) /\ todo' = SubSeq(todo, n + 1, Len(todo))
            /\ FILE' = [FILE EXCEPT !.base = @ + n]
            /\ ref' = Accepted(IF FILE.wpos = 0 THEN ref ELSE Astray("overtaken"), SubSeq(todo, 1, n))
            /\ UNCHANGED fails
       \/ Fails /\ todo' = << >> /\ FILE' = [FILE EXCEPT !.err = TRUE] /\ UNCHANGED <<fdesc, ref>>

BufferRoom == STD_BUF_SIZE - FILE.wpos

FwriteBuffer ==
    LET n == Least(BufferRoom, Len(todo)) IN
    /\ todo # << >> /\ FILE.wpos < STD_BUF_SIZE /\ Len(todo) < STD_BUF_SIZE
    /\ FILE' = [FILE EXCEPT !.buf = Store(@, FILE.wpos, SubSeq(todo, 1, n)), !.wpos = @ + n]
    /\ todo' = SubSeq(todo, n + 1, Len(todo)) /\ ref' = Accepted(ref, SubSeq(todo, 1, n))
    /\ UNCHANGED <<others, fdesc, got, fails>>

\* fputc; printf to a stream is fputc of each byte and an fflush.
fputc ==
    LET f == IF FILE.wpos = STD_BUF_SIZE THEN FlushedWrite(FILE) ELSE FILE IN
    /\ Idle /\ FILE.write /\ ref.put < MaxPut /\ got' = << >> /\ UNCHANGED <<others, todo>>
    /\ \/ /\ FILE' = [f EXCEPT !.buf = Store(@, f.wpos, Fresh(1)), !.wpos = @ + 1]
          /\ ref' = [Accepted(ref, Fresh(1)) EXCEPT !.put = @ + 1]
          /\ IF FILE.wpos = STD_BUF_SIZE THEN Written(Pending) ELSE UNCHANGED fdesc
          /\ UNCHANGED fails
       \/ FILE.wpos = STD_BUF_SIZE /\ FlushFails

----------------------------------------------------------------------------
\* The position the program sees; ftell.
ftell == FILE.base + (IF FILE.write THEN FILE.wpos ELSE FILE.rpos)

\* stream_flush, when it succeeds, before the descriptor moves: the file and the FILE.
AfterFlush == IF FILE.write THEN FlushedWrite(FILE) ELSE stream_discard_read(FILE)
FlushedData == IF FILE.write THEN PutAt(fdesc.data, fdesc.off, Pending) ELSE fdesc.data
FlushedOff == IF FILE.write THEN fdesc.off + FILE.wpos ELSE fdesc.off

\* Seeks past the end of the file are left out.
Target(offset, whence) ==
    CASE whence = "set" -> offset
      [] whence = "cur" -> ftell + offset
      [] whence = "end" -> Len(FlushedData) + offset

\* fseek refused, by its target or by a failing lseek: the stream was flushed all the same,
\* and a seek from the end may have left the descriptor there.
SeekRefused(whence) ==
    \E off \in {FlushedOff} \cup (IF whence = "end" THEN {Len(FlushedData)} ELSE {}) :
        /\ fdesc' = [off |-> off, data |-> FlushedData] /\ FILE' = AfterFlush
        /\ ref' = [ref EXCEPT !.pos = IF FILE.write THEN @ ELSE off,
                              !.astray = IF off = FlushedOff THEN @ ELSE @ \cup {"moved"}]

fseek(offset, whence) ==
    LET target == Target(offset, whence) IN
    /\ Idle /\ FILE.listed /\ target <= Len(FlushedData) /\ got' = << >> /\ UNCHANGED <<others, todo>>
    /\ \/ /\ target >= 0
          /\ FILE' = [AfterFlush EXCEPT !.base = target, !.eof = FALSE]
          /\ fdesc' = [off |-> target, data |-> FlushedData]
          /\ ref' = [ref EXCEPT !.pos = target, !.astray = @ \ {"skewed"}] /\ UNCHANGED fails
       \/ target < 0 /\ SeekRefused(whence) /\ UNCHANGED fails
       \/ target >= 0 /\ Fails /\ SeekRefused(whence)
       \/ FILE.write /\ FlushFails

\* clearerr; rewind is fseek to 0 and clearerr.
clearerr ==
    /\ Idle /\ FILE' = [FILE EXCEPT !.eof = FALSE, !.err = FALSE]
    /\ UNCHANGED <<others, todo, fdesc, got, fails, ref>>

----------------------------------------------------------------------------
StdioInit ==
    /\ FILE = Closed /\ others = 0 /\ todo = << >> /\ got = << >> /\ fails = 0
    /\ fdesc = [off |-> 0, data |-> OldBytes]
    /\ ref = [pos |-> 0, data |-> OldBytes, put |-> 0, astray |-> {}]

StdioNext ==
    \/ \E mode \in Modes : fopen(mode)
    \/ OtherStreams \/ fflush \/ fclose \/ fgetc \/ ungetc \/ fputc \/ clearerr
    \/ \E n \in ReadLen : fread(n)
    \/ \E n \in PutLen : fwrite(n)
    \/ FwriteFlush \/ FwriteDirect \/ FwriteBuffer
    \/ \E offset \in SeekBy, whence \in {"set", "cur", "end"} : fseek(offset, whence)

StdioSpec == StdioInit /\ [][StdioNext]_stdiovars

----------------------------------------------------------------------------
(* Properties, of streams that only read or only write.  A stream opened    *)
(* with "r+" does not flush when the direction changes, as the comment at   *)
(* stdio.c:14-18 has it, and none of them holds of it: the runs leave that  *)
(* mode out.                                                               *)

Reads == FILE.open /\ FILE.read /\ ~FILE.write

\* The counters of a FILE stay inside its buffer, and the table inside its bound.
StdioTypeOK ==
    /\ FILE.rpos \in 0 .. FILE.rlen /\ FILE.rlen \in 0 .. STD_BUF_SIZE /\ FILE.wpos \in 0 .. STD_BUF_SIZE
    /\ FILE.base \in Nat /\ fdesc.off \in 0 .. Len(fdesc.data)
    /\ others + (IF FILE.listed THEN 1 ELSE 0) \in 0 .. MAX_OPEN_STREAMS

\* stdio.c:112-126, 246-309, 435-470: whatever mix of fread, fgetc, ungetc, fseek and fflush a
\* reader uses, and however short or failing the reads under them, it gets the bytes of the
\* file at its position: what is buffered runs from there to the descriptor's offset, and
\* EOF is reported only when the file has no more.
ReadsInOrder ==
    Reads =>
        /\ got = SubSeq(fdesc.data, ref.pos - Len(got) + 1, ref.pos)
        /\ Buffered = SubSeq(fdesc.data, ref.pos + 1, fdesc.off)
        /\ fdesc.off - (FILE.rlen - FILE.rpos) = ref.pos
        /\ FILE.eof => fdesc.off = Len(fdesc.data)

\* stdio.c:93-110, 322-350, 503-515: the file with the buffered bytes put at the descriptor's
\* offset is the file an unbuffered program would have made, through flushes, seeks and
\* short writes, and so it is after an fclose that succeeded.  Not so once a direct write
\* has overtaken buffered bytes (stdio.c:332-340 flushes only a full buffer), a flush has
\* failed half way (the bytes it wrote are written again, or lost by fclose), or a refused
\* seek from the end has moved the descriptor.
WritesInOrder ==
    ref.astray = {} => PutAt(fdesc.data, fdesc.off, Pending) = ref.data

\* stdio.c:20-22, 403-410: ftell is the position the next byte is read or written at.  Not
\* so after a direct read that first took buffered bytes (line 276 counts those twice),
\* until a seek, nor after a refused seek from the end.
TellAgrees ==
    FILE.open /\ ref.astray \cap {"skewed", "moved"} = {} => ftell = ref.pos

\* A buffered stream gives a reader the file, and makes the file an unbuffered writer would
\* have made.
StreamFaithful == StdioTypeOK /\ ReadsInOrder /\ WritesInOrder /\ TellAgrees
============================================================================
