------------------------------ MODULE FileRead ------------------------------
(***************************************************************************)
(* Serving the bytes of an image: File::seek(), File::read() and the three *)
(* handlers that use them.  An image is a plain file or a set of parts     *)
(* (game.iso.0, game.iso.1, ...) that together are one image.  A byte of   *)
(* the image is represented by its offset, a byte of padding by Zero, so   *)
(* that what is sent can be compared with what was asked for.              *)
(*                                                                         *)
(* Reading and sending may fail; seeking in a regular file does not.       *)
(* Decryption is left out here, and so are files that change while they    *)
(* are served.                                                             *)
(***************************************************************************)
EXTENDS Integers, Sequences

CONSTANTS
    BUFFER_SIZE,    \* length of client->buf
    PAYLOAD,        \* data bytes of a CD sector (2048)
    HEADER,         \* bytes before them (24)
    CD_SECTOR_SIZE, \* the distance of two sectors (2352)
    MaxParts,       \* bound: the parts of an image; 0 for plain files only
    MaxSize,        \* bound: the size of a plain file
    MaxPart,        \* bound: the size of a part
    MaxOffset,      \* bound: where reads start
    MaxLength,      \* bound: the length of a read
    Faults          \* the images for which read() and send() may fail

ASSUME ReadAssumption ==
    /\ {BUFFER_SIZE, PAYLOAD, CD_SECTOR_SIZE, MaxSize, MaxPart} \subseteq Nat \ {0}
    /\ {HEADER, MaxParts, MaxOffset, MaxLength} \subseteq Nat
    /\ Faults \in {"none", "plain", "all"}

VARIABLES
    image,      \* is_multipart, part_size, and the size of the last part
    index,      \* the current part
    at,         \* the file position of each part's descriptor
    phase,      \* "open", "critical" or "cd" (reading), "done" or "dropped"
    job,        \* the last request
    pos,        \* how much of it has been read: pos, or the sector's number
    out,        \* what has been sent, or is to be sent, in answer to it
    fault       \* whether a system call has failed since

fileVars == <<index, at>>
vars == <<image, fileVars, phase, job, pos, out, fault>>

Zero == -1
FAILED == -1

\* All parts but the last are of the size of the first.
Images ==
    [is_multipart : {0}, part_size : {0}, last : 0 .. MaxSize]
    \cup {i \in [is_multipart : 1 .. MaxParts, part_size : 1 .. MaxPart, last : 1 .. MaxPart] :
             IF i.is_multipart = 1 THEN i.last = i.part_size ELSE i.last <= i.part_size}

MinOf(a, b) == IF a <= b THEN a ELSE b
Count == IF image.is_multipart = 0 THEN 1 ELSE image.is_multipart
SizeOf(p) == IF p = Count - 1 THEN image.last ELSE image.part_size
ro_file_size == (Count - 1) * image.part_size + image.last
MayFail == Faults = "all" \/ (Faults = "plain" /\ image.is_multipart = 0)

NoJob == [op |-> "none", off |-> 0, len |-> 0]

\* The file has just been opened.
Init ==
    /\ image \in Images
    /\ index = 0 /\ at = [p \in 0 .. Count - 1 |-> 0]
    /\ phase = "open" /\ job = NoJob /\ pos = 0 /\ out = <<>> /\ fault = FALSE

-----------------------------------------------------------------------------
(* File *)

\* seek(offset, SEEK_SET)
Seek(offset) ==
    IF image.is_multipart = 0
    THEN [ret |-> offset, index |-> index, at |-> [at EXCEPT ![0] = offset]]
    ELSE LET part_index == offset \div image.part_size
             rest == offset % image.part_size
         IN IF part_index >= image.is_multipart
            THEN [ret |-> FAILED, index |-> index, at |-> at]
            ELSE [ret |-> rest, index |-> part_index, at |-> [at EXCEPT ![part_index] = rest]]

\* read_file() of n bytes of part p at a: all there are up to n, or a failure.
ReadPart(p, a, n) ==
    LET got == IF a >= SizeOf(p) THEN 0 ELSE MinOf(n, SizeOf(p) - a)
    IN {[ret |-> got, data |-> [i \in 1 .. got |-> p * image.part_size + a + i - 1]]}
       \cup (IF MayFail THEN {[ret |-> FAILED, data |-> <<>>]} ELSE {})

Advance(a, r) == a + (IF r.ret = FAILED THEN 0 ELSE r.ret)

\* What a read of a part, or of a part and then of the next one, comes to.
\* If the first one failed, -1 is added to the buffer's address and to the
\* count like any other result: the first byte read lands before the buffer.
One(f, r) ==
    [ret |-> r.ret, data |-> r.data, index |-> f.index,
     at |-> [f.at EXCEPT ![f.index] = Advance(@, r)], failed |-> r.ret = FAILED]
Both(f, r, s, from) ==
    [ret |-> r.ret + s.ret,
     data |-> IF r.ret = FAILED THEN SubSeq(s.data, 2, Len(s.data)) ELSE r.data \o s.data,
     index |-> f.index + 1,
     at |-> [f.at EXCEPT ![f.index] = Advance(@, r), ![f.index + 1] = Advance(from, s)],
     failed |-> FAILED \in {r.ret, s.ret}]

\* Mutant: the next part is read from wherever its descriptor stands.
ReadNoRewind(f, n) ==
    UNION {IF r.ret < n /\ f.index + 1 < image.is_multipart
           THEN LET from == f.at[f.index + 1]
                IN {Both(f, r, s, from) : s \in ReadPart(f.index + 1, from, n - r.ret)}
           ELSE {One(f, r)} : r \in ReadPart(f.index, f.at[f.index], n)}

\* read(buf, n), for a file with index f.index and positions f.at: a read
\* that comes back short goes on at the beginning of the next part.
Read(f, n) ==
    UNION {IF r.ret < n /\ f.index + 1 < image.is_multipart
           THEN {Both(f, r, s, 0) : s \in ReadPart(f.index + 1, 0, n - r.ret)}
           ELSE {One(f, r)} : r \in ReadPart(f.index, f.at[f.index], n)}

\* The first n bytes of a buffer after a read, zero-filled from r.ret on.
Padded(r, n) == [i \in 1 .. n |-> IF i <= r.ret THEN r.data[i] ELSE Zero]

-----------------------------------------------------------------------------
(* The handlers *)

Ready == phase \in {"open", "done"}

Position(f) == index' = f.index /\ at' = f.at

\* The connection is given up.
Dropped == phase' = "dropped" /\ UNCHANGED <<pos, out>>

\* process_read_file_critical() up to the loop.
ReadFileCritical(offset, remaining) ==
    /\ Ready
    /\ job' = [op |-> "critical", off |-> offset, len |-> remaining]
    /\ out' = <<>> /\ pos' = offset
    /\ fault' = FALSE
    /\ LET s == Seek(offset) IN
          /\ Position(s)
          /\ phase' = IF s.ret = FAILED THEN "dropped"
                      ELSE IF remaining = 0 THEN "done" ELSE "critical"
    /\ UNCHANGED image

\* Mutant: whatever is missing is zero-filled.
ReadChunkAlwaysPads ==
    /\ phase = "critical"
    /\ LET read_size == MinOf(BUFFER_SIZE, job.off + job.len - pos) IN
       \E r \in Read([index |-> index, at |-> at], read_size) :
          /\ Position(r) /\ fault' = (fault \/ r.failed)
          /\ IF r.ret < 0 THEN Dropped
             ELSE /\ out' = out \o Padded(r, read_size)
                  /\ pos' = pos + read_size
                  /\ phase' = IF pos' = job.off + job.len THEN "done" ELSE "critical"
    /\ UNCHANGED <<image, job>>

\* Mutant: every short read ends the connection.
ReadChunkNeverPads ==
    /\ phase = "critical"
    /\ LET read_size == MinOf(BUFFER_SIZE, job.off + job.len - pos) IN
       \E r \in Read([index |-> index, at |-> at], read_size) :
          /\ Position(r) /\ fault' = (fault \/ r.failed)
          /\ IF r.ret # read_size THEN Dropped
             ELSE /\ out' = out \o Padded(r, read_size)
                  /\ pos' = pos + read_size
                  /\ phase' = IF pos' = job.off + job.len THEN "done" ELSE "critical"
    /\ UNCHANGED <<image, job>>

\* One pass of its loop: a buffer is read, zero-filled if the image ends in
\* it, and sent.
ReadChunk ==
    /\ phase = "critical"
    /\ LET read_size == MinOf(BUFFER_SIZE, job.off + job.len - pos) IN
       \E r \in Read([index |-> index, at |-> at], read_size) :
          /\ Position(r)
          /\ \/ /\ fault' = (fault \/ r.failed)
                /\ IF r.ret < 0 \/ (r.ret # read_size /\ pos + r.ret < ro_file_size)
                   THEN Dropped
                   ELSE /\ out' = out \o Padded(r, read_size)
                        /\ pos' = pos + read_size
                        /\ phase' = IF pos' = job.off + job.len THEN "done" ELSE "critical"
             \/ MayFail /\ fault' = TRUE /\ Dropped
    /\ UNCHANGED <<image, job>>

\* process_read_file_cmd(): as many bytes as are read in one go, after their
\* number, or -1.
ReadFileCmd(offset, read_size) ==
    /\ Ready
    /\ pos' = 0
    /\ LET s == Seek(offset)
           Answer(op, data) == job' = [op |-> op, off |-> offset, len |-> read_size] /\ out' = data
       IN \/ /\ read_size > BUFFER_SIZE \/ s.ret = FAILED
             /\ Answer("error", <<>>) /\ phase' = "done"
             /\ fault' = FALSE /\ UNCHANGED fileVars
          \/ /\ read_size <= BUFFER_SIZE /\ s.ret # FAILED
             /\ \E r \in Read(s, read_size) :
                   /\ Position(r) /\ fault' = r.failed
                   /\ phase' = "done"
                   /\ IF r.ret < 0 THEN Answer("error", <<>>)
                      ELSE Answer("read", SubSeq(r.data, 1, r.ret))
          \/ /\ MayFail /\ Answer("error", <<>>) /\ phase' = "dropped"
             /\ fault' = TRUE /\ UNCHANGED fileVars
    /\ UNCHANGED image

-----------------------------------------------------------------------------
(* process_read_cd_2048_critical_cmd() *)

Span(sector_count) == (sector_count - 1) * CD_SECTOR_SIZE + HEADER + PAYLOAD

\* Mutant: the payloads are taken from the span without their gaps.
ExtractDense(scratch, sector_count) ==
    [i \in 1 .. sector_count * PAYLOAD |-> scratch[i]]

\* Each sector's payload out of what was read in one go.
Extract(scratch, sector_count) ==
    [i \in 1 .. sector_count * PAYLOAD |->
        scratch[((i - 1) \div PAYLOAD) * CD_SECTOR_SIZE + ((i - 1) % PAYLOAD) + 1]]

\* Too many sectors are refused.  Otherwise a plain file is read in one go,
\* if there is memory for it, and any other sector by sector.
ReadCd2048Critical(start_sector, sector_count) ==
    /\ Ready
    /\ job' = [op |-> "cd", off |-> start_sector * CD_SECTOR_SIZE, len |-> sector_count]
    /\ pos' = 0 /\ out' = <<>>
    /\ fault' = FALSE
    /\ phase' = IF sector_count * PAYLOAD > BUFFER_SIZE THEN "dropped"
                ELSE IF sector_count = 0 THEN "done" ELSE "cd"
    /\ UNCHANGED <<image, fileVars>>

ReadCdBulk ==
    /\ phase = "cd" /\ pos = 0 /\ image.is_multipart = 0
    /\ LET span == Span(job.len)
           start == job.off + HEADER IN
       \E r \in Read(Seek(start), span) :
          /\ Position(r)
          /\ \/ /\ fault' = r.failed
                /\ IF r.ret = span \/ (r.ret >= 0 /\ start + r.ret >= ro_file_size)
                   THEN /\ out' = Extract(Padded(r, span), job.len)
                        /\ pos' = job.len /\ phase' = "done"
                   ELSE Dropped
             \/ MayFail /\ fault' = TRUE /\ Dropped
    /\ UNCHANGED <<image, job>>

\* One sector of the loop; what seek() returns is not looked at.
ReadCdSector ==
    /\ phase = "cd"
    /\ LET start == job.off + pos * CD_SECTOR_SIZE + HEADER IN
       \E r \in Read(Seek(start), PAYLOAD) :
          /\ Position(r)
          /\ \/ /\ fault' = (fault \/ r.failed)
                /\ IF r.ret = PAYLOAD \/ (r.ret >= 0 /\ start + r.ret >= ro_file_size)
                   THEN /\ out' = out \o Padded(r, PAYLOAD)
                        /\ pos' = pos + 1
                        /\ phase' = IF pos' = job.len THEN "done" ELSE "cd"
                   ELSE Dropped
             \/ MayFail /\ pos + 1 = job.len /\ fault' = TRUE /\ Dropped
    /\ UNCHANGED <<image, job>>

\* The connection is over; finalize_client() closes the file.
Over == phase = "dropped" /\ UNCHANGED vars

Next ==
    \/ \E offset \in 0 .. MaxOffset, n \in 0 .. MaxLength :
          ReadFileCritical(offset, n) \/ ReadFileCmd(offset, n)
    \/ \E sector \in 0 .. MaxOffset \div CD_SECTOR_SIZE, n \in 0 .. MaxLength \div PAYLOAD :
          ReadCd2048Critical(sector, n)
    \/ ReadChunk \/ ReadCdBulk \/ ReadCdSector
    \/ Over

Spec == Init /\ [][Next]_vars

-----------------------------------------------------------------------------
(* Properties *)

\* What the image holds from offset on, and zeros after its end.
Right(offset, n) == [i \in 1 .. n |-> IF offset + i <= ro_file_size THEN offset + i - 1 ELSE Zero]

\* READ_FILE_CRITICAL sends the bytes that were asked for, in order, across
\* buffers, part boundaries and whatever was read before, and zeros only past
\* the end of the image; if the connection goes on, it has sent all of them.
CriticalServed ==
    job.op = "critical" =>
        /\ Len(out) <= job.len /\ out = Right(job.off, Len(out))
        /\ phase = "done" => Len(out) = job.len

\* READ_FILE sends bytes of the image from the right place on, perhaps fewer
\* than asked for, and none from beyond its end.
ReadServed ==
    job.op = "read" =>
        /\ Len(out) <= job.len /\ out = Right(job.off, Len(out))
        /\ Len(out) > 0 => job.off + Len(out) <= ro_file_size

\* The payload of each sector that was asked for.
Payloads ==
    [i \in 1 .. job.len * PAYLOAD |->
        Right(job.off + HEADER + ((i - 1) \div PAYLOAD) * CD_SECTOR_SIZE, PAYLOAD)
            [((i - 1) % PAYLOAD) + 1]]

\* READ_CD_2048_CRITICAL sends the payload of each sector that was asked for,
\* the same whether it was read in one go or sector by sector, and after any
\* other reads, and zeros past the end of a plain image.  Past the end of an
\* image in parts the sector loop, which does not look at what seek() returns,
\* may send bytes of the image instead of zeros: nothing is said of them.
CdServed ==
    phase = "done" /\ job.op = "cd" =>
        /\ Len(out) = Len(Payloads)
        /\ \A i \in 1 .. Len(out) :
              image.is_multipart = 0 \/ Payloads[i] # Zero => out[i] = Payloads[i]

\* A short read is fatal only if it is a real error: as long as no system call
\* fails, and a part holds at least a buffer, READ_FILE_CRITICAL gives up no
\* request, wherever it begins, but those that File::seek() refuses.
OnlyFailuresDrop ==
    /\ phase = "dropped" /\ job.op = "critical" /\ ~fault
    /\ image.is_multipart = 0 \/ BUFFER_SIZE <= image.part_size
    => image.is_multipart > 0 /\ job.off >= image.is_multipart * image.part_size
=============================================================================
