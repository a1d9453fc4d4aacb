----------------------------- MODULE VIsoRead -----------------------------
(***************************************************************************)
(* A virtual image in use: the console that has opened it seeks and reads, *)
(* or create_iso() copies it to a file.  What VIsoBuild has built comes    *)
(* from memory, the files of the folder from disk when they are read, and  *)
(* zeros fill what is between and behind them.                             *)
(*                                                                         *)
(* VIsoFile.cpp opens a file for each read; its twin VIsoFile2.cpp, which  *)
(* the Windows Makefile compiles, keeps the last one open.  The folder may *)
(* change while it is served.  A read is a sequence of segments: where in  *)
(* the image it goes, and from where in which source.                      *)
(***************************************************************************)
EXTENDS VIsoBuild

CONSTANTS
    Twins,          \* of "VIsoFile" and "VIsoFile2"
    Lengths,        \* the lengths of reads
    DUMP_SIZE,      \* buf_size of create_iso()
    MaxReads,       \* bound: reads after one seek
    MaxShort,       \* bound: writes of one dump that fail or are short
    Volatile        \* bound: the names of the files that someone may change

ASSUME DumpAssumption == DUMP_SIZE \in Nat \ {0} /\ Lengths \subseteq Nat /\ MaxReads \in Nat

\* A path is neither NULL nor one of the names of the other sources of a read.
ASSUME PathAssumption ==
    \A t \in Trees : \A d \in 1 .. Len(t.dirs) : \A i \in 1 .. Len(t.files[d]) :
        LET path == <<d, t.files[d][i].name>>
        IN  path # None /\ path # "fsBuf" /\ path # "zero"

VARIABLES
    twin,
    client,     \* "console" or "create_iso"
    use,        \* "opening", "serving", "dumping", "dumped" or "over"
    vFilePtr,
    lastPath,   \* the file that fd is open on (VIsoFile2)
    fds,        \* how many descriptors are open
    disk,       \* the files that have been cut or removed
    result,     \* the last read
    reads,      \* since the last seek
    output      \* what create_iso() has written

readVars == <<twin, client, use, vFilePtr, lastPath, fds, disk, result, reads, output>>
vars == <<buildVars, readVars>>

Path(f) == <<f.dir, f.name>>
Files == FlattenSeq([d \in 1 .. Len(dirList) |-> dirList[d].files])
NoResult == [at |-> 0, want |-> 0, n |-> 0, failed |-> FALSE, segs |-> << >>]

Init ==
    /\ BuildInit
    /\ twin \in Twins /\ client \in {"console", "create_iso"}
    /\ use = "opening"
    /\ vFilePtr = 0 /\ lastPath = None /\ fds = 0
    /\ disk = [cut |-> {}, gone |-> {}]
    /\ result = NoResult /\ reads = 0 /\ output = << >>

-----------------------------------------------------------------------------
(* read() *)

fStart(f) == fsBuf.fsBufSize + f.rlba * SECTOR_SIZE
fEnd(f) == fStart(f) + f.size
fEndSector(f) == RoundUp(fEnd(f))

Segment(from, at, off, len) == [from |-> from, at |-> at, off |-> off, len |-> len]

\* to_read bytes of a source, at the place a read has come to
Take(acc, from, off, to_read) ==
    [acc EXCEPT !.segs = IF to_read = 0 THEN @ ELSE Append(@, Segment(from, acc.ptr, off, to_read)),
                !.ptr = @ + to_read, !.left = @ - to_read]

\* The early returns with what has been read so far
GiveUp(acc) == [acc EXCEPT !.stop = TRUE, !.failed = TRUE]

\* Mutant: the descriptor of the last file is overwritten.
ReadFileKeepingOld(acc, f, bad) ==
    [Take(acc, Path(f), acc.ptr - fStart(f), Smaller(fEnd(f) - acc.ptr, acc.left))
        EXCEPT !.lastPath = Path(f), !.fds = IF acc.lastPath = Path(f) THEN @ ELSE @ + 1]

\* VIsoFile2: the descriptor of the last file is used again, or closed before
\* the next one is opened; fd_reset() after any failure.
ReadFileCached(acc, f, bad) ==
    LET to_read == Smaller(fEnd(f) - acc.ptr, acc.left)
        off == acc.ptr - fStart(f)
        reset == [acc EXCEPT !.lastPath = None, !.fds = IF acc.lastPath = None THEN @ ELSE @ - 1]
        opened == IF acc.lastPath = Path(f) THEN acc
                  ELSE [reset EXCEPT !.lastPath = Path(f), !.fds = @ + 1]
    IN  IF acc.lastPath # Path(f) /\ (Path(f) \in disk.gone \/ bad = <<"open", Path(f)>>)
        THEN GiveUp(reset)
        ELSE IF bad = <<"read", Path(f)>> \/ (Path(f) \in disk.cut /\ off + to_read > f.size \div 2)
        THEN GiveUp([opened EXCEPT !.lastPath = None, !.fds = @ - 1])
        ELSE Take(opened, Path(f), off, to_read)

\* VIsoFile: open, seek, read, close; anything that is missing gives up.
ReadFileOnce(acc, f, bad) ==
    LET to_read == Smaller(fEnd(f) - acc.ptr, acc.left)
        off == acc.ptr - fStart(f)
    IN  IF \/ bad \in {<<"open", Path(f)>>, <<"read", Path(f)>>}
           \/ Path(f) \in disk.gone
           \/ Path(f) \in disk.cut /\ off + to_read > f.size \div 2
        THEN GiveUp(acc)
        ELSE Take(acc, Path(f), off, to_read)

\* Mutant: no zeros between the files.
FillNothing(acc, f) == acc

\* The zeros from the end of a file to the end of its sector.
FillSector(acc, f) ==
    IF acc.stop \/ acc.left = 0 THEN acc
    ELSE Take(acc, "zero", 0, Smaller(fEndSector(f) - acc.ptr, acc.left))

\* One turn of the loop over all files.
ReadListed(acc, f, bad) ==
    IF acc.stop \/ acc.ptr < fStart(f) \/ acc.ptr >= fEndSector(f) THEN acc
    ELSE IF f.multipart THEN GiveUp(acc)
    ELSE LET data == IF acc.ptr >= fEnd(f) THEN acc
                     ELSE IF twin = "VIsoFile2" THEN ReadFileCached(acc, f, bad)
                     ELSE ReadFileOnce(acc, f, bad)
             filled == FillSector(data, f)
         IN  IF filled.left = 0 THEN [filled EXCEPT !.stop = TRUE] ELSE filled

\* read(nbyte), when the system call `bad` fails
ReadImage(nbyte, bad) ==
    LET start == [ptr |-> vFilePtr, left |-> nbyte, segs |-> << >>, stop |-> FALSE, failed |-> FALSE,
                  lastPath |-> lastPath, fds |-> fds]
        ram == IF vFilePtr < fsBuf.fsBufSize
               THEN Take(start, "fsBuf", vFilePtr, Smaller(fsBuf.fsBufSize - vFilePtr, nbyte))
               ELSE start
        listed == IF ram.left = 0 \/ ram.ptr >= fsBuf.padAreaStart THEN ram
                  ELSE LET upto[i \in 0 .. Len(Files)] ==
                               IF i = 0 THEN ram ELSE ReadListed(upto[i - 1], Files[i], bad)
                       IN  upto[Len(Files)]
    IN  IF listed.stop \/ listed.left = 0 \/ listed.ptr < fsBuf.padAreaStart THEN listed
        ELSE Take(listed, "zero", 0,
                  Smaller(fsBuf.padAreaSize - (listed.ptr - fsBuf.padAreaStart), listed.left))

\* The descriptor that is kept is closed, if there is one.
fd_reset == lastPath' = None /\ fds' = IF lastPath = None THEN fds ELSE fds - 1

BadCalls == {None} \cup ({"open", "read"} \X {Path(Files[i]) : i \in 1 .. Len(Files)})

\* A read of nbyte bytes with its result; read() returns early at the end of
\* the image and for a pointer before its start (fd_reset() in VIsoFile2).
Read(nbyte, bad) ==
    IF vFilePtr >= fsBuf.totalSize \/ nbyte = 0
    THEN /\ bad = None
         /\ result' = [NoResult EXCEPT !.at = vFilePtr, !.want = nbyte]
         /\ UNCHANGED <<vFilePtr, lastPath, fds>>
    ELSE IF vFilePtr < 0
    THEN /\ bad = None
         /\ result' = [NoResult EXCEPT !.at = vFilePtr, !.want = nbyte, !.n = -1]
         /\ fd_reset
         /\ UNCHANGED vFilePtr
    ELSE LET acc == ReadImage(nbyte, bad)
         IN  /\ result' = [at |-> vFilePtr, want |-> nbyte, n |-> acc.ptr - vFilePtr,
                           failed |-> acc.failed, segs |-> acc.segs]
             /\ vFilePtr' = acc.ptr /\ lastPath' = acc.lastPath /\ fds' = acc.fds
             /\ bad # None => acc.failed

-----------------------------------------------------------------------------
(* The console's session *)

\* The offsets at which something begins or ends, and those beside them.
Edges ==
    LET at == {0, fsBuf.fsBufSize, fsBuf.padAreaStart, fsBuf.totalSize}
              \cup UNION {{fEnd(Files[i]), fEndSector(Files[i])} : i \in 1 .. Len(Files)}
    IN  UNION {{a - 1, a} : a \in at}

\* Mutant: nobody calls fstat().
OpenedUnchecked ==
    /\ use = "opening"
    /\ \/ pc \in {"ready", "hollow"} /\ client = "console" /\ use' = "serving"
       \/ pc \in {"failed", "crashed"} /\ use' = "over"
    /\ UNCHANGED <<buildVars, twin, client, vFilePtr, lastPath, fds, disk, result, reads, output>>

\* process_open_cmd() and create_iso(): open(), then fstat(), which fails if
\* there is no image; create_iso() also creates the output file.  The object
\* is deleted if one of them fails.
Opened ==
    /\ use = "opening"
    /\ \/ pc = "ready" /\ client = "console" /\ use' = "serving"
       \/ pc = "ready" /\ client = "create_iso" /\ use' \in {"dumping", "over"}
       \/ pc \in {"failed", "hollow", "crashed"} /\ use' = "over"
    /\ UNCHANGED <<buildVars, twin, client, vFilePtr, lastPath, fds, disk, result, reads, output>>

seek(offset, whence) ==
    CASE whence = "SEEK_SET" -> offset
      [] whence = "SEEK_CUR" -> vFilePtr + offset
      [] whence = "SEEK_END" -> fsBuf.totalSize + offset

Seek ==
    /\ use = "serving"
    /\ \E to \in Edges :
          vFilePtr' \in {seek(to, "SEEK_SET"), seek(to - vFilePtr, "SEEK_CUR"),
                         seek(to - fsBuf.totalSize, "SEEK_END")}
    /\ reads' = 0 /\ result' = NoResult
    /\ UNCHANGED <<buildVars, twin, client, use, lastPath, fds, disk, output>>

ConsoleRead ==
    /\ use = "serving" /\ reads < MaxReads
    /\ \E nbyte \in Lengths, bad \in BadCalls : Read(nbyte, bad)
    /\ reads' = reads + 1
    /\ UNCHANGED <<buildVars, twin, client, use, disk, output>>

\* Someone cuts a file or removes it while the image is open.
ChangeFile ==
    /\ use \in {"serving", "dumping"}
    /\ disk.cut = {} /\ disk.gone = {}
    /\ \E i \in {j \in 1 .. Len(Files) : Files[j].name.stem \in Volatile} :
          \/ disk' = [disk EXCEPT !.cut = {Path(Files[i])}]
          \/ disk' = [disk EXCEPT !.gone = {Path(Files[i])}]
    /\ UNCHANGED <<buildVars, twin, client, use, vFilePtr, lastPath, fds, result, reads, output>>

\* Where write_file() puts its bytes: behind those that the last one has
\* written, which may be none (-1 or 0).
Reached(out) ==
    IF out = << >> THEN 0
    ELSE Last(out).to + IF Last(out).written > 0 THEN Last(out).written ELSE 0

\* Mutant: the rest of the image is read and written as a whole buffer, too.
DumpWhole ==
    /\ use = "dumping"
    /\ LET offset == Len(output) * DUMP_SIZE
       IN  /\ Read(DUMP_SIZE, None)
           /\ output' = Append(output, [at |-> offset, want |-> DUMP_SIZE, from |-> result'.at,
                                        n |-> result'.n, failed |-> result'.failed,
                                        to |-> Reached(output), written |-> DUMP_SIZE])
           /\ use' = IF offset + DUMP_SIZE >= fsBuf.totalSize THEN "dumped" ELSE "dumping"
    /\ UNCHANGED <<buildVars, twin, client, disk, reads>>

\* create_iso(): the next buf_size bytes of the image, or the rest of them, are
\* read and written; nobody looks at what read() and write_file() return.
Dump ==
    /\ use = "dumping"
    /\ LET offset == IF output = << >> THEN 0 ELSE Last(output).at + Last(output).want
           size == Smaller(DUMP_SIZE, fsBuf.totalSize - offset)
       IN  /\ \E bad \in BadCalls : Read(size, bad)
           /\ \E written \in {-1, size - 1, size} :
                 /\ \/ written = size
                    \/ Cardinality({i \in 1 .. Len(output) : output[i].written # output[i].want}) < MaxShort
                 /\ output' = Append(output, [at |-> offset, want |-> size,
                                              from |-> result'.at, n |-> result'.n,
                                              failed |-> result'.failed,
                                              to |-> Reached(output), written |-> written])
           /\ use' = IF offset + size = fsBuf.totalSize THEN "dumped" ELSE "dumping"
    /\ UNCHANGED <<buildVars, twin, client, disk, reads>>

\* The destructor: close() and reset(), with fd_reset() in VIsoFile2.
Delete ==
    /\ use \in {"serving", "dumped"} \/ (use = "over" /\ pc \in {"ready", "failed", "hollow"})
    /\ Reset /\ pc' = "deleted" /\ vFilePtr' = 0
    /\ fd_reset
    /\ use' = "over" /\ result' = NoResult /\ reads' = 0
    /\ UNCHANGED <<tree, cur, faults, twin, client, disk, output>>

Over == use = "over" /\ pc \in {"deleted", "crashed"} /\ UNCHANGED vars

Next ==
    \/ BuildNext /\ UNCHANGED readVars
    \/ Opened \/ Seek \/ ConsoleRead \/ ChangeFile \/ Dump \/ Delete \/ Over

Spec == Init /\ [][Next]_vars

-----------------------------------------------------------------------------
(* Properties *)

\* What open() has set when there is an image.
AreaKinds == {"header", "pathTableL", "pathTableM", "pathTableJolietL", "pathTableJolietM"} \cup FS
AreaSet == [what : AreaKinds, dir : Nat, at : Nat, len : Nat]
Images ==
    [areas : Seq(AreaSet),
     pvd : [FS -> [root : [start : Int, length : Int], pathTableL : Nat, pathTableM : Nat]],
     fsBufSize : Nat, padAreaStart : Nat, padAreaSize : Nat, totalSize : Nat]

\* Types; an image that was handed out has something to read from, even when
\* open() succeeded without one.
VIsoTypeOK ==
    /\ pc \in {"open", "dirs", "files", "iso", "joliet", "tables", "fix", "write",
               "ready", "hollow", "failed", "crashed", "deleted"}
    /\ use \in {"opening", "serving", "dumping", "dumped", "over"}
    /\ cur \in 0 .. Len(tree.dirs) /\ filesSizeSectors \in Nat /\ dirsSizeSectors \in [FS -> Nat]
    /\ vFilePtr \in Int /\ fds \in Nat /\ reads \in 0 .. MaxReads
    /\ use \in {"serving", "dumping", "dumped"} => fsBuf \in Images

\* What a segment says is in the image at its place: the file system, the
\* bytes of a file from where the image has that file, or zeros where no
\* file is.
RightSegment(s) ==
    CASE s.from = "fsBuf" -> s.off = s.at /\ s.at + s.len <= fsBuf.fsBufSize
      [] s.from = "zero" ->
            \/ fsBuf.padAreaStart <= s.at /\ s.at + s.len <= fsBuf.totalSize
            \/ \E i \in 1 .. Len(Files) : fEnd(Files[i]) <= s.at /\ s.at + s.len <= fEndSector(Files[i])
      [] OTHER ->
            \E i \in 1 .. Len(Files) :
                /\ s.from = Path(Files[i]) /\ s.at = fStart(Files[i]) + s.off
                /\ s.off + s.len <= Files[i].size

\* Any read from any place returns what the image has there, in order and
\* without gaps, and all of it up to the end of the image; it stops short
\* only at a file that can no longer be read, and never makes anything up for
\* it (VIsoFile::read() of both twins).
ReadsImage ==
    use # "over" /\ result.n > 0 =>
        /\ \A i \in 1 .. Len(result.segs) : RightSegment(result.segs[i])
        /\ result.segs[1].at = result.at
        /\ \A i \in 2 .. Len(result.segs) :
              result.segs[i].at = result.segs[i - 1].at + result.segs[i - 1].len
        /\ Last(result.segs).at + Last(result.segs).len = result.at + result.n
        /\ ~result.failed => result.n = Smaller(result.want, fsBuf.totalSize - result.at)

\* Between two calls the image has the one descriptor that lastPath stands for
\* or none, whatever failed, and none when it is deleted (fd_reset()).
DescriptorKept ==
    /\ fds = (IF lastPath = None THEN 0 ELSE 1)
    /\ twin = "VIsoFile" \/ pc = "deleted" => fds = 0

\* The read and the write of a block have done what they were asked for.
Done(x) == ~x.failed /\ x.written = x.want

\* Up to the first read that fails and the first write that fails or is short,
\* create_iso() takes every block of the image from where it is and puts it at
\* the same place of the file, and if none does the file is the image up to its
\* end.  After such a read or write it goes on, and says nothing: with what is
\* left in the buffer, and with the rest in the wrong place.
DumpRight ==
    /\ \A i \in 1 .. Len(output) :
          (\A j \in 1 .. i - 1 : Done(output[j])) =>
              /\ output[i].from = output[i].at /\ output[i].to = output[i].at
              /\ ~output[i].failed => output[i].n = output[i].want
    /\ use = "dumped" /\ (\A i \in 1 .. Len(output) : Done(output[i])) =>
          Last(output).to + Last(output).written = fsBuf.totalSize
=============================================================================
