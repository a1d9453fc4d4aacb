--------------------------- MODULE VIsoInvariants ---------------------------
(***************************************************************************)
(* What is true of a virtual image at each point of open() and while it is *)
(* read, for any folder; VIsoRead_proofs has the proofs.                   *)
(*                                                                         *)
(* BuildInv says what open() has made of the list of directories: the      *)
(* files lie one behind the other, and the image is the file system, the   *)
(* files and the padding.  ReadInv adds what a read leaves behind for the  *)
(* next one and what create_iso() has written.                             *)
(*                                                                         *)
(* ImageInv is about the image as a file system: each directory is in the  *)
(* list once, behind its parent (Enlisted), the records of the directories *)
(* that have been done lead to their directories and files (Recorded,      *)
(* Known), the path tables have what fits in them (Tabled), and in the end *)
(* everything is in fsBuf, where the records say (Imaged).  Ended says     *)
(* what becomes of a folder: it is built or refused for a reason.          *)
(***************************************************************************)
EXTENDS VIsoRead, Recursion

-----------------------------------------------------------------------------
(* Files, records and directories *)

IsPath(p) == p # None /\ p # "fsBuf" /\ p # "zero"
FileSet ==
    {f \in [dir : Nat, name : Names, size : Nat, multipart : BOOLEAN, rlba : Nat] : IsPath(Path(f))}
Stems == STRING \cup {".", ".."}
Ids == [stem : Stems, lower : BOOLEAN, len : Nat, ver : Nat]
RecSet == [id : Ids, flag : {"dir", "file", "more"}, start : Int, length : Int,
           pos : Nat, len : 0 .. 255, whole : BOOLEAN]

\* The first sector behind a file.
Behind(f) == f.rlba + bytesToSectors(f.size)

\* The same record, wherever it is in its directory and wherever it leads.
SameRecord(r, s) == r.id = s.id /\ r.flag = s.flag /\ r.len = s.len /\ r.whole = s.whole

DirSet == [src : Nat, parent : Nat, children : Seq(Nat), files : Seq(FileSet),
           content : [FS -> Seq(RecSet)], size : [FS -> Nat]]

-----------------------------------------------------------------------------
(* The list of directories and the files *)

\* Every directory of the list is one of the folder, and its parent and its
\* directories are in the list.
Linked ==
    /\ dirList \in Seq(DirSet)
    /\ \A k \in 1 .. Len(dirList) :
          /\ dirList[k].src \in 1 .. Len(tree.dirs) /\ dirList[k].parent \in 1 .. k
          /\ \A i \in 1 .. Len(dirList[k].children) : dirList[k].children[i] \in 1 .. Len(dirList)

Counted == filesSizeSectors \in Nat /\ dirsSizeSectors \in [FS -> Nat]

\* How far the loops over the list have come.
Loops ==
    /\ pc \in {"dirs", "files", "iso", "joliet"} => cur \in 1 .. Len(dirList)
    /\ pc \in FS => \A k \in 1 .. cur - 1 : dirList[k].content[pc] # << >>
    /\ pc \in {"open", "dirs"} => filesSizeSectors = 0
    /\ pc = "dirs" => \A k \in 1 .. Len(dirList) : dirList[k].files = << >>
    /\ pc = "files" => \A k \in cur .. Len(dirList) : dirList[k].files = << >>

\* The files follow each other without a gap, over all directories.
Packed ==
    /\ \A i \in 1 .. Len(Files) : Files[i].rlba = IF i = 1 THEN 0 ELSE Behind(Files[i - 1])
    /\ filesSizeSectors = IF Files = << >> THEN 0 ELSE Behind(Files[Len(Files)])

\* The file system, the files and the padding are what the image consists of.
Image ==
    pc = "ready" =>
        /\ \E n \in Nat : fsBuf.fsBufSize = n * SECTOR_SIZE
        /\ fsBuf.padAreaStart = fsBuf.fsBufSize + filesSizeSectors * SECTOR_SIZE
        /\ fsBuf.padAreaSize \in Nat \ {0}
        /\ fsBuf.totalSize = fsBuf.padAreaStart + fsBuf.padAreaSize

BuildInv == tree \in Trees /\ Linked /\ Counted /\ Loops /\ Packed /\ Image

-----------------------------------------------------------------------------
(* The image in use *)

StartOf(f, buf) == buf.fsBufSize + f.rlba * SECTOR_SIZE
EndOf(f, buf) == StartOf(f, buf) + f.size
EndSectorOf(f, buf) == RoundUp(EndOf(f, buf))

Paths == {Path(f) : f \in FileSet}
SegSet == [from : {"fsBuf", "zero"} \cup Paths, at : Nat, off : Nat, len : Nat]

RightOf(s, buf, files) ==
    \/ s.from = "fsBuf" /\ s.off = s.at /\ s.at + s.len <= buf.fsBufSize
    \/ /\ s.from = "zero"
       /\ \/ buf.padAreaStart <= s.at /\ s.at + s.len <= buf.totalSize
          \/ \E i \in 1 .. Len(files) :
                EndOf(files[i], buf) <= s.at /\ s.at + s.len <= EndSectorOf(files[i], buf)
    \/ \E i \in 1 .. Len(files) :
          /\ IsPath(s.from) /\ s.from = Path(files[i]) /\ s.at = StartOf(files[i], buf) + s.off
          /\ s.off + s.len <= files[i].size

\* Segments that follow each other from a to b, each from the right source.
Covers(segs, a, b, buf, files) ==
    /\ segs \in Seq(SegSet) /\ Len(segs) \in Nat
    /\ \A i \in 1 .. Len(segs) : RightOf(segs[i], buf, files)
    /\ Len(segs) = 0 => a = b
    /\ Len(segs) # 0 => segs[1].at = a /\ segs[Len(segs)].at + segs[Len(segs)].len = b
    /\ \A i \in 2 .. Len(segs) : segs[i].at = segs[i - 1].at + segs[i - 1].len

\* The descriptor that lastPath stands for is the one that is open; there is
\* none between two reads of VIsoFile.
OneDescriptor(path, n) ==
    n = (IF path = None THEN 0 ELSE 1) /\ (twin # "VIsoFile2" => path = None)

InUse == {"serving", "dumping", "dumped"}

\* What a read has returned is what the image has there.
Right(r, buf, files) ==
    r.n > 0 => /\ r.at \in Int /\ r.n \in Int
               /\ Covers(r.segs, r.at, r.at + r.n, buf, files)
               /\ ~r.failed => r.n = Smaller(r.want, buf.totalSize - r.at)

\* Nothing has been read or kept before an image is opened, and nothing is
\* kept after it is deleted.
Kept ==
    /\ use \in InUse \cup {"opening", "over"}
    /\ use \in InUse => pc = "ready"
    /\ use = "opening" => result = NoResult /\ output = << >> /\ vFilePtr = 0 /\ lastPath = None
    /\ pc = "deleted" => lastPath = None
    /\ vFilePtr \in Int /\ lastPath \in {None} \cup Paths /\ OneDescriptor(lastPath, fds)

\* The blocks that create_iso() has written.
OutSet == [at : Nat, want : Nat, from : Int, n : Int, failed : BOOLEAN, to : Int, written : Int]
DoneTo(out, k) == \A j \in 1 .. k : Done(out[j])
InItsPlace(x) == x.from = x.at /\ x.to = x.at /\ (~x.failed => x.n = x.want)
Exact(out) == \A i \in 1 .. Len(out) : DoneTo(out, i - 1) => InItsPlace(out[i])
Offset(out) == IF out = << >> THEN 0 ELSE out[Len(out)].at + out[Len(out)].want

Dumped ==
    /\ output \in Seq(OutSet)
    /\ Exact(output)
    /\ use = "dumping" => Offset(output) < fsBuf.totalSize
    /\ use = "dumped" => output # << >> /\ Offset(output) = fsBuf.totalSize
    /\ use = "dumping" /\ DoneTo(output, Len(output)) =>
          vFilePtr = Offset(output) /\ Reached(output) = Offset(output)

ReadInv == BuildInv /\ Kept /\ Dumped /\ (use # "over" => Right(result, fsBuf, Files))

-----------------------------------------------------------------------------
(* The list has every directory once *)

\* Every directory of the list is in it once, behind its parent, which has it
\* among its children.
ChildOf(L, k, c) == \E i \in 1 .. Len(L[k].children) : L[k].children[i] = c
ListOnce(L, t) ==
    /\ Len(L) >= 1 => L[1].src = 1 /\ L[1].parent = 1
    /\ \A j, k \in 1 .. Len(L) : L[j].src = L[k].src => j = k
    /\ \A k \in 2 .. Len(L) :
          /\ L[k].src # 1 /\ L[k].parent \in 1 .. k - 1
          /\ t.dirs[L[k].src].up = L[L[k].parent].src
          /\ ChildOf(L, L[k].parent, k)
    /\ \A k \in 1 .. Len(L) : \A i, j \in 1 .. Len(L[k].children) :
          /\ L[k].children[i] \in 2 .. Len(L) /\ L[L[k].children[i]].parent = k
          /\ L[k].children[i] = L[k].children[j] => i = j

\* All directories in the k-th directory are in the list.
Complete(L, t, k) ==
    \A c \in 2 .. Len(t.dirs) : t.dirs[c].up = L[k].src => \E j \in 1 .. Len(L) : L[j].src = c

Building == {"files", "iso", "joliet", "tables", "fix", "write", "ready"}

Enlisted ==
    /\ ListOnce(dirList, tree)
    /\ pc = "dirs" =>
          /\ Len(dirList) >= 1
          /\ \A k \in 2 .. Len(dirList) : dirList[k].parent < cur
          /\ \A k \in cur .. Len(dirList) : dirList[k].children = << >>
          /\ \A k \in 1 .. cur - 1 : Complete(dirList, tree, k)
    /\ pc \in Building => Len(dirList) >= 1 /\ \A k \in 1 .. Len(dirList) : Complete(dirList, tree, k)
    /\ cur \in 0 .. Len(tree.dirs)

-----------------------------------------------------------------------------
(* The records of all directories *)

\* The offset e is in sector q, and not at its start.
In(e, q) == \E r \in 1 .. SECTOR_SIZE - 1 : e = SECTOR_SIZE * q + r

\* The records of a directory, each in one sector and behind the one before.
InPlace(recs) ==
    /\ \A i \in 1 .. Len(recs) :
          \E q \in 0 .. i - 1 : In(recs[i].pos + recs[i].len, q) /\ recs[i].pos \div SECTOR_SIZE = q
    /\ \A i \in 1 .. Len(recs) - 1 : Follows(recs[i], recs[i + 1])

\* A directory has its own record, that of its parent, those of its files and
\* those of the directories in it.
Shaped(R, F, C) ==
    /\ Len(R) = 2 + Len(F) + Len(C)
    /\ R[1].id = Self /\ R[1].flag = "dir" /\ R[2].id = Up /\ R[2].flag = "dir"
    /\ \A i \in 1 .. Len(F) : SameRecord(R[2 + i], F[i])
    /\ \A i \in 1 .. Len(C) : SameRecord(R[2 + Len(F) + i], C[i])
    /\ InPlace(R)

\* The records of a list of files.
FileRecs(fs, files) == FlattenSeq([i \in 1 .. Len(files) |-> FileRecords(fs, files[i])])

\* The list of directories, as one of the two file systems shows it.
View(L, fs) ==
    [k \in 1 .. Len(L) |->
        [src |-> L[k].src, parent |-> L[k].parent, children |-> L[k].children, files |-> L[k].files,
         recs |-> L[k].content[fs], size |-> L[k].size[fs]]]

NameOf(V, t, c) == t.dirs[V[c].src].name
SubRecs(fs, V, t, k) ==
    [i \in 1 .. Len(V[k].children) |-> Record(fs, DirId(fs, NameOf(V, t, V[k].children[i])), "dir", 0, 0)]
RecsEnd(R) == R[Len(R)].pos + R[Len(R)].len

\* The first n directories have the records they should have.
Laid(V, t, fs, n) ==
    \A k \in 1 .. n : /\ Shaped(V[k].recs, FileRecs(fs, V[k].files), SubRecs(fs, V, t, k))
                      /\ V[k].size = RoundUp(RecsEnd(V[k].recs))

\* They lie one behind the other from sector b on; . and .. lead to where the
\* directory and its parent are.
SectorsOf(V) == [k \in 1 .. Len(V) |-> bytesToSectors(V[k].size)]
Numbered(V, n, b, total) ==
    \E f : /\ IsSum(f, n, 0, SectorsOf(V)) /\ total = f[n]
           /\ \A k \in 1 .. n :
                 LET R == V[k].recs
                     p == V[k].parent
                 IN  /\ R[1].start = b + f[k - 1] /\ R[1].length = V[k].size
                     /\ R[2].start = b + f[p - 1] /\ R[2].length = V[p].size

\* The record of the i-th directory in a directory.
Spot(fs, V, k, i) == 2 + Len(FileRecs(fs, V[k].files)) + i

\* It leads to where this directory is, unless another has been taken for it
\* or it for another.
Leads(V, t, fs, k, i) ==
    LET R == V[k].recs
        o == Spot(fs, V, k, i)
        c == V[k].children[i]
    IN  \/ R[o].start = V[c].recs[1].start /\ R[o].length = V[c].size
        \/ \E j \in 3 .. Len(R) : j # o /\ R[j].id = CheckId(fs, NameOf(V, t, c))
        \/ \E x \in 1 .. Len(V[k].children) :
              x # i /\ R[o].id = CheckId(fs, NameOf(V, t, V[k].children[x]))
Led(V, t, fs, n) ==
    \A k \in 1 .. n : \A i \in 1 .. Len(V[k].children) : V[k].children[i] <= n => Leads(V, t, fs, k, i)

\* The records of files lead to the files, which start at sector b, unless one
\* has been taken for that of a directory.
Filed(V, t, fs, n, b) ==
    \A k \in 1 .. n :
        LET F == FileRecs(fs, V[k].files)
            R == V[k].recs
        IN  \A i \in 1 .. Len(F) :
               \/ R[2 + i].start = F[i].start + b /\ R[2 + i].length = F[i].length
               \/ \E x \in 1 .. Len(V[k].children) :
                     R[2 + i].id = CheckId(fs, NameOf(V, t, V[k].children[x]))

Known(V, t, fs, n, b, fb, total) ==
    Laid(V, t, fs, n) /\ Numbered(V, n, b, total) /\ Led(V, t, fs, n) /\ Filed(V, t, fs, n, fb)

\* The directories that have been built have the records they should have.
RecordedIn(fs) ==
    /\ pc \in {"open", "dirs", "files"} \/ (pc = "iso" /\ fs = "joliet") => dirsSizeSectors[fs] = 0
    /\ pc = fs => Known(View(dirList, fs), tree, fs, cur - 1, 0, 0, dirsSizeSectors[fs])
    /\ pc \in {"tables", "fix"} \/ (pc = "joliet" /\ fs = "iso") =>
          Known(View(dirList, fs), tree, fs, Len(dirList), 0, 0, dirsSizeSectors[fs])
    /\ pc \in {"write", "ready"} =>
          Known(View(dirList, fs), tree, fs, Len(dirList), dirLba(fs), filesLba, dirsSizeSectors[fs])

\* Directories with longer names have no record in Joliet that can be found.
ShortNames(k) == \A c \in 2 .. k : tree.dirs[dirList[c].src].name.len < 108
Recorded ==
    /\ \A fs \in FS : RecordedIn(fs)
    /\ pc = "joliet" => ShortNames(cur - 1)
    /\ pc \in {"tables", "fix", "write", "ready"} => ShortNames(Len(dirList))

-----------------------------------------------------------------------------
(* The path tables and the image *)

\* A path table has the first directories of the list, in their order.
EntrySet == [id : Ids, start : Int, parentDN : Nat]
TableIs(T, L, t, fs) ==
    /\ T \in Seq(EntrySet) /\ Len(T) = Smaller(Len(L), UINT16)
    /\ \A i \in 1 .. Len(T) :
          /\ T[i].id = (IF i = 1 THEN Self ELSE DirId(fs, t.dirs[L[i].src].name))
          /\ T[i].start = L[i].content[fs][1].start /\ T[i].parentDN = L[i].parent % UINT16
Tabled == pc \in {"fix", "write", "ready"} => \A fs \in FS : TableIs(pathTable[fs], dirList, tree, fs)

\* What write() has put where: a header, the path tables of a and of b sectors,
\* twice each, and the directories of the list, one behind the other.
IsArea(x, what, d, len) == x.what = what /\ x.dir = d /\ x.len = len
AreasAre(A, L, a, b) ==
    /\ A \in Seq(AreaSet) /\ Len(A) = 5 + 2 * Len(L)
    /\ IsArea(A[1], "header", 0, HEADER_SECTORS * SECTOR_SIZE)
    /\ IsArea(A[2], "pathTableL", 0, a * SECTOR_SIZE) /\ IsArea(A[3], "pathTableM", 0, a * SECTOR_SIZE)
    /\ IsArea(A[4], "pathTableJolietL", 0, b * SECTOR_SIZE) /\ IsArea(A[5], "pathTableJolietM", 0, b * SECTOR_SIZE)
    /\ \A d \in 1 .. Len(L) : /\ IsArea(A[5 + d], "iso", d, L[d].size["iso"])
                              /\ IsArea(A[5 + Len(L) + d], "joliet", d, L[d].size["joliet"])
    /\ \A i \in 1 .. Len(A) : A[i].at = IF i = 1 THEN 0 ELSE A[i - 1].at + A[i - 1].len

\* The volume descriptors, and the sizes of an image with its files from sector
\* lba on, in fss sectors.
PvdsAre(pvd, L, a, b) ==
    /\ \A fs \in FS : /\ pvd[fs].root.start = L[1].content[fs][1].start
                      /\ pvd[fs].root.length = L[1].content[fs][1].length
    /\ pvd["iso"].pathTableL = HEADER_SECTORS /\ pvd["iso"].pathTableM = HEADER_SECTORS + a
    /\ pvd["joliet"].pathTableL = HEADER_SECTORS + 2 * a
    /\ pvd["joliet"].pathTableM = HEADER_SECTORS + 2 * a + b
SizesAre(buf, lba, fss) ==
    /\ buf.fsBufSize = lba * SECTOR_SIZE
    /\ buf.padAreaStart = (lba + fss) * SECTOR_SIZE
    /\ buf.padAreaSize = PadSectors(lba + fss) * SECTOR_SIZE
    /\ buf.totalSize = (lba + fss + PadSectors(lba + fss)) * SECTOR_SIZE
ImageIs(buf, L, a, b, lba, fss) ==
    buf \in Images /\ AreasAre(buf.areas, L, a, b) /\ PvdsAre(buf.pvd, L, a, b) /\ SizesAre(buf, lba, fss)
Imaged ==
    pc = "ready" =>
        ImageIs(fsBuf, dirList, TableSectors("iso"), TableSectors("joliet"), filesLba, filesSizeSectors)

Steps == {"open", "dirs", "files", "iso", "joliet", "tables", "fix", "write",
          "ready", "hollow", "failed", "crashed", "deleted"}
ImageInv == Enlisted /\ Recorded /\ Tabled /\ Imaged /\ pc \in Steps /\ reads \in 0 .. MaxReads

-----------------------------------------------------------------------------
(* What becomes of a folder *)

\* The directories of a folder, as they are scanned for.
SubsOf(t, d) ==
    scandir([c \in 1 .. Len(t.dirs) |-> c], {c \in 2 .. Len(t.dirs) : t.dirs[c].up = d})
FewKids(L, t) == \A k \in 1 .. Len(L) : Len(L[k].children) <= Len(SubsOf(t, L[k].src))

\* A list has the files that scandir() has found.
SameFiles(list, files) ==
    /\ Len(list) = Len(files)
    /\ \A i \in 1 .. Len(files) :
          /\ list[i].name = files[i].name /\ list[i].size = files[i].size
          /\ list[i].multipart = (files[i].part = "first")

\* The first n directories have the files that were found in them.
FilesScanned(L, t, n) == \A k \in 1 .. n : SameFiles(L[k].files, Listed(t.files[L[k].src]))

\* What has become of the folder so far.
Stopped == {"failed", "hollow", "crashed"}
Built == {"iso", "joliet", "tables", "fix", "write", "ready"}
Ended ==
    /\ FewKids(dirList, tree)
    /\ pc = "files" /\ "scandir_files" \notin faults => FilesScanned(dirList, tree, cur - 1)
    /\ pc \in Built /\ "scandir_files" \notin faults => FilesScanned(dirList, tree, Len(dirList))
    /\ pc \in Stopped /\ faults = {} => Unsupported
=============================================================================
