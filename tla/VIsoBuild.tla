----------------------------- MODULE VIsoBuild -----------------------------
(***************************************************************************)
(* VIsoFile::open(): an ISO image with the files of a folder, of which     *)
(* only the file system (volume descriptors, path tables and directories,  *)
(* once as ISO 9660 and once as Joliet) is built, in memory.  build()      *)
(* lists the folder, writes the records of each directory with sector      *)
(* numbers that count from the start of their area, and shifts all of them *)
(* when the sizes of the areas are known; write() copies what has been     *)
(* built to where these numbers say it is.                                 *)
(*                                                                         *)
(* A name is the first len characters of stem, in lower case or not; names *)
(* are in ASCII.  Times, titles and the other texts of the descriptors are *)
(* left out.  Any system call may fail.                                    *)
(***************************************************************************)
EXTENDS Integers, Sequences, SequencesExt

CONSTANTS
    Trees,                  \* the folders that may be opened
    SECTOR_SIZE,            \* 0x800
    TEMP_BUF_SIZE,          \* the room for one directory or one path table
    MULTIEXTENT_PART_SIZE,  \* 0xFFFFF800
    UINT32,                 \* 2^32
    UINT16,                 \* 2^16
    None                    \* NULL

ASSUME SectorAssumption == SECTOR_SIZE \in Nat /\ SECTOR_SIZE >= 256
ASSUME ExtentAssumption ==
    /\ MULTIEXTENT_PART_SIZE \in Nat \ {0} /\ MULTIEXTENT_PART_SIZE % SECTOR_SIZE = 0
    /\ UINT32 = MULTIEXTENT_PART_SIZE + SECTOR_SIZE
ASSUME NumberAssumption == UINT16 \in Nat /\ UINT16 >= 2
ASSUME TempBufAssumption == TEMP_BUF_SIZE \in Nat /\ TEMP_BUF_SIZE % SECTOR_SIZE = 0

\* The filters pass over . and .., and a directory is numbered after the one
\* it is in.
Names == [stem : STRING \ {".", ".."}, lower : BOOLEAN, len : Nat]
ASSUME TreesAssumption ==
    \A t \in Trees :
        /\ t.dirs \in Seq([name : Names, up : Nat]) /\ t.dirs # << >>
        /\ \A d \in 2 .. Len(t.dirs) : t.dirs[d].up \in 1 .. d - 1
        /\ t.files \in [1 .. Len(t.dirs) ->
                          Seq([name : Names, size : Nat, part : {"plain", "first", "other"}])]

VARIABLES
    tree,       \* the folder: its directories (the first is the root, each
                \* has a name and the directory it is in) and their files
    pc,         \* what open() is at; at the end "ready", "hollow", "failed" or "crashed"
    dirList,    \* rootList: a directory's idx is its place in this list
    cur,        \* the directory a loop over the list is at
    filesSizeSectors, dirsSizeSectors,
    pathTable,
    fsBuf,      \* what write() has put where, and the sizes that generate() set
    faults      \* the system calls that have failed so far

buildVars == <<tree, pc, dirList, cur, filesSizeSectors, dirsSizeSectors, pathTable, fsBuf, faults>>

FS == {"iso", "joliet"}
MAX_ISONAME == 207
MAX_ISODIR == 254
HEADER_SECTORS == 20        \* 0xA000 / SECTOR_SIZE

Smaller(a, b) == IF a < b THEN a ELSE b
bytesToSectors(size) == (size + SECTOR_SIZE - 1) \div SECTOR_SIZE
Even(n) == n + (n % 2)
RoundUp(size) == bytesToSectors(size) * SECTOR_SIZE

-----------------------------------------------------------------------------
(* The folder, as scandir() shows it *)

\* The entries in the places that a filter keeps.  alphasort(): names are taken
\* to be sorted already.
scandir(list, keep) ==
    LET upto[i \in 0 .. Len(list)] ==
            IF i = 0 THEN << >>
            ELSE IF i \in keep THEN Append(upto[i - 1], list[i]) ELSE upto[i - 1]
    IN  upto[Len(list)]

select_directories(d) ==
    scandir([c \in 1 .. Len(tree.dirs) |-> c], {c \in 2 .. Len(tree.dirs) : tree.dirs[c].up = d})
select_files(d) == tree.files[d]

\* A name that ends in .66600 is the first part of a file, .66601 to .66699
\* are the others: they are passed over.
Listed(files) == scandir(files, {i \in 1 .. Len(files) : files[i].part # "other"})

-----------------------------------------------------------------------------
(* Identifiers *)

strncpy_upper(name, n) ==
    [stem |-> name.stem, lower |-> FALSE, len |-> Smaller(name.len, n), ver |-> 0]

\* The first n characters of a name that is followed by ver characters of ";1".
utf8_to_ucs2(name, ver, n) ==
    [stem |-> name.stem, lower |-> name.lower, len |-> Smaller(name.len, n),
     ver |-> Smaller(ver, n - Smaller(name.len, n))]

FileId(fs, name) ==
    IF fs = "iso" THEN [strncpy_upper(name, MAX_ISONAME - 3) EXCEPT !.ver = 2]
                  ELSE utf8_to_ucs2(name, 2, MAX_ISONAME \div 2)
DirId(fs, name) ==
    IF fs = "iso" THEN strncpy_upper(name, MAX_ISODIR)
                  ELSE utf8_to_ucs2(name, 0, MAX_ISODIR \div 2)
\* What findDirRecord() looks for.
CheckId(fs, name) ==
    IF fs = "iso" THEN strncpy_upper(name, MAX_ISONAME - 3)
                  ELSE utf8_to_ucs2(name, 0, MAX_ISODIR \div 2)

Self == [stem |-> ".", lower |-> FALSE, len |-> 1, ver |-> 0]
Up == [stem |-> "..", lower |-> FALSE, len |-> 1, ver |-> 0]

len_fi(fs, id) == (id.len + id.ver) * (IF fs = "iso" THEN 1 ELSE 2)

-----------------------------------------------------------------------------
(* Directory records *)

\* A record before it has its place in the directory, of 0x27 bytes and its
\* identifier (0x28 for . and ..).  len_dr has eight bits:
\* of a record that is longer, only len bytes are copied, and nothing of it can
\* be found again.
Record(fs, id, flag, start, length) ==
    LET n == 39 + len_fi(fs, id)
    IN  [id |-> id, flag |-> flag, start |-> start, length |-> length, pos |-> 0,
         len |-> IF id \in {Self, Up} THEN 40 ELSE Even(n) % 256,
         whole |-> Even(n) < 256]

\* How many records a file has.
Extents(size) ==
    IF size >= UINT32 THEN (size + MULTIEXTENT_PART_SIZE - 1) \div MULTIEXTENT_PART_SIZE ELSE 1

\* The records of a file, more than one if its size has more than 32 bits;
\* i * MULTIEXTENT_PART_SIZE and the size in a record wrap.
FileRecords(fs, f) ==
    LET parts == Extents(f.size)
    IN  [i \in 1 .. parts |->
            Record(fs, FileId(fs, f.name), IF i < parts THEN "more" ELSE "file",
                   f.rlba + (i - 1) * bytesToSectors(MULTIEXTENT_PART_SIZE),
                   IF i < parts THEN MULTIEXTENT_PART_SIZE
                   ELSE (f.size - (((i - 1) * MULTIEXTENT_PART_SIZE) % UINT32)) % UINT32)]

\* Mutant: records may lie across a sector boundary.
PlaceAcross(offs, len) == offs

\* No record reaches the end of its sector.
Place(offs, len) ==
    IF offs \div SECTOR_SIZE < (offs + len) \div SECTOR_SIZE THEN RoundUp(offs) ELSE offs

\* One record after the other; ends[i] is where record i ends.
PlaceAll(records) ==
    LET ends[i \in 0 .. Len(records)] ==
            IF i = 0 THEN 0 ELSE Place(ends[i - 1], records[i].len) + records[i].len
    IN  [i \in 1 .. Len(records) |->
            [records[i] EXCEPT !.pos = Place(ends[i - 1], records[i].len)]]

\* The records that a loop over len_dr comes to: from the end of a record, or
\* from the gap after it to the next sector.
Follows(r, s) ==
    \/ s.pos = r.pos + r.len
    \/ s.pos = ((r.pos + r.len) \div SECTOR_SIZE + 1) * SECTOR_SIZE
Walked(records) ==
    {k \in 1 .. Len(records) : \A i \in 1 .. k - 1 : Follows(records[i], records[i + 1])}

\* Mutant: the first directory will do.
findDirRecordAny(id, records) ==
    LET found == {k \in Walked(records) : k > 2 /\ records[k].flag = "dir"}
    IN  IF found = {} THEN 0 ELSE Min(found)

\* The first record with this identifier, 0 if there is none.
findDirRecord(id, records) ==
    LET found == {k \in Walked(records) : records[k].id = id /\ records[k].whole}
    IN  IF found = {} THEN 0 ELSE Min(found)

-----------------------------------------------------------------------------
(* open() and generate() up to build() *)

BuildInit ==
    /\ tree \in Trees
    /\ pc = "open"
    /\ dirList = << >> /\ cur = 0
    /\ filesSizeSectors = 0 /\ dirsSizeSectors = [fs \in FS |-> 0]
    /\ pathTable = [fs \in FS |-> << >>]
    /\ fsBuf = None
    /\ faults = {}

listVars == <<dirList, cur, filesSizeSectors, dirsSizeSectors, pathTable>>

Fault(call) == faults' = faults \cup {call}
NoFault == UNCHANGED faults
Return(result) == pc' = result

NewDir(src, parent) ==
    [src |-> src, parent |-> parent, children |-> << >>, files |-> << >>,
     content |-> [fs \in FS |-> << >>], size |-> [fs \in FS |-> 0]]

\* In PS3 mode: there is no PARAM.SFO, or no title in it.
get_title_id == Fault("title") /\ Return("failed")

\* The folder is gone when generate() looks for it: FAILED is true, and open()
\* succeeds without an image.
GenerateFails == Fault("generate") /\ Return("hollow")

\* The path may be no directory at all.
Open ==
    /\ pc = "open"
    /\ \/ Fault("open") /\ Return("failed") /\ UNCHANGED <<dirList, cur>>
       \/ get_title_id /\ UNCHANGED <<dirList, cur>>
       \/ GenerateFails /\ UNCHANGED <<dirList, cur>>
       \/ NoFault /\ Return("dirs") /\ dirList' = <<NewDir(1, 1)>> /\ cur' = 1
    /\ UNCHANGED <<tree, filesSizeSectors, dirsSizeSectors, pathTable, fsBuf>>

-----------------------------------------------------------------------------
(* build() *)

\* On to the next directory of the list, after the last one to the next loop.
Advance(list, next) ==
    IF cur < Len(list) THEN cur' = cur + 1 /\ UNCHANGED pc ELSE cur' = 1 /\ pc' = next

\* Mutant: only the root is scanned for directories.
ScanDirsOnce ==
    /\ pc = "dirs"
    /\ LET subs == select_directories(1)
       IN  dirList' = [dirList EXCEPT ![1].children = [i \in 1 .. Len(subs) |-> 1 + i]]
                      \o [i \in 1 .. Len(subs) |-> NewDir(subs[i], 1)]
    /\ Return("files") /\ NoFault
    /\ UNCHANGED <<tree, cur, filesSizeSectors, dirsSizeSectors, pathTable, fsBuf>>

\* The directories of one directory go to the end of the list.
ScanDirs ==
    /\ pc = "dirs"
    /\ \/ Fault("scandir") /\ Return("failed") /\ UNCHANGED <<dirList, cur>>
       \/ LET subs == select_directories(dirList[cur].src)
              new == [i \in 1 .. Len(subs) |-> NewDir(subs[i], cur)]
              n == Len(dirList)
          IN  /\ dirList' = [dirList EXCEPT ![cur].children = [i \in 1 .. Len(subs) |-> n + i]]
                            \o new
              /\ Advance(dirList', "files")
              /\ NoFault
    /\ UNCHANGED <<tree, filesSizeSectors, dirsSizeSectors, pathTable, fsBuf>>

\* getFileSizeAndProcessMultipart() of one file after the other.
FileList(d, files) ==
    LET ends[i \in 0 .. Len(files)] ==
            IF i = 0 THEN filesSizeSectors ELSE ends[i - 1] + bytesToSectors(files[i].size)
    IN  [i \in 1 .. Len(files) |->
            [dir |-> d, name |-> files[i].name, size |-> files[i].size,
             multipart |-> files[i].part = "first", rlba |-> ends[i - 1]]]

\* The files of one directory.  If the first name is passed over, the second
\* one is linked to a NULL pointer.  When scandir() fails, `files` is not set:
\* it may be NULL, and the directory has no files, or free() gets it.
ScanFiles ==
    /\ pc = "files"
    /\ LET d == dirList[cur].src
           files == select_files(d)
           list == FileList(d, Listed(files))
       IN  \/ /\ Fault("stat") /\ Return("failed") /\ Listed(files) # << >>
              /\ UNCHANGED <<dirList, cur, filesSizeSectors>>
           \/ /\ Fault("scandir_files")
              /\ \/ Advance(dirList, "iso")
                 \/ Return("crashed") /\ UNCHANGED cur
              /\ UNCHANGED <<dirList, filesSizeSectors>>
           \/ /\ NoFault
              /\ list # << >> /\ files[1].part = "other"
              /\ Return("crashed")
              /\ UNCHANGED <<dirList, cur, filesSizeSectors>>
           \/ /\ NoFault
              /\ list # << >> => files[1].part # "other"
              /\ dirList' = [dirList EXCEPT ![cur].files = list]
              /\ filesSizeSectors' =
                    IF list = << >> THEN filesSizeSectors
                    ELSE Last(list).rlba + bytesToSectors(Last(list).size)
              /\ Advance(dirList, "iso")
    /\ UNCHANGED <<tree, dirsSizeSectors, pathTable, fsBuf>>

\* A directory in the directory d: it has no sector number yet.
ChildRecords(fs, d) ==
    [i \in 1 .. Len(d.children) |->
        Record(fs, DirId(fs, tree.dirs[dirList[d.children[i]].src].name), "dir", 0, 0)]

\* The records of the directory the loop is at, in their places: . and ..,
\* the files, the directories in it.
DirRecords(fs) ==
    LET d == dirList[cur]
        up == dirList[d.parent].content[fs]
        start == dirsSizeSectors[fs]
    IN  PlaceAll(
            <<Record(fs, Self, "dir", start, 0),
              IF d.parent = cur THEN Record(fs, Up, "dir", start, 0)
                                ELSE Record(fs, Up, "dir", up[1].start, up[1].length)>>
            \o FlattenSeq([i \in 1 .. Len(d.files) |-> FileRecords(fs, d.files[i])])
            \o ChildRecords(fs, d))

\* Its place among its siblings: the record that the parent has of it.
OwnRecord(fs) ==
    findDirRecord(CheckId(fs, tree.dirs[dirList[cur].src].name),
                  dirList[dirList[cur].parent].content[fs])

\* buildContent() writes one directory and puts its place and size into the
\* record its parent has of it.  It fails for a directory that is too large
\* or not found in its parent, and for the first part of a file, whose path
\* getFileSizeAndProcessMultipart() has cut one character too short.
BuildContent(fs) ==
    /\ pc = fs
    /\ LET d == dirList[cur]
           recs == DirRecords(fs)
           size == RoundUp(Last(recs).pos + Last(recs).len)
           own == OwnRecord(fs)
           fits == \A i \in 3 .. Len(recs) : recs[i].pos + recs[i].len < TEMP_BUF_SIZE
           failing == \/ ~fits
                      \/ \E i \in 1 .. Len(d.files) : d.files[i].multipart
                      \/ d.parent # cur /\ own = 0
       IN  \/ Fault("stat") /\ Return("failed") /\ UNCHANGED <<dirList, cur, dirsSizeSectors>>
           \/ failing /\ NoFault /\ Return("failed") /\ UNCHANGED <<dirList, cur, dirsSizeSectors>>
           \/ /\ ~failing /\ NoFault
              /\ IF d.parent = cur
                 THEN dirList' = [dirList EXCEPT
                                     ![cur].content[fs] = [recs EXCEPT ![1].length = size,
                                                                       ![2].length = size],
                                     ![cur].size[fs] = size]
                 ELSE dirList' = [dirList EXCEPT
                                     ![cur].content[fs] = [recs EXCEPT ![1].length = size],
                                     ![cur].size[fs] = size,
                                     ![d.parent].content[fs][own].start = recs[1].start,
                                     ![d.parent].content[fs][own].length = size]
              /\ dirsSizeSectors' = [dirsSizeSectors EXCEPT ![fs] = @ + bytesToSectors(size)]
              /\ Advance(dirList', IF fs = "iso" THEN "joliet" ELSE "tables")
    /\ UNCHANGED <<tree, filesSizeSectors, pathTable, fsBuf>>

-----------------------------------------------------------------------------
(* The path tables, and the rest of generate() *)

\* parentDN has sixteen bits.
TableEntry(fs, i) ==
    [id |-> IF i = 1 THEN Self ELSE DirId(fs, tree.dirs[dirList[i].src].name),
     start |-> dirList[i].content[fs][1].start,
     parentDN |-> dirList[i].parent % UINT16]

\* How many directories a path table has.
Entries == Smaller(Len(dirList), UINT16)

\* How long the table is before entry i + 1.
TableSize(fs, i) ==
    LET size[k \in 0 .. Len(dirList)] ==
            IF k = 0 THEN 0
            ELSE LET n == IF k = 1 THEN 1 ELSE len_fi(fs, TableEntry(fs, k).id)
                 IN  size[k - 1] + 8 + Even(n)
    IN  size[i]

\* reset()
Reset ==
    /\ dirList' = << >> /\ filesSizeSectors' = 0 /\ dirsSizeSectors' = [fs \in FS |-> 0]
    /\ pathTable' = [fs \in FS |-> << >>] /\ fsBuf' = None

\* buildPathTable(), for the two byte orders of a file system at once.
BuildPathTables ==
    /\ pc = "tables"
    /\ \/ /\ \E fs \in FS, i \in 1 .. Entries :
                TableSize(fs, i - 1) + 8 + MAX_ISODIR > TEMP_BUF_SIZE
          /\ Return("failed") /\ Reset
       \/ /\ \A fs \in FS, i \in 1 .. Entries :
                TableSize(fs, i - 1) + 8 + MAX_ISODIR <= TEMP_BUF_SIZE
          /\ pathTable' = [fs \in FS |-> [i \in 1 .. Entries |-> TableEntry(fs, i)]]
          /\ Return("fix")
          /\ UNCHANGED <<dirList, filesSizeSectors, dirsSizeSectors, fsBuf>>
    /\ UNCHANGED <<tree, cur, faults>>

TableSectors(fs) == bytesToSectors(TableSize(fs, Entries))
isoLba == HEADER_SECTORS + 2 * TableSectors("iso") + 2 * TableSectors("joliet")
jolietLba == isoLba + dirsSizeSectors["iso"]
filesLba == jolietLba + dirsSizeSectors["joliet"]
dirLba(fs) == IF fs = "iso" THEN isoLba ELSE jolietLba

\* Mutant: the numbers of files are shifted like those of directories.
fixDirLbaAlike(fs, records) ==
    [i \in 1 .. Len(records) |-> [records[i] EXCEPT !.start = @ + dirLba(fs)]]

fixDirLba(fs, records) ==
    [i \in 1 .. Len(records) |->
        IF i \in Walked(records)
        THEN [records[i] EXCEPT !.start = @ + IF records[i].flag = "dir" THEN dirLba(fs) ELSE filesLba]
        ELSE records[i]]

fixPathTableLba(fs) ==
    [i \in 1 .. Len(pathTable[fs]) |-> [pathTable[fs][i] EXCEPT !.start = @ + dirLba(fs)]]

FixLba ==
    /\ pc = "fix"
    /\ dirList' = [d \in 1 .. Len(dirList) |->
                      [dirList[d] EXCEPT !.content = [fs \in FS |-> fixDirLba(fs, @[fs])]]]
    /\ pathTable' = [fs \in FS |-> fixPathTableLba(fs)]
    /\ Return("write")
    /\ UNCHANGED <<tree, cur, filesSizeSectors, dirsSizeSectors, fsBuf, faults>>

\* One after the other, the things that write() copies into fsBuf.
Area(what, d, at, len) == [what |-> what, dir |-> d, at |-> at, len |-> len]
Contents ==
    LET dirs(fs) == [d \in 1 .. Len(dirList) |-> Area(fs, d, 0, dirList[d].size[fs])]
        table(what, fs) == Area(what, 0, 0, TableSectors(fs) * SECTOR_SIZE)
    IN  <<Area("header", 0, 0, HEADER_SECTORS * SECTOR_SIZE),
          table("pathTableL", "iso"), table("pathTableM", "iso"),
          table("pathTableJolietL", "joliet"), table("pathTableJolietM", "joliet")>>
        \o dirs("iso") \o dirs("joliet")
Written ==
    LET ends[i \in 0 .. Len(Contents)] == IF i = 0 THEN 0 ELSE ends[i - 1] + Contents[i].len
    IN  [i \in 1 .. Len(Contents) |-> [Contents[i] EXCEPT !.at = ends[i - 1]]]

\* The volume descriptor: where the root and the path tables are.
Pvd(fs) ==
    [root |-> [start |-> dirList[1].content[fs][1].start, length |-> dirList[1].content[fs][1].length],
     pathTableL |-> HEADER_SECTORS + IF fs = "iso" THEN 0 ELSE 2 * TableSectors("iso"),
     pathTableM |-> HEADER_SECTORS + IF fs = "iso" THEN TableSectors("iso")
                                     ELSE 2 * TableSectors("iso") + TableSectors("joliet")]

PadSectors(n) == 32 + IF n % 32 = 0 THEN 0 ELSE 32 - (n % 32)

\* The end of generate(), with write().  (That frees the path tables; here they
\* are kept, for the properties to compare.)
Write ==
    /\ pc = "write"
    /\ LET n == filesLba + filesSizeSectors
       IN  fsBuf' = [areas |-> Written,
                     pvd |-> [fs \in FS |-> Pvd(fs)],
                     fsBufSize |-> filesLba * SECTOR_SIZE,
                     padAreaStart |-> n * SECTOR_SIZE,
                     padAreaSize |-> PadSectors(n) * SECTOR_SIZE,
                     totalSize |-> (n + PadSectors(n)) * SECTOR_SIZE]
    /\ Return("ready")
    /\ UNCHANGED <<tree, listVars, faults>>

BuildNext ==
    \/ Open \/ ScanDirs \/ ScanFiles
    \/ \E fs \in FS : BuildContent(fs)
    \/ BuildPathTables \/ FixLba \/ Write

-----------------------------------------------------------------------------
(* Properties *)

AreaOf(what, d) == CHOOSE a \in Range(fsBuf.areas) : a.what = what /\ a.dir = d

\* Whether a record (or an entry of a path table, or of the volume descriptor)
\* leads to an area of fsBuf.
LeadsTo(r, a) == r.start * SECTOR_SIZE = a.at /\ r.length = a.len

\* Whoever follows the records from the volume descriptor, in either of the
\* file systems, gets to every directory where write() has put it, and back
\* to its parent, and the path tables lead to the same places, for as many
\* directories as they have numbers: the others are not in them.  Directories
\* that have the same identifier, in upper case or cut to its length, are
\* excepted: only one of them gets its record (buildContent(), fixLba()).
DirectoriesFound ==
    pc = "ready" => \A fs \in FS :
        /\ LeadsTo(fsBuf.pvd[fs].root, AreaOf(fs, 1))
        /\ \A d \in 1 .. Len(dirList) :
              LET recs == dirList[d].content[fs]
                  id(c) == DirId(fs, tree.dirs[dirList[c].src].name)
              IN  /\ Walked(recs) = 1 .. Len(recs)
                  /\ LeadsTo(recs[1], AreaOf(fs, d))
                  /\ LeadsTo(recs[2], AreaOf(fs, dirList[d].parent))
                  /\ \A c \in Range(dirList[d].children) :
                        \E i \in 3 .. Len(recs) :
                            /\ recs[i].id = id(c)
                            /\ \/ recs[i].flag = "dir" /\ LeadsTo(recs[i], AreaOf(fs, c))
                               \/ \E j \in 3 .. Len(recs) : j # i /\ recs[j].id = recs[i].id
                  /\ d <= UINT16 =>
                        /\ d \in 1 .. Len(pathTable[fs])
                        /\ pathTable[fs][d].start = recs[1].start
                        /\ pathTable[fs][d].id = (IF d = 1 THEN Self ELSE id(d))
                        /\ pathTable[fs][d].parentDN = dirList[d].parent
                  /\ d > 1 => dirList[d].parent < d

\* The records i to j of a directory are those of its k-th file: a file has
\* all the records up to the first one that is not to be continued.
RecordsOf(recs, i, j, k) ==
    /\ i <= j /\ recs[j].flag = "file" /\ \A x \in i .. j - 1 : recs[x].flag = "more"
    /\ i = 3 \/ recs[i - 1].flag = "file"
    /\ Cardinality({x \in 1 .. j : recs[x].flag = "file"}) = k

\* The records of a file, one or several, lead to its bytes, from the first to
\* the last and without a gap, in the place where read() looks for them.  A
\* Joliet name of 103 characters or more has no ";1" left: if a directory has
\* the same identifier, findDirRecord() takes the file's record for its own.
FilesFound ==
    pc = "ready" => \A fs \in FS, d \in 1 .. Len(dirList) :
        LET recs == dirList[d].content[fs]
            files == dirList[d].files
            id(k) == FileId(fs, files[k].name)
        IN  \A k \in 1 .. Len(files) :
                \/ \E r \in Range(recs) : r.flag = "dir" /\ r.id = id(k)
                \/ \E i, j \in 3 .. Len(recs) :
                      /\ RecordsOf(recs, i, j, k)
                      /\ recs[i].start * SECTOR_SIZE = fsBuf.fsBufSize + files[k].rlba * SECTOR_SIZE
                      /\ \A x \in i + 1 .. j :
                            (recs[x].start - recs[x - 1].start) * SECTOR_SIZE = recs[x - 1].length
                      /\ (recs[j].start - recs[i].start) * SECTOR_SIZE + recs[j].length = files[k].size
                      /\ \A x \in i .. j : recs[x].id = id(k)

\* No record lies across a sector boundary; what write() copies fills fsBuf
\* exactly, in whole sectors and in the places the volume descriptors say;
\* the files follow without overlap, and at least 32 sectors of padding, up
\* to a multiple of 32 sectors.
ImagePacked ==
    pc = "ready" =>
        LET areas == fsBuf.areas
            files == FlattenSeq([d \in 1 .. Len(dirList) |-> dirList[d].files])
        IN  /\ \A fs \in FS, d \in 1 .. Len(dirList) :
                  \A i \in 1 .. Len(dirList[d].content[fs]) :
                      LET r == dirList[d].content[fs][i]
                      IN  r.pos \div SECTOR_SIZE = (r.pos + r.len - 1) \div SECTOR_SIZE
            /\ \A i \in 1 .. Len(areas) : areas[i].at % SECTOR_SIZE = 0 /\ areas[i].len % SECTOR_SIZE = 0
            /\ Last(areas).at + Last(areas).len = fsBuf.fsBufSize
            /\ AreaOf("pathTableL", 0).at = fsBuf.pvd["iso"].pathTableL * SECTOR_SIZE
            /\ AreaOf("pathTableM", 0).at = fsBuf.pvd["iso"].pathTableM * SECTOR_SIZE
            /\ AreaOf("pathTableJolietL", 0).at = fsBuf.pvd["joliet"].pathTableL * SECTOR_SIZE
            /\ AreaOf("pathTableJolietM", 0).at = fsBuf.pvd["joliet"].pathTableM * SECTOR_SIZE
            /\ \A i \in 1 .. Len(files) :
                  files[i].rlba + bytesToSectors(files[i].size) <=
                      IF i < Len(files) THEN files[i + 1].rlba
                      ELSE (fsBuf.padAreaStart - fsBuf.fsBufSize) \div SECTOR_SIZE
            /\ fsBuf.padAreaSize >= 32 * SECTOR_SIZE
            /\ fsBuf.totalSize = fsBuf.padAreaStart + fsBuf.padAreaSize
            /\ fsBuf.totalSize % (32 * SECTOR_SIZE) = 0

\* The records of the files of a directory, one after the other.
MostRecords(d) ==
    Len(FlattenSeq([i \in 1 .. Len(tree.files[d]) |-> [k \in 1 .. Extents(tree.files[d][i].size) |-> i]]))

\* What the builder cannot do: files in parts, a name that would be the first
\* of a list and is passed over, names of directories whose record does not fit
\* in 255 bytes, directories and path tables that might not fit in tempBuf.
Unsupported ==
    \/ \E d \in 1 .. Len(tree.dirs) :
          \/ d > 1 /\ tree.dirs[d].name.len >= 108
          \/ \E i \in 1 .. Len(tree.files[d]) : tree.files[d][i].part # "plain"
          \/ (MostRecords(d) + Len(select_directories(d)) + 2) * SECTOR_SIZE > TEMP_BUF_SIZE
    \/ Len(tree.dirs) * (8 + MAX_ISODIR) > TEMP_BUF_SIZE

\* A folder that the builder can do is refused only if a system call fails,
\* and an image has all of its directories once and all of its files that are
\* no later parts of another, unless a directory could not be scanned for its
\* files: that is not noticed.
BuildOutcome ==
    /\ pc \in {"failed", "hollow", "crashed"} => faults # {} \/ Unsupported
    /\ pc = "ready" =>
          /\ Len(dirList) = Len(tree.dirs)
          /\ {dirList[d].src : d \in 1 .. Len(dirList)} = 1 .. Len(tree.dirs)
          /\ \A d \in 1 .. Len(dirList) :
                /\ dirList[d].src # 1 => dirList[dirList[d].parent].src = tree.dirs[dirList[d].src].up
                /\ "scandir_files" \in faults
                   \/ {f.name : f \in Range(dirList[d].files)}
                      = {f.name : f \in {g \in Range(tree.files[dirList[d].src]) : g.part # "other"}}
=============================================================================
