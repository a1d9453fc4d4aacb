----------------------------- MODULE DirListing -----------------------------
(***************************************************************************)
(* OPEN_DIR, READ_DIR and GET_DIR_SIZE, and what the names that a listing  *)
(* sends mean to the commands that take a path.  A folder F may have a     *)
(* file F.INI beside it with a list of other folders: the listing goes on  *)
(* with their contents, and translate_path() looks there for what F does   *)
(* not have.  A path with // asks for the files of the folders in the      *)
(* folder as well.                                                         *)
(*                                                                         *)
(* A path is a sequence of names; those below the shared directory begin   *)
(* with Root.  INI files are beside folders below Root, or beside Root     *)
(* itself; the folders they list are anywhere.                             *)
(***************************************************************************)
EXTENDS Integers, Sequences, SequencesExt, FiniteSetsExt

CONSTANTS
    Worlds,         \* the file systems that may be served, with the paths asked for
    Root,           \* the shared directory
    Virtual,        \* "***PS3***" and "***DVD***", which make an image of a folder
    MAX_ENTRIES,    \* length of the array the entries are written to
    MAX_LINK_LEN,   \* 2048: length of the buffer for an INI file, counted in lines
    ENTRIES_STEP,   \* 0x10: by how much less is asked for when malloc() fails
    MAX_FAULTS      \* bound on the system calls that fail in one listing

ASSUME EntriesAssumption ==
    /\ ENTRIES_STEP \in Nat \ {0} /\ MAX_ENTRIES \in Nat
    /\ MAX_ENTRIES >= ENTRIES_STEP /\ MAX_FAULTS \in Nat
    /\ MAX_LINK_LEN \in Nat \ {0}

\* Entries that are folders are among the folders, which are finitely many, and
\* the entries of a folder have different names.
ASSUME WorldsAssumption ==
    \A w \in Worlds :
        /\ DOMAIN w.dir \subseteq Seq(STRING)
        /\ w.dir \in [DOMAIN w.dir -> Seq([name : STRING, dir : BOOLEAN, size : Nat])]
        /\ \A d \in DOMAIN w.dir : \A i \in 1 .. Len(w.dir[d]) :
              w.dir[d][i].dir => Append(d, w.dir[d][i].name) \in DOMAIN w.dir
        /\ IsFiniteSet(DOMAIN w.dir)
        /\ \A d \in DOMAIN w.dir : \A i, j \in 1 .. Len(w.dir[d]) :
              w.dir[d][i].name = w.dir[d][j].name => i = j
        /\ w.ini \in [DOMAIN w.ini -> Seq(Seq(STRING))]
        /\ w.beyond \in [DOMAIN w.ini -> Seq(Seq(STRING))]
        /\ w.requests \subseteq Seq(STRING)

\* A folder is an entry of the folder it is in, an INI file lies in a folder,
\* and nothing has the name of a virtual folder.
ASSUME PathsAssumption ==
    /\ Root \in STRING
    /\ \A w \in Worlds :
          /\ \A d \in DOMAIN w.dir : Len(d) > 1 =>
                /\ Front(d) \in DOMAIN w.dir
                /\ \E i \in 1 .. Len(w.dir[Front(d)]) :
                      w.dir[Front(d)][i].dir /\ w.dir[Front(d)][i].name = Last(d)
          /\ \A d \in DOMAIN w.ini :
                /\ d \in Seq(STRING) /\ (Len(d) > 1 => Front(d) \in DOMAIN w.dir)
                /\ \A i \in 1 .. Len(w.ini[d]) : w.ini[d][i] # << >>
                /\ \A i \in 1 .. Len(w.beyond[d]) : w.beyond[d][i] # << >>
          /\ \A d \in DOMAIN w.dir \cup DOMAIN w.ini : \A i \in 1 .. Len(d) : d[i] \notin Virtual
          /\ \A d \in DOMAIN w.dir : \A i \in 1 .. Len(w.dir[d]) : w.dir[d][i].name \notin Virtual

VARIABLES
    world,      \* dir: the entries of each folder, in the order of readdir();
                \* ini: the lines of the INI files, by the folder they belong to;
                \* beyond: what is found behind the buffer if one does not fit
    phase,      \* "idle", "listing" or, with the answer of READ_DIR sent, "sent"
    asked,      \* the path in the last OPEN_DIR or GET_DIR_SIZE, and if it has //
    dir,        \* client->dir: is a directory open
    dirpath,    \* client->dirpath
    max_items,
    entries,    \* dir_entries[0 .. items - 1]
    stack,      \* the calls of process_read_dir() under way, innermost first
    lines,      \* the lines of the INI file that are still to be listed
    faults,     \* paths for which a system call has failed in this listing
    dirsize     \* the last answer of GET_DIR_SIZE, the path it is about, and whether
                \* readdir() got to the end of all folders

listVars == <<max_items, entries, stack, lines, faults>>
vars == <<world, phase, asked, dir, dirpath, listVars, dirsize>>

FAILED == -1
NULL == << >>
NoSize == [of |-> NULL, size |-> FAILED, whole |-> TRUE]
Prefix(p, n) == SubSeq(p, 1, n)
After(p, n) == SubSeq(p, n + 1, Len(p))

IsDir(p) == p \in DOMAIN world.dir
Named(p) == {e \in Range(world.dir[Front(p)]) : e.name = Last(p)}
Exists(p) == IsDir(p) \/ (Len(p) > 1 /\ IsDir(Front(p)) /\ Named(p) # {})

-----------------------------------------------------------------------------
(* translate_path() *)

\* How much of a path has the INI file that counts for it: its own, else that
\* of the folder it is in, and so on up to the shared directory; 0 if none.
IniOf(p) == Max({0} \cup {n \in 1 .. Len(p) : Prefix(p, n) \in DOMAIN world.ini})

\* The lines in the buffer.  A file that fills it leaves no room for the 0 at its
\* end: the last line runs on into the memory behind it, and others may follow.
LinesRead(d) ==
    IF Len(world.ini[d]) < MAX_LINK_LEN THEN world.ini[d]
    ELSE Prefix(world.ini[d], MAX_LINK_LEN - 1) \o world.beyond[d]
LinesOf(p) == IF IniOf(p) = 0 THEN << >> ELSE LinesRead(Prefix(p, IniOf(p)))

\* The lines with a folder that has the rest of the path.
Found(p) == {i \in 1 .. Len(LinesOf(p)) : Exists(LinesOf(p)[i] \o After(p, IniOf(p)))}

\* Mutant: the last of the folders that has it counts.
RedirectLast(p) ==
    IF Found(p) = {} THEN p ELSE LinesOf(p)[Max(Found(p))] \o After(p, IniOf(p))

\* For a path that does not exist: the rest of it below the first of the listed
\* folders that has it.
Redirect(p) ==
    IF Found(p) = {} THEN p ELSE LinesOf(p)[Min(Found(p))] \o After(p, IniOf(p))

\* OPEN_FILE, which passes viso, has the virtual folder taken off; the other
\* commands look for a folder of that name.
translate_path(request, viso) ==
    LET virtual == viso /\ Len(request) > 1 /\ request[1] \in Virtual
        p == <<Root>> \o (IF virtual THEN Tail(request) ELSE request)
    IN  IF Exists(p) THEN p ELSE Redirect(p)

-----------------------------------------------------------------------------
(* OPEN_DIR and GET_DIR_SIZE *)

Init ==
    /\ world \in Worlds
    /\ phase = "idle" /\ asked = [path |-> << >>, subdirs |-> FALSE]
    /\ dir = FALSE /\ dirpath = NULL
    /\ max_items = MAX_ENTRIES /\ entries = << >> /\ stack = << >> /\ lines = << >>
    /\ faults = {} /\ dirsize = NoSize

\* A new command: the entries of the last one have been sent and freed.
Answered == phase' = "idle" /\ max_items' = MAX_ENTRIES /\ entries' = << >> /\ faults' = {}

\* Mutant: the directory that was open is not closed when there is no new one.
OpenDirKeepsOld ==
    /\ phase # "listing"
    /\ \E r \in world.requests, subdirs \in BOOLEAN :
          LET p == translate_path(r, FALSE)
          IN  /\ asked' = [path |-> r, subdirs |-> subdirs]
              /\ dir' = (dir \/ IsDir(p))
              /\ dirpath' = IF IsDir(p) THEN p ELSE NULL
    /\ Answered /\ UNCHANGED <<world, stack, lines, dirsize>>

\* The path is a folder and opendir() succeeds, or what was open is closed and
\* the answer is -1.
OpenDir ==
    /\ phase # "listing"
    /\ \E r \in world.requests, subdirs \in BOOLEAN, opendir \in BOOLEAN :
          LET p == translate_path(r, FALSE)
          IN  /\ asked' = [path |-> r, subdirs |-> subdirs]
              /\ dir' = (opendir /\ IsDir(p))
              /\ dirpath' = IF dir' THEN p ELSE NULL
    /\ Answered /\ dirsize' = NoSize
    /\ UNCHANGED <<world, stack, lines>>

\* Mutant: a folder whose size is not known is left out.
AddSizeSkipping(size, e, below) ==
    IF size = FAILED \/ below = FAILED THEN size
    ELSE size + (IF e.dir THEN below ELSE e.size)

\* The next entry of a folder: the first failure ends the walk.
AddSize(size, e, below) ==
    IF size = FAILED \/ below = FAILED THEN FAILED
    ELSE size + (IF e.dir THEN below ELSE e.size)

\* The size of folder p, from those of the folders in it: readdir() returns the
\* entries in list, stat() or opendir() fails on the paths in bad.
SizeOfFolder(p, list, size, bad) ==
    IF p \in bad THEN FAILED
    ELSE FoldLeft(LAMBDA sum, e :
                      LET q == Append(p, e.name)
                      IN  IF q \in bad THEN FAILED
                          ELSE AddSize(sum, e, IF e.dir THEN size[q] ELSE 0),
                  0, list)

\* The walk from folder d, with what readdir() returns of each folder.
calculate_directory_size(d, read, bad) ==
    LET size[p \in DOMAIN world.dir] == SizeOfFolder(p, read[p], size, bad)
    IN  IF IsDir(d) THEN size[d] ELSE FAILED

\* readdir() fails in folder q after n entries.
CutShort(q, n) == [world.dir EXCEPT ![q] = Prefix(@, n)]

\* A file or folder cannot be read, or readdir() fails in a folder, which looks
\* like the folder's end.
GetDirSize ==
    /\ phase # "listing"
    /\ \E r \in world.requests :
          LET p == translate_path(r, FALSE)
              below == {q \in DOMAIN world.dir : IsPrefix(p, q)}
              paths == below \cup UNION {{Append(q, e.name) : e \in Range(world.dir[q])} : q \in below}
          IN  \/ \E bad \in {{}} \cup {{q} : q \in paths} :
                    dirsize' = [of |-> p, size |-> calculate_directory_size(p, world.dir, bad), whole |-> TRUE]
              \/ \E q \in below : \E n \in 0 .. Len(world.dir[q]) - 1 :
                    dirsize' = [of |-> p, size |-> calculate_directory_size(p, CutShort(q, n), {}), whole |-> FALSE]
    /\ Answered
    /\ UNCHANGED <<world, asked, dir, dirpath, stack, lines>>

-----------------------------------------------------------------------------
(* READ_DIR *)

\* A call of process_read_dir() for folder d.  subdirs is 0, 1 or, in a folder
\* of the folder, 2; own tells the folder itself from those of the INI file; a
\* name is what comes after the first skip names of its path.
Call(d, subdirs, own, skip) ==
    [dir |-> d, todo |-> world.dir[d], subdirs |-> subdirs, own |-> own, skip |-> skip]

\* An entry as it is sent, and the file or folder it stands for.
Entry(frame, e, is_directory) ==
    LET path == Append(frame.dir, e.name)
    IN  [name |-> IF frame.subdirs = 0 THEN <<e.name>> ELSE After(path, frame.skip),
         is_directory |-> is_directory, src |-> path, own |-> frame.own]

\* malloc(), opendir() or readdir() fails in process_read_dir(): it lists
\* nothing, or nothing more.
NotListed(p) == Cardinality(faults) < MAX_FAULTS /\ faults' = faults \cup {p}

\* Nothing to list, or no memory: 0 entries, and the directory stays open.
ReadNothing ==
    /\ phase # "listing"
    /\ phase' = "sent" /\ entries' = << >> /\ faults' = faults \cup {dirpath}
    /\ UNCHANGED <<world, asked, dir, dirpath, max_items, stack, lines, dirsize>>

\* The array is as long as malloc() allows; the folder itself comes first.
ReadDir ==
    /\ phase # "listing" /\ dir
    /\ max_items' \in {n \in ENTRIES_STEP .. MAX_ENTRIES : (MAX_ENTRIES - n) % ENTRIES_STEP = 0}
    /\ phase' = "listing" /\ entries' = << >> /\ dir' = FALSE /\ dirsize' = NoSize
    /\ lines' = LinesOf(dirpath)
    /\ \/ /\ stack' = <<Call(dirpath, IF asked.subdirs THEN 1 ELSE 0, TRUE, Len(dirpath))>>
          /\ faults' = {}
       \/ stack' = << >> /\ faults' = {dirpath} /\ MAX_FAULTS > 0
    /\ UNCHANGED <<world, asked, dirpath>>

\* Mutant: one entry too many.
FullLate(items) == items > max_items

\* Does the loop end after an entry has been added.
Full(items) == items >= max_items

\* One entry of the innermost call.  What cannot be stat'ed passes for an
\* empty folder.  With subdirs a folder is not listed: the outer call lists its
\* files, the inner one passes it over.  Whether the array is full is looked at
\* when an entry has been added, not before one is.
ReadEntry ==
    /\ phase = "listing" /\ stack # << >> /\ Head(stack).todo # << >>
    /\ \E stat \in BOOLEAN :
          LET frame == Head(stack)
              e == Head(frame.todo)
              path == Append(frame.dir, e.name)
              rest == <<[frame EXCEPT !.todo = Tail(@)]>> \o Tail(stack)
              is_directory == e.dir \/ ~stat
              failed == IF stat THEN {} ELSE {path}
          IN  /\ Cardinality(faults \cup failed) <= MAX_FAULTS
              /\ IF is_directory /\ frame.subdirs > 0
                 THEN /\ UNCHANGED entries
                      /\ IF frame.subdirs = 1 /\ e.dir
                         THEN \/ stack' = <<Call(path, 2, frame.own, frame.skip)>> \o rest /\ faults' = faults \cup failed
                              \/ stack' = rest /\ NotListed(path)
                         ELSE stack' = rest /\ faults' = faults \cup failed
                 ELSE /\ entries' = Append(entries, Entry(frame, e, is_directory))
                      /\ stack' = IF Full(Len(entries')) THEN Tail(stack) ELSE rest
                      /\ faults' = faults \cup failed
    /\ UNCHANGED <<world, phase, asked, dir, dirpath, max_items, lines, dirsize>>

\* readdir() has no more, or fails: the call returns.
ReturnFrom ==
    /\ phase = "listing" /\ stack # << >>
    /\ \/ Head(stack).todo = << >> /\ UNCHANGED faults
       \/ Head(stack).todo # << >> /\ NotListed(Head(stack).dir)
    /\ stack' = Tail(stack)
    /\ UNCHANGED <<world, phase, asked, dir, dirpath, max_items, entries, lines, dirsize>>

\* Mutant: a line that is not there ends the list.
NextLineStops ==
    /\ phase = "listing" /\ stack = << >> /\ lines # << >>
    /\ LET line == Head(lines)
       IN  /\ stack' = IF IsDir(line) THEN <<Call(line, IF asked.subdirs THEN 1 ELSE 0, FALSE, 0)>> ELSE << >>
           /\ lines' = IF IsDir(line) THEN Tail(lines) ELSE << >>
    /\ UNCHANGED <<world, phase, asked, dir, dirpath, max_items, entries, faults, dirsize>>

\* The next line of the INI file; one that is not there is passed over.
NextLine ==
    /\ phase = "listing" /\ stack = << >> /\ lines # << >>
    /\ LET line == Head(lines)
           skip == IF line[1] = Root THEN 1 ELSE 0
       IN  \/ /\ IsDir(line)
              /\ stack' = <<Call(line, IF asked.subdirs THEN 1 ELSE 0, FALSE, skip)>>
              /\ UNCHANGED faults
           \/ stack' = << >> /\ (IF IsDir(line) THEN NotListed(line) ELSE UNCHANGED faults)
    /\ lines' = Tail(lines)
    /\ UNCHANGED <<world, phase, asked, dir, dirpath, max_items, entries, dirsize>>

\* The INI file cannot be opened or read.
NoLines ==
    /\ phase = "listing" /\ stack = << >> /\ lines = LinesOf(dirpath) /\ lines # << >>
    /\ lines' = << >> /\ NotListed(dirpath)
    /\ UNCHANGED <<world, phase, asked, dir, dirpath, max_items, entries, stack, dirsize>>

Send ==
    /\ phase = "listing" /\ stack = << >> /\ lines = << >>
    /\ phase' = "sent"
    /\ UNCHANGED <<world, asked, dir, dirpath, listVars, dirsize>>

Next ==
    \/ OpenDir \/ GetDirSize \/ ReadNothing \/ ReadDir
    \/ ReadEntry \/ ReturnFrom \/ NextLine \/ NoLines \/ Send

Spec == Init /\ [][Next]_vars

-----------------------------------------------------------------------------
(* Properties *)

\* Types; a listing is under way only in its phase, and a path is kept for
\* every directory that is open.
ListingTypeOK ==
    /\ phase \in {"idle", "listing", "sent"}
    /\ dir \in BOOLEAN /\ (dir => IsDir(dirpath))
    /\ max_items \in ENTRIES_STEP .. MAX_ENTRIES
    /\ stack # << >> => phase = "listing"
    /\ Len(stack) <= 2
    /\ \A i \in 1 .. Len(stack) : IsDir(stack[i].dir) /\ stack[i].subdirs \in 0 .. 2

\* What READ_DIR has to list: folder 0 is the one that is open, folder k > 0 is
\* in line k of its INI file.
Folder(k) == IF k = 0 THEN dirpath ELSE LinesOf(dirpath)[k]
Folders == {k \in 0 .. Len(LinesOf(dirpath)) : IsDir(Folder(k))}
Item(k, j) == world.dir[Folder(k)][j]
Below(k, j) == Append(Folder(k), Item(k, j).name)

\* The places of a listing: <<k, j, 0>> is entry j of folder k or, with subdirs
\* and if that is a folder, <<k, j, l>> is its file l.
PlacesAt(k, j) ==
    IF asked.subdirs /\ Item(k, j).dir
    THEN {<<k, j, l>> : l \in {l \in 1 .. Len(world.dir[Below(k, j)]) : ~world.dir[Below(k, j)][l].dir}}
    ELSE {<<k, j, 0>>}
PlacesOf(k) == UNION {PlacesAt(k, j) : j \in 1 .. Len(world.dir[Folder(k)])}
Places == UNION {PlacesOf(k) : k \in Folders}
PathAt(p) ==
    LET path == Below(p[1], p[2])
    IN  IF p[3] = 0 THEN path ELSE Append(path, world.dir[path][p[3]].name)
UpTo(p, q) ==
    \/ p[1] < q[1]
    \/ p[1] = q[1] /\ p[2] < q[2]
    \/ p[1] = q[1] /\ p[2] = q[2] /\ p[3] <= q[3]
Rank(q) == Cardinality({p \in Places : UpTo(p, q)})

\* Does the INI file that counts for a path fit in its buffer, if there is one.
Whole(p) == IniOf(p) = 0 \/ Len(world.ini[Prefix(p, IniOf(p))]) < MAX_LINK_LEN

\* If no system call fails and the INI file fits in its buffer, the answer to
\* READ_DIR is all of the folder, then all of each folder its INI file lists, in
\* that order, with nothing twice and nothing left out up to the length of the
\* array: calls nested in calls all go on with one count of items.  After // the
\* files of a folder in the folder are listed in its place.  What lies deeper is
\* not, although src/README.md:35 speaks of "all subdirectories".
ListingComplete ==
    phase = "sent" /\ faults = {} /\ Whole(dirpath) =>
        /\ IF Len(entries) < max_items THEN Len(entries) = Cardinality(Places)
                                       ELSE Cardinality(Places) >= max_items
        /\ \A p \in Places : Rank(p) <= max_items => entries[Rank(p)].src = PathAt(p)

\* The calls of process_read_dir(): <<k, 0>> for folder k, and with subdirs
\* <<k, j>> for its entry j if that is a folder.
CallsFor(k) ==
    {<<k, 0>>} \cup
    {<<k, j>> : j \in {j \in 1 .. Len(world.dir[Folder(k)]) : asked.subdirs /\ Item(k, j).dir}}
Calls == UNION {CallsFor(k) : k \in Folders}

\* A listing of one folder never has more entries than the array it is written
\* to.  Every further call of process_read_dir(), for a line of the INI file or
\* a folder in the folder, adds at most one beyond: it looks at the count only
\* after it has written an entry.
EntriesInBounds ==
    phase # "idle" /\ entries # << >> => Len(entries) <= max_items + Cardinality(Calls) - 1

\* A name in a listing leads back to what was listed: OPEN_FILE, STAT or OPEN_DIR
\* of the path that was asked for and that name, OPEN_FILE with a virtual folder
\* in front as well, finds the same file.  This holds for the folder's own entries, even
\* when OPEN_DIR was led to another folder by an INI file, and for the first
\* entry of each name from the folder's own INI file that has its place in the
\* array (beyond it each further folder is cut to one entry).  It does not hold
\* for what an INI file of a folder further up adds, since there the listed folders
\* themselves are read and not their folder of that name; nor for an entry from
\* an INI file that has an INI file of its own; nor, of course, with an INI file
\* that does not fit in its buffer.
ListedOpens ==
    \A k \in 1 .. IF phase = "sent" /\ Whole(dirpath) /\ Whole(<<Root>> \o asked.path) THEN Len(entries) ELSE 0 :
        LET e == entries[k]
            request == asked.path \o e.name
            first == \A j \in 1 .. k - 1 : entries[j].name # e.name
            merged == /\ k <= max_items
                      /\ dirpath = <<Root>> \o asked.path /\ ~asked.subdirs
                      /\ IniOf(dirpath) = Len(dirpath)
                      /\ <<Root>> \o request \notin DOMAIN world.ini
        IN  first /\ (e.own \/ (merged /\ faults = {})) =>
                /\ \A viso \in BOOLEAN : translate_path(request, viso) = e.src
                /\ \A v \in Virtual : translate_path(<<v>> \o request, TRUE) = e.src

\* The files at any depth below a folder, and their sizes together.
FilesBelow(p) ==
    {f \in UNION {{d} \X Range(world.dir[d]) : d \in DOMAIN world.dir} :
         ~f[2].dir /\ IsPrefix(p, f[1])}
Total(files) == FoldSet(LAMBDA f, n : n + f[2].size, 0, files)

\* GET_DIR_SIZE answers with the sizes of all files at any depth or with -1:
\* a file or folder that stat() or opendir() fails on is never just left out of
\* the sum.  If readdir() fails, which the code takes for the end of the folder,
\* the rest of it is: that case is left out here.
DirSizeExact == dirsize.whole => dirsize.size \in {FAILED, Total(FilesBelow(dirsize.of))}
=============================================================================
