# A TLA+ verification of ps3netsrv

ps3netsrv is a small TCP server. Consoles connect to it, send fixed-size
commands (open, read, list, write...), and it answers from a directory tree:
plain files, multipart files (`.66600`, `.66601`, ...), encrypted ISOs, and ISO
images it makes up on the fly from a folder. This directory holds TLA+ models of
its parts, the TLC configurations that check them on small instances, and
theorems that TLAPS proves for every value of the constants.

## Inventory

| Component | State it keeps | Operations | Interacts with |
|---|---|---|---|
| Slot table and accept loop (`main.cpp:50-288, 1896-2576`) | `clients[MAX_CLIENTS]`: `connected`, `s`, `ip_addr`, `thread`, `has_thread`, `buf`, open files; `clients_mutex` | `accept`, same-client search, whitelist check, reservation, shutdown and join of the old thread, `initialize_client`, thread start, `finalize_client`, release | one thread per client over shared memory; the kernel through descriptor numbers |
| Session protocol (`main.cpp:617-1894`) | `ro_file`, `ro_file_size`, `wo_file`, `dir`, `dirpath`, `subdirs`, `CD_SECTOR_SIZE`, `eof_pad_logged` | one `process_XXX` handler per command, the dispatch loop | the console over TCP, `File`, `VIsoFile`, the directory tree |
| `File` (`File.cpp`) | descriptors of up to `MAX_PARTS` parts, sizes, the current part, the position, the decryption keys and regions | `open`, `read`, `seek`, `close`, `fstat`, `supportsBulkRead` | the session protocol |
| `VIsoFile` (`VIsoFile.cpp`, `VIsoFile2.cpp`) | the list of directories with their files, the directory records and path tables of two file systems, `fsBuf`, the sizes, the position; in `VIsoFile2` the last descriptor | `open` (`build`, `generate`, `write`), `read`, `seek`, `fstat`, `reset` | the session protocol, `create_iso` |
| Directory listing (`main.cpp:549-612, 1304-1784, 1852-1894`) | `dir`, `dirpath`, `subdirs`; the entry array of `MAX_ENTRIES` items and its count | `process_open_dir_cmd`, `process_read_dir_cmd` with `process_read_dir`, `process_get_dir_size_cmd` | the directory tree, INI files |
| Path translation (`main.cpp:167-200, 409-547`) | none | `normalize_path`, `translate_path` | every handler with a path |
| Start-up (`main.cpp:94-136, 2001-2400`) | `root_directory`, `root_len`, `make_iso`, `port`, `whitelist_start`, `whitelist_end` | the arguments, the whitelist, the choice between serving and making an image, the listening socket; the loop of the `MAKEISO` build | the accept loop, `create_iso` |
| ISO creation (`main.cpp:290-405`) | a `client_t` of its own, the output file | `create_iso` | `VIsoFile`, `File` |
| Platform layer, AES | - | - | - |

Behaviours that are hard here: the accept loop and a client thread work on the
same slot while the console reconnects; descriptor numbers are recycled by the
kernel as soon as they are closed; a thread that must be joined may be blocked in
`recv()`; every allocation and every thread creation can fail half-way through; an
image is laid out in sector numbers that are only right once everything has been
counted, and its files are read, from a folder that may have changed, long after.
The hazards are listed, each at its line, in `PROJECT.json`.

## Modules

| Module | What it is |
|---|---|
| `ClientSlots` | the slot table, the accept loop, the client threads, the mutex, descriptors, consoles |
| `SessionPool` | the abstract specification: who has a seat, who is refused, who replaces whom |
| `MCClientSlots` | instances for TLC |
| `ClientSlots_proofs` | types, slot exclusivity, one thread per address, the whitelist, the refinement; ownership of descriptors, threads and buffers, and the absence of foreign traffic |
| `NetisoSession` | one connection: the commands, the handlers, what a session keeps between them, what is on the wire |
| `MCNetisoSession` | instances for TLC |
| `NetisoSession_proofs` | types, ownership of the session's objects, alignment of the stream, agreement of both ends on what is open |
| `FileRead` | `File::seek()` and `File::read()` over the parts of an image, and the three handlers that send what they read |
| `EncryptedRead` | region tables, decryption and the hidden key of 3k3y discs, in `File::open()` and `File::read()` |
| `MCFileRead`, `MCEncryptedRead` | instances for TLC |
| `FileRead_proofs` | what the three read commands send, for any image and any sequence of requests |
| `EncryptedRead_proofs` | exactly the encrypted sectors are decrypted, for any region table |
| `Recursion` | induction over the naturals in first-order form, and facts about sums, division and `FlattenSeq`, for the proofs that need them |
| `VIsoBuild` | the layout of a virtual image: `VIsoFile::open()` with all it calls |
| `VIsoRead` | extends `VIsoBuild`: the image in use by a console or by `create_iso()`, in both versions of `read()` |
| `VIsoInvariants` | what holds at each point of `open()` and while an image is read: the inductive invariants of the proofs |
| `VIsoRead_proofs` | a virtual image is laid out right and complete, what is read from it and what is dumped, for any folder |
| `DirListing` | `OPEN_DIR`, `READ_DIR`, `GET_DIR_SIZE`, `translate_path()`, INI files |
| `DirListing_proofs` | listings are complete and within their bounds, their names lead back to what was listed, sizes are exact, for any file system |
| `Startup` | `main()` up to the accept loop, and the `MAKEISO` build |
| `Startup_proofs` | the directory served, serving or making an image, the whitelist, the images of the `MAKEISO` build |
| `MCVIso`, `MCDirListing`, `MCStartup` | the folders, file systems and command lines that TLC tries |

### ClientSlots

The variables are the fields of `clients[i]` under their own names, the kernel's
view (which connection or file a descriptor number stands for, which connections
were shut down, which buffers are allocated, which threads are not joined yet),
the consoles, and for every thread a program counter, the slot it works on and the
copy of a socket number that it holds in a register or a local variable.

The grain of the actions is the grain at which the code can be interleaved: a
critical section is broken at each access to `clients[i].s`, the shared field that
is also read outside the lock; everything outside a critical section is one action
per access to shared state or per system call. `recv()` and `send()` are three
steps: the unlocked load of `client->s`, the kernel's lookup of the number, and the
return. In the middle of each the accept loop may take the socket away, close it
and go on.

`finalize_client()` and the release of the slot are written once, for a thread `p`,
because both the client's thread and the accept loop (when a thread could not be
created) run them. A handler is one step here: it may replace a file, which is what
makes descriptor numbers move, or fail. `ro_file` stands for `ro_file`, `wo_file`
and `dir`. A connection is also the name of the thread that serves it:
`create_start_thread()` is called at most once per `accept()`.

Bounds: the set of connections that ever arrive (`Conns`), the slots
(`MAX_CLIENTS`, 5 in the program) and the descriptor numbers (`FD`). The smallest
instance in which everything can happen has one console that connects twice (so
that a thread is replaced), a bystander (who would be hurt by a recycled number),
two slots, and as many descriptors as the two need plus one to recycle. Descriptor
0 is among them: `memset()` leaves 0 in the socket field of fresh slots. When no
descriptor is free, `accept()` and `open()` can only fail, which they can anyway.

### SessionPool

What an operator of the server would say: a console has at most one seat; a
newcomer is refused only if its address is not admitted, or it has no seat already
and none is free; a console that comes back gets its own seat, after its old
session is over. `ImplementsSessionPool` is the refinement, with the mapping in
`ClientSlots` (`Pool`).

### NetisoSession

One connection from its first command to `finalize_client()`. The console sends a
command and waits for the answer; the thread handles one command at a time, so a
handler is one action, with a disjunct for every way it can be left. Every system
call may fail. The variables `ro_file`, `wo_file`, `dir` and `dirpath` are the
fields of `client_t`; `live` counts, apart from them, the objects created and not
yet deleted, so that a field that is overwritten or cleared too early shows.
`view` is what the console concludes from the answers alone.

Neither direction of the stream has frames, so what matters is how much is sent
and consumed, not what: a command, a path and the fixed part of an answer are one
unit each, data and names count by their length. A reply records what its fixed
part announces and what follows it. `Expected` says what a console reads,
following the comments of `netiso.h`. A console that hangs up in the middle of a
command leaves it incomplete.

`READ_DIR_ENTRY` and its second version differ in the size of the fixed part only and are
one action. `DELETE`, `MKDIR`, `RMDIR`, `STAT` and `GET_DIR_SIZE` have the same control flow
and share `PathCommand`. `MallocMayFail` tells whether `malloc()` may return `NULL` in the
handlers; it may in the run. The build modelled is the one without `READ_ONLY`.

Bounds: a buffer of 2 units and reads and writes of up to 3, so that a request
fits, fills the buffer, and exceeds it; directories of up to 2 entries, so that
there is a first, a last and an end; two paths, so that a file can be replaced by
another. Sessions are unbounded in length.

### FileRead

What `NetisoSession` leaves out of the read commands: the bytes. A byte of the image
is represented by its offset and a byte of padding by `Zero`, so `out`, the bytes
sent, can be compared with what the request asked for. The state is the one a `File`
keeps between calls: the current part `index` and, for each part, the position of
its descriptor. One pass of the loop in `process_read_file_critical()`, and one
sector of the loop in `process_read_cd_2048_critical_cmd()`, is one action. A failed
`read_file()` returns -1 and the model does with that number what `File::read()`
does: it is added to the buffer's address and to the count.

Bounds: parts of 1 to 4 bytes, up to three of them, a buffer of 4: a buffer that lies
within a part, ends with it, crosses one boundary or crosses two; plain files of up to
9 bytes; reads that start at every offset up to the end and past it, of every length up
to a buffer and a half. CD sectors of 4 bytes with a header of 1 and a payload of 2, so
that there is a gap after each payload and two sectors fit a request. Sequences of
reads are unbounded, so every position that an earlier read can leave behind is tried.
`File::read()` crosses at most one boundary; parts smaller than a buffer, which no tool
makes, are served right or the connection ends, and `OnlyFailuresDrop` leaves them out.

### EncryptedRead

A disc is its region table, key file and watermark, chosen in `Init` among all those
that fit on six sectors with up to five regions. `Open` builds `region_info_` with
the code's byte addresses; `Read` records which sectors go through `decrypt_data()`
and which part of the buffer is zeroed. The zeroing comes first: a negative length is
a huge `size_t` for `_memset()` (`File.cpp:408`), which runs off the buffer, and the
model ends there (`crashed`). Sector size and key addresses are the program's own.
Reads are of whole sectors, which the code assumes as well. `Straddle` tells whether
reads may cross a region boundary, `Marks` which watermarks there are: with `"none"` only,
all discs are Redump discs or plain ones.

### VIsoBuild and VIsoRead

`open()` is a sequence of loops over one list of directories, and so is the model: one
action per directory and loop (`ScanDirs`, `ScanFiles`, `BuildContent` for ISO 9660 and
for Joliet), then the path tables, the shift of all sector numbers (`FixLba`) and
`write()`. Any system call of a step may fail. `pc` says which loop runs; at its end the
image is `ready`, the call has `failed`, the program has `crashed` or, where `generate()`
returns `FAILED` (which is `true`), the image is `hollow`.

Bytes are left out, places are not: a directory record has its identifier, the sector and
the length it announces, and its own position and length in the directory; a path table
entry has its sector and the number of its parent; `fsBuf` is the list of areas that
`write()` copies, with their offsets. So a reader of the image can be followed from the
volume descriptor to any file. A name is a stem, a length and its case: what upper case,
cutting and the two bytes of a Joliet character do to it decides which identifiers are
equal and which records are too long. `len_dr` has eight bits and lengths have 32
(`UINT32`). A path table has entries, and numbers for parents, for 65536 directories
(`UINT16`) and no more; the records have no such limit.

A read yields segments: where in the image, from which source (`fsBuf`, a file, zeros),
from where in it. `VIsoFile.cpp` opens a file for each read, `VIsoFile2.cpp`, which the
Windows build uses, keeps the last one open; `twin` chooses. While the image is in use, a
file may be cut or removed (`ChangeFile`). A console seeks to every offset at which
something begins or ends, and to the one before; `create_iso()` copies the whole image,
block by block: each read may fail, and each write may fail or be one byte short, after
which the next one lands where this one ended (`Reached`).

Bounds: the sector has 512 bytes and an extent 4 of them, so that files of a few kilobytes
have one, two or three extents and lie just below, at and just above each limit; the
directory buffer has 8 sectors, so that it can be too small. The trees are chosen for what
is hard: three files with sizes at the limits, a tree in which list order and depth differ,
names that fill sectors, equal and cut names, names just below and at the length where the
record wraps, parts of files with the first one, without it, and after another file, a file
with very many extents, too many files, 21 directories where a path table has room for 20
(`UINT16`), and the same with names too long for that. Two of the files may change, one at a
time. A dump takes two blocks or more for the larger images; one of its writes
(`MaxShort`) may fail or be short.

### DirListing

The file system is a function from folders to their entries in `readdir()` order, with the
lines of the INI files. An INI file `F.INI` beside folder `F` adds other folders to it; a
path with `//` lists the files of the folders in the folder, to a depth of one. `stack` has
the calls of `process_read_dir()` that are under way, at most two; an entry read is one
action. Each entry remembers the file it was made from (`src`), which the code does not
send, so that `ListedOpens` can ask `translate_path()` for it.

The buffer for an INI file has `MAX_LINK_LEN` = 2048 bytes, in the model counted in lines. A
file that fills it leaves no 0 at its end: the last line runs on into the memory behind the
buffer, and there may be more of them. What is found there (`beyond`) is part of the file
system and chosen in `Init`. A failing `readdir()` looks like the end of the folder, in
listings (`ReturnFrom`) and in sizes (`CutShort`).

Bounds: four file systems of up to ten folders (names in several folders, lines that do
not exist, redirections to folders with INI files of their own, a folder with more than the
array takes, INI files of `MAX_LINK_LEN` lines, here 4, and more); an array of 8 or, if
`malloc()` fails, 4 entries; up to two failing calls per listing.

### Startup

A command line is chosen in `Init`, with what the program finds on disk: the current
directory, whether that looks like a share, which paths exist and which have a
`PS3_GAME/PARAM.SFO`. A path is its names, whether it begins with a slash, and its length: a
`long` one does not fit in `root_directory`, and neither a `long` one nor one of its last ten
bytes (`near`) is made an image of (`TooLong`). A name is its
parts between dots, since `.iso` and `.iso.` decide what is made and how it is called. An
octet has `OCTETS` = 3 values in the run instead of 256, and all addresses are tried
against all patterns of four tokens, malformed ones included.

## Runs

| Run | Question | Instance |
|---|---|---|
| `slots_safety` | Who owns a descriptor, a buffer, a thread, a slot at every moment? | connections a1, a2 (same console), b1; 2 slots; 3 descriptors; a1 and a2 symmetric |
| `slots_pool` | Who is admitted when the table is full, or not whitelisted? Does the accept loop always come back, and is a slot freed when its console hangs up? | a1, a2, b1, c1 (not whitelisted); 1 slot; 2 descriptors; fairness |
| `session` | After any sequence of commands and failures, do both ends agree on where the next command starts and on what is open, and is each file, stream and path deleted exactly once? | 2 paths, buffer 2, 2 entries, `malloc()` may fail |
| `read_parts` | Does every read get the right bytes, whatever was read before, CD sectors included, and does only a failure end the connection? | plain files of up to 9 bytes with failing reads, 1 to 3 parts of up to 4 without |
| `read_masked_error` | Does a failing read of a part end the connection? (no) | 1 to 3 parts, failing reads |
| `decrypt` | Are exactly the encrypted sectors decrypted, if a read stays in a region? | all tables on 6 sectors |
| `decrypt_straddle` | And if it does not? (no) | the same tables, Redump discs |
| `mask_key` | Is exactly the key of a 3k3y disc zeroed? (no) | as `decrypt` |
| `viso` | Do the records, the path tables and the bytes of a virtual image fit together, and is what is read or dumped the image, while files change and calls fail? | 22 folders, both versions of `read()` |
| `listing` | Is a listing complete, by how much may it exceed its array, and do its names lead back to what was listed? Is a size exact or -1? | 4 file systems, array of 8 or 4, 2 failures |
| `startup` | Is what is served or made what the command line asks for, is the address range the pattern, and does start-up end? | all command lines of the grammar in `MCStartup`, 4 environments |
| `root_refused` | Is `/` refused? (no) | the same |

What the properties of `viso`, `listing` and `startup` say:

- `DirectoriesFound`, `FilesFound`: whoever follows the image from the volume descriptor,
  in either file system, gets to every directory, back to its parent, and to the bytes of
  every file, where `read()` serves them; the path tables say the same of the directories
  they have numbers for. `ImagePacked`: nothing overlaps, no record lies
  across a sector boundary, everything fills `fsBuf` exactly. `BuildOutcome`: a folder that
  the builder can do is refused only if a call fails, and nothing is missing in an image.
- `ReadsImage`: any read returns what the image has there, without gaps; it stops short at
  a file that can no longer be read and makes nothing up. `DescriptorKept`: the descriptor
  and the path it stands for change together. `DumpRight`: up to the first failing read and
  the first failing or short write each block of the image is written where it belongs, and
  if there is none the dump is the image.
- `ListingComplete`: the folder, then each folder of its INI file, in order, nothing twice
  or left out, unless a call fails or the INI file does not fit in its buffer; after `//` a
  folder in the folder stands for the files in it and for nothing deeper. `EntriesInBounds`:
  the array is exceeded, by at most one entry for each call of `process_read_dir()` after
  the first; it is a bound on the overrun, not its absence. `ListedOpens`: the name of an
  entry, sent back, finds the file of the entry. `DirSizeExact`: the sum of all files, or -1,
  for any file or folder that cannot be read; `readdir()` errors are excepted.
- `WhitelistAdmits`: the pattern's addresses are served, and no others if its wildcards are
  at the end and it has an octet that is not 0. `RootServed`, `ServesOrMakes`,
  `MakesAllImages`: the directory that was named is served (`/` is left to `root_refused`),
  an image is made exactly when asked for, one bad argument does not cost the others theirs
  unless it exists and its path is too long. `StartupEnds`: liveness.

The runs that end in a violation, each against a sentence of the repository that
`PROJECT.json` quotes:

`read_masked_error`: `File::read()` tests `ret < nbyte` before it tests for failure
(`File.cpp:459`), so a failed part counts as a short one and the next part's data
takes its place, shifted by one byte. If the next part has `nbyte + 1` bytes, the
results add up to a complete read.

`decrypt_straddle`: `read()` decides by the region of the first byte. The comment in
`supportsBulkRead()` knows of it and keeps the CD path away from it, but
`READ_FILE_CRITICAL` and `READ_FILE` read up to `BUFFER_SIZE` in one call.

`mask_key`: the length of the zeroed area (`File.cpp:408`) is 0x100 less the distance to
the key, which is right for a read that starts at `0xF70`. One that starts in the middle of
the key loses what lies behind it. For one that starts earlier and covers the key the
length is negative, and the program runs off the buffer.

`root_refused`: `/` is never refused (`main.cpp:2176`), since `normalize_path()` has removed
the slash and the current directory is served instead. `main.cpp:2178` says "/ can't be
specified as root directory!" and `docker/entrypoint.sh:21` "ps3netsrv refuses to share /
outright". If the current directory is `/`, the shared directory is the empty path, which
is `/`.

### Smaller disagreements

These show in the models, where a property names them as its exceptions, and have no run
of their own.

Sessions and reads:

- The comment at `main.cpp:77-81` says that `.connected` and `.s` "are what strictly need
  the lock", but all threads read `client->s` without it. `NoForeignTraffic` and
  `AcceptLoopReturns` say why it does no harm: the accept loop accepts nothing between
  closing the old number and joining the thread, so a stale number reaches the thread's own
  connection or nothing, and the shutdown wakes the thread up.
- The note at `main.cpp:614-615` says that a handler reports a non-critical error and
  returns 0; `process_open_cmd()` and `process_create_cmd()` report a file that cannot be
  opened and end the session.
- `READ_DIR_ENTRY` without memory for an entry's path (`main.cpp:1457`) sends an all-zero
  result and then the name, though `fn_len` announces none; `netiso.h:147` says -1 for an
  error. `WireAligned` names this as its exception (`NamelessEntry`).
- `READ_FILE_CRITICAL` ends the connection for a read that begins past the last part of a
  multipart image, where a plain one is padded (`tests/test_eof_read.py` tries plain files
  only); `OnlyFailuresDrop` names it. The CD loop ignores the same failure of `seek()`
  (`main.cpp:955`) and sends what is at the old position; `CdServed` says nothing of what
  lies past the end of such an image.

Virtual images:

- A folder name of 108 characters or more makes a Joliet record longer than 255 bytes
  (`VIsoFile.cpp:909`), which is not found again: the whole image fails.
- Names that are equal in upper case, or once cut, get one record between them
  (`VIsoFile.cpp:964`). A Joliet file name of 103 characters or more loses its `;1` and can
  be taken for a folder's.
- A file in parts (`.66600`) makes the build fail, although there is code for it: its path
  has been cut one character too short. A part without the first one (`.66601`) that comes
  first in its folder is a NULL pointer (`VIsoFile.cpp:1190`).
- A folder that cannot be scanned for its files is built without them, or an uninitialized
  pointer is freed (`VIsoFile.cpp:1149`).
- `create_iso()` ignores the results of `read()` and `write_file()` and reports success
  (`main.cpp:379-380`), a full disk included.
- A folder with more than 65536 directories gets path tables without the others
  (`VIsoFile.cpp:621`); `DirectoriesFound` speaks of those in them.

Listings:

- The INI file of a folder further up adds the listed folders themselves, not their
  sub-folder of that name, to the listing (`main.cpp:1713-1753`), while `translate_path()`
  looks in that sub-folder: such entries cannot be opened.
- The limit of the array is looked at after an entry has been written (`main.cpp:1647`), so
  that each further call writes one beyond it. `EntriesInBounds` says that it is no more.
- An INI file of 2048 bytes or more fills its buffer, and no 0 ends its text
  (`main.cpp:1735`, `501`): what lies behind is read as more of its lines. `ListingComplete`
  and `ListedOpens` except such files (`Whole`).
- An error of `readdir()` is taken for the end of the folder: the listing is short, and
  `GET_DIR_SIZE` answers with a part of the sum (`main.cpp:569`). `DirSizeExact` excepts it.
- With `//`, the files of the folders in the folder are listed and none that lie deeper:
  `process_read_dir()` calls itself with `subdirs` = 2 and then leaves folders out
  (`main.cpp:1619`). The repository's `README.md:35` promises "all subdirectories"; the file
  two folders down in the run is left out, and `ListingComplete` says so.
- With `//`, the names from an INI file's folder are relative to the shared directory, or
  absolute, and not to the folder that was asked for (`main.cpp:1751`).
- Only `OPEN_FILE` takes the virtual folder off a path; `STAT` looks for a folder of that
  name.

Start-up:

- Without arguments the folders that mark a share are looked for in the current directory,
  as the comment at `main.cpp:2073` says, but the program's own directory is served.
- `.iso` anywhere in the path, as in `/srv/my.isos`, makes an image of a directory that is
  given without a port. Image mode binds the port as well. A path without a slash ends in a
  NULL pointer (`main.cpp:2351`).
- `makeiso` announces `[PS3/ISO]` as its second argument (`main.cpp:2065`) and treats it as
  a path.
- A whitelist with a wildcard before a number admits the whole range between its ends, and
  one whose lower end is 0 admits everybody.

### Fairness

`FairSpec` of `ClientSlots` assumes that the operating system runs every thread that can
run: weak fairness of the accept loop's steps between two `accept()` calls
(`MainStep`), and of each client thread (`ThreadStep`). It assumes nothing of the
consoles: `RecvOk` (a request arrives) and `SendOk` (the console drains the answer)
carry no fairness, so a thread may wait in `recv()` or `send()` for ever, unless its
connection is shut down or hung up. A mutex that is free infinitely often but
always taken by somebody else would need strong fairness; each thread takes it only
finitely often, so weak fairness is enough.

`Startup` assumes weak fairness of `Next`: one thread that nothing blocks before
`accept()`. The other modules are checked for safety only.

## Proofs

Every theorem is a property of a run, for every value of the constants that the
named assumptions of the module allow. `PROJECT.json` lists them all.

`ClientSlots_proofs`, for any number of slots, connections and descriptors, and any
whitelist:

- `TypeCorrect`: `Spec => []TypeOK`. The inductive invariant adds what is known of
  the accept loop's locals at each label (`Typed`).
- `SlotsAreExclusive`, `OneThreadPerAddressAlways`, `WhitelistHolds`. None of the
  three is inductive. The invariant `IndInv` also says: the mutex is held exactly by
  the thread inside a critical section (`Locked`); a thread whose connection has not
  been started is at `none` (`Fresh`); a live thread finds its own address and
  handle in its slot (`Owns`), will be joined before its slot is reused
  (`Joinable`), a connected slot has a live thread or is the accept loop's
  (`Backed`).
- `SlotsImplementPool`: every step of the slot table is a step of the session pool
  or a stutter under the mapping of `Pool`.
- `NumbersAreClosedByTheirOwners`, `ThreadsTalkToTheirOwnConsole`. The invariant
  `FdInv` follows a socket from `accept()` to `close()`: the accept loop's `cs`, the
  slot, the local variable of `finalize_client()`, or `old_s`, and says at each place
  that the number still stands for it.
- `ThreadsAreJoinedOnce`, `BuffersAreOwned`, `NoDescriptorIsLeaked`: the converse,
  that whatever was acquired is still somebody's. `JoinInv` says that a thread that is
  not joined is in the handle of its slot or in the accept loop's hands, `BufInv` the
  same of buffers, and `SocketHeld` and `FileHeld` of every open descriptor.
- `OnlySelfOrSuccessorShutsDown`, an action property, from `FdInv`: a `shutdown()` in
  the accept loop hits the connection that the new one replaces.

The assumptions are those named in `ClientSlots`: at least one slot, descriptor
numbers are naturals and 0 is one of them, addresses and whitelist bounds are
naturals, and the identifiers of threads are distinct.

`NetisoSession_proofs`, for any set of paths, buffer size and length of directories
and names:

- `ObjectsAreOwned`. Its strengthening `Owned` adds that an ended session has empty
  fields and that an open directory's count of entries is not negative.
- `WireStaysAligned`. `WireAligned` speaks of the moment after a handler; the
  invariant `Wire` adds what lies on the wire before one: nothing between commands, the
  command and its payload while it waits, the bare command if the console is gone.
- `SessionTyped`, `SessionStaysAgreed`. The console's view lags behind by one answer;
  the invariant `Agreed` says that the answer on its way will close the gap.

The assumptions are the named ones of `NetisoSession`: the buffer and the bounds
are positive, and the special paths are distinct from each other and from the
ordinary ones.

`FileRead_proofs`, for images in any number of parts of any size, any buffer and sector
sizes, and any sequence of requests:

- `CriticalIsServed`, `ReadIsServed`, `CdIsServed`: what is sent is what was asked for.
  They are stated under `Unmasked`: no system call has failed since the request, or
  only calls on plain files can fail. Without it they are false, which is what the run
  `read_masked_error` shows. The invariant `ServedInv` says in the middle of a request
  that the file stands where the next byte comes from (`Stands`) and that what is sent
  is the beginning of the right answer; the heart of the proof is that one
  `File::read()` delivers the bytes at its position, across a boundary between parts
  (`Delivers`).
- `OnlyFailuresDropClients`: without a failure only what `seek()` refuses ends a
  session.

The assumption is that sizes are positive and bounds are naturals.

`EncryptedRead_proofs`, for discs with any number of regions:

- `DecryptsTheRightSectors`, under `~Straddle`: no read goes from one region into
  another. The run `decrypt_straddle` shows that it is false otherwise. `DecryptInv`
  says what `open()` has found out; that a sector is in one region only is an induction
  along the table, which ascends.

`VIsoRead_proofs`, for folders with any number of directories and files, of any size; the
invariants are in `VIsoInvariants`:

- `ReadsAreOfTheImage`, `DescriptorIsKept`, `DumpsAreRight`. `BuildInv` is about
  `open()`: through all its loops the files of all directories lie one behind the other
  from sector 0 on (`Packed`), and at the end the image is `fsBuf`, the files and the
  padding (`Image`). So the image is a row of regions (`Regions`), and one turn of the
  loop in `read()` is shown to take its bytes from the region it is at. `ReadInv` adds
  what the reads leave behind: the descriptor (`OneDescriptor`), the position, and what
  `create_iso()` has written (`Dumped`): the blocks asked for lie one behind the other, and
  each is taken from its place and put there as long as all before it were (`InItsPlace`).

- `VIsoTypesAreRight`, `ImagesArePacked`, `DirectoriesAreFound`, `FilesAreFound`: the image
  as a file system. None is inductive: they speak of the finished image, in which each
  number is the sum of what several loops have counted. `ImageInv` says what is true on the
  way. `Enlisted`: each directory is in the list once, behind its parent, so a record that
  is looked for in the parent has been made. `Recorded` and `Known`: the directories done so
  far are laid out one behind the other, no record crosses a sector, and their records lead
  to children and files with the numbers they have before `fixLba()`, unless identifiers
  clash. `Tabled`: the path tables have an entry with the number of its parent for each
  directory, or for the first `UINT16` of them; a parent comes before its children, so its
  number fits in sixteen bits. `Imaged`: after `fixLba()` and `write()` every area is in
  `fsBuf` at the sector that the records announce. The search in `findDirRecord()` and the
  placing of records are recursions along a sequence; the lemmas about them are inductions
  with `Recursion`.
- `BuildsEndRight`. `Ended` follows what may still go wrong: a folder within the limits of
  the builder is at each step either still being built or has met a failing call, and
  the directories and files taken so far are those of the folder.

The assumptions are the named ones of `VIsoBuild` and `VIsoRead`: a sector has at least 256
bytes, as many as a record can have, extents and the directory buffer are whole sectors,
the largest extent is the last whole sector below 32 bits, there are at least two directory
numbers, a folder has a root and a list
of files for each directory, directories are numbered after their parent, no name is `.` or
`..`, and a path is no `NULL`.

`DirListing_proofs`, for any file systems, INI files, buffer and array lengths, and failures:

- `ListingTyped`, `ListingIsComplete`, `EntriesStayInBounds`. The entries that a listing
  should have are places in an order (folder, entry, file of the entry), and the calls
  under way stand for one point of it: `Progress` says how far each has come, and
  `Counts` that the entries are those of the places up to there, as long as there is
  room, and that the array is exceeded by no more than the calls that have ended. The
  rank of a place is a cardinality, so completeness is an argument about finite sets.

- `ListedNamesOpen`. `OpenInv` says what the names of a listing mean to
  `translate_path()` while it grows: the open directory is what the path asked for leads to
  (`Opened`), entries of the folder's own are in it (`OwnSo`), and a name that is new in
  the listing is in none of the folders that came before, so `translate_path()` passes
  over those as well (`NamesSo`).
- `DirSizesAreExact`. The recursion is a function on all folders: it exists and is the only
  one because a sub-folder has a longer path (`SizeExists`, `SizeIs`, from the deepest
  folders up). A file below a folder is held by exactly one of its entries (`HeldOnce`), so
  the sums of the entries add up to the sum over the set (`Totals`, `AllExact`), which does
  not depend on the order in which it is taken. The same function with a shorter list for one
  folder is what a failing `readdir()` leaves.

The assumptions: the array has room for at least one step of `malloc()`, the buffer for at
least one line; a file system has finitely many folders, the names in a folder are distinct,
a folder is an entry of the folder it is in and the sub-folders of a folder are folders; an
INI file lies in a folder and has no empty lines, nor has what lies behind its buffer;
nothing has the name of a virtual folder.

`Startup_proofs`, for any command lines and environments:

- `ServesWhatWasAsked`. `make_iso` is set twice, from the directory and from the second
  argument, and used after the whitelist; the invariant `Decided` says at each point of
  `main()` what it tells of the command line, and that nothing is written before the
  image is made.
- `NamedRootIsServed`. The root is final only after the step that puts the current
  directory in for an empty path; until then it is the normalized path that was named
  (`Rooted`), and from then on it is settled (`Settled`).
- `WhitelistIsTheRange`, for octets of any size. `Parsed` says that the ends of the
  range are the sums of the octets read so far.
- `ImagesAreMade`, for any number of arguments. `Making` says that the images made are
  those of the arguments passed; the loop ends at an existing one whose path is too long.

The assumptions are the named ones of `Startup`: the words `PS3` and `ISO` are no
numbers, any other word (`Junk`) differs from both, `argv[0]` is a path that is
not empty, and the current directory is an absolute one.

`Recursion` is what several of these need and the provers cannot take from the library,
whose induction theorems have an operator as their parameter: `SetInduction` (a set of
numbers with 0 and all successors has every number), from the cardinality of finite sets;
`Solution` and `OneSolution`, that a recursion along a sequence of functions has exactly
one result, which gives the folds and recursive functions of the models their meaning;
`KeptOnce`, that a scan of a list which keeps some of it keeps nothing twice; and what
follows for running sums and for sequences put one behind the other.

Only model-checked: the three liveness properties (`AcceptLoopReturns`,
`HungUpConsoleReleased`, `StartupEnds`), liveness under fairness being out of the prover's
reach. `MaskedRight` has no proof because the run `mask_key` shows it to be violated, nor
has `RootRefused`. Every other property of a passing run is a theorem.

## Not modelled, and why

- Console output and `last_ip`.
- The detection of `CD_SECTOR_SIZE` when an image is opened (`main.cpp:694-745`): a search
  for fixed bytes at fixed places.
- The result of `recv_all()` in a `uint16_t` in `process_open_cmd()` (`main.cpp:650-653`): -1
  is 65535 there, so that a path announced with that length counts as received when it is
  not. `NetisoSession` compares the result itself.
- Sector numbers above 32 bits, which need an image of 8 TB.
- The refusal of paths with `..`: a failing `translate_path()` in `NetisoSession`.
- Files that change while they are served as they are: `ro_file_size` is taken at open, and
  a file that grows between two buffers of one request would be served from the wrong
  position. `FileRead` keeps the image fixed; `VIsoRead` does not.
- `lseek()` that fails on a regular file, short reads in the middle of one, and
  `fstat()` of a part that fails.
- Texts, times and the title of a virtual image; `PARAM.SFO` counts only for whether a
  title is found in it. The builder of `VIsoFile2.cpp`, the twin of the one modelled.
- `TCP_NODELAY` and other socket options: they change timing only.
- A handler interrupted by a fatal signal: `SIGPIPE` is ignored by `main()`.
- The `READ_ONLY` build, which leaves handlers out; `PS3_NET_Server.cfg` on Windows.
- Vendored AES and its configuration header, Win32 replacements of libc functions.

## Plan

1. `ClientSlots`, `SessionPool` and their proofs (done).
2. `NetisoSession` and its first proofs (done).
3. `FileRead` and `EncryptedRead`, model-checked (done).
4. `VIsoBuild`, `VIsoRead`, `DirListing`, `Startup`, model-checked, and the proofs of
   `Startup` (done).
5. Proofs of the remaining invariants of `ClientSlots` and `NetisoSession`, of the read
   algorithms of `File` and of virtual images, of listings, of the whitelist and of the
   `MAKEISO` build (done).
6. Proofs of the layout of virtual images, of the names and of the sizes of listings
   (done). Writing them showed that two `CASE` expressions with overlapping guards
   (`AddSize`, `ImageKind`) left open which one counts; the code has an order, and they now
   have it as well.
