--------------------------- MODULE NetisoSession ---------------------------
(***************************************************************************)
(* One connection after its thread has started: the console sends a        *)
(* command, client_thread() dispatches it to its process_XXX() handler,    *)
(* the handler receives what follows the command, answers and says whether *)
(* the connection goes on.  Between commands the session keeps its         *)
(* read-only file, its write-only file and its directory.                  *)
(*                                                                         *)
(* Neither direction of the stream has frames: after a command the server  *)
(* takes the next bytes for a command, after an answer the console takes   *)
(* the next bytes for an answer.  The model counts what is on the wire (a  *)
(* command, a path and an answer's fixed part are one unit each, data and  *)
(* file names as many as their length says) and leaves the contents out.   *)
(* Every system call may fail.                                             *)
(***************************************************************************)
EXTENDS Integers

CONSTANTS
    Paths,          \* paths that translate_path() accepts
    BadPath,        \* a path it refuses
    NoPath,         \* a path of length 0
    CLOSEFILE,      \* the path "/CLOSEFILE"
    Null,
    BUFFER_SIZE,    \* length of client->buf
    MaxEntries,     \* bound: entries of a directory, length of a file name
    MallocMayFail   \* whether the handlers' malloc() may return NULL

ASSUME BufferAssumption == BUFFER_SIZE \in Nat \ {0} /\ MaxEntries \in Nat \ {0}
ASSUME MallocAssumption == MallocMayFail \in BOOLEAN
ASSUME PathAssumption == {BadPath, NoPath, CLOSEFILE, Null} \cap Paths = {} /\ Null # CLOSEFILE
ASSUME NamesAssumption == NoPath \notin {BadPath, CLOSEFILE} /\ BadPath # CLOSEFILE

VARIABLES
    \* the fields of client_t that last from one command to the next; dir is
    \* the number of entries still to be read from the stream
    ro_file, wo_file, dir, dirpath,
    live,       \* for each of these fields, the objects made for it and not deleted
    phase,      \* "idle", "request", "reply", "failed" (to be finalized) or "ended"
    req,        \* the command the console has sent last
    inbox,      \* units sent by the console that the server has not consumed
    hungup,     \* the console has hung up
    reply,      \* the server's last answer
    view        \* what the console knows of the session from the answers

fileVars == <<ro_file, wo_file>>
dirVars == <<dir, dirpath>>
vars == <<fileVars, dirVars, live, phase, req, inbox, hungup, reply, view>>

Fields == {"ro_file", "wo_file", "dir", "dirpath"}

SUCCEEDED == 0
FAILED == -1
NONE == -1

PathOps == {"open", "create", "delete", "mkdir", "rmdir", "open_dir", "stat", "get_dir_size"}
ReadOps == {"read_critical", "read_cd", "read", "write"}
DirOps == {"read_dir_entry", "read_dir"}

MaxLen == BUFFER_SIZE + 1      \* bound: the longest read or write asked for

Requests ==
    [op : PathOps, path : Paths \cup {BadPath, NoPath}, len : {0}]
    \cup [op : {"open"}, path : {CLOSEFILE}, len : {0}]
    \cup [op : ReadOps, path : {NoPath}, len : 0 .. MaxLen]
    \cup [op : DirOps \cup {"unknown"}, path : {NoPath}, len : {0}]

\* What the console sends after the command itself.
Payload(r) ==
    IF r.op \in PathOps THEN (IF r.path = NoPath THEN 0 ELSE 1)
    ELSE IF r.op = "write" THEN r.len ELSE 0

\* An answer: whether it has a fixed part, the result in it, the length of
\* what follows as the fixed part announces it, the length of what follows,
\* and whether send() succeeded.
Answer(value, len, body) ==
    [head |-> TRUE, value |-> value, len |-> len, body |-> body, sent |-> TRUE]
Result(value) == Answer(value, 0, 0)
Data(body) == [head |-> FALSE, value |-> 0, len |-> body, body |-> body, sent |-> TRUE]
NoReply == [head |-> FALSE, value |-> NONE, len |-> 0, body |-> 0, sent |-> FALSE]

Init ==
    /\ ro_file = Null /\ wo_file = Null /\ dir = NONE /\ dirpath = Null
    /\ live = [f \in Fields |-> 0]
    /\ phase = "idle"
    /\ req = [op |-> "unknown", path |-> NoPath, len |-> 0]
    /\ inbox = 0 /\ hungup = FALSE
    /\ reply = NoReply
    /\ view = [ro_file |-> Null, wo_file |-> Null, dirpath |-> Null]

-----------------------------------------------------------------------------
(* The console *)

\* A command goes out, with what follows it, or the console is gone before.
Request(r) ==
    /\ phase = "idle" /\ ~hungup
    /\ req' = r
    /\ \/ inbox' = inbox + 1 + Payload(r) /\ hungup' = FALSE
       \/ Payload(r) > 0 /\ inbox' = inbox + 1 /\ hungup' = TRUE
    /\ phase' = "request"
    /\ reply' = NoReply
    /\ UNCHANGED <<fileVars, dirVars, live, view>>

HangUp ==
    /\ phase \in {"idle", "reply"} /\ ~hungup
    /\ hungup' = TRUE
    /\ UNCHANGED <<fileVars, dirVars, live, phase, req, inbox, reply, view>>

\* The answer arrives; what the console concludes from it.
Receive ==
    /\ phase = "reply" /\ ~hungup
    /\ view' =
        CASE req.op = "open" ->
               [view EXCEPT !.ro_file = IF reply.value = NONE THEN Null ELSE req.path]
          [] req.op = "create" ->
               [view EXCEPT !.wo_file = IF reply.value = NONE THEN Null ELSE req.path]
          [] req.op = "open_dir" ->
               [view EXCEPT !.dirpath = IF reply.value = NONE THEN Null ELSE req.path]
          [] req.op = "read_dir_entry" /\ reply.value = NONE -> [view EXCEPT !.dirpath = Null]
          [] req.op = "read_dir" -> [view EXCEPT !.dirpath = Null]
          [] OTHER -> view
    /\ phase' = "idle"
    /\ UNCHANGED <<fileVars, dirVars, live, req, inbox, hungup, reply>>

-----------------------------------------------------------------------------
(* What the handlers have in common *)

Handling(op) == phase = "request" /\ req.op = op

\* The command and n units after it have been received.
Consume(n) == inbox' = inbox - 1 - n

\* The last send() of a handler that is to return ret.
Finish(answer, ret) ==
    \/ reply' = answer /\ phase' = IF ret = SUCCEEDED THEN "reply" ELSE "failed"
    \/ reply' = [answer EXCEPT !.sent = FALSE] /\ phase' = "failed"

\* return FAILED without an answer
Drop == reply' = NoReply /\ phase' = "failed"

\* recv_all() of the path fails, or translate_path() refuses it.
NotReceived == hungup
Untranslated == req.path \in {BadPath, NoPath} \/ MallocMayFail

\* if(x) delete x: how many objects this deletes.
Del(x) == IF x = Null THEN 0 ELSE 1
DelDir == IF dir = NONE THEN 0 ELSE 1

-----------------------------------------------------------------------------
(* The read-only file *)

\* Mutant: "/CLOSEFILE" is noticed before the file is closed.
OpenCloseFirst ==
    /\ Handling("open")
    /\ \/ /\ NotReceived \/ req.path = NoPath \/ MallocMayFail
          /\ Consume(0) /\ Finish(Result(NONE), FAILED)
          /\ UNCHANGED <<ro_file, live>>
       \/ /\ ~NotReceived /\ req.path = CLOSEFILE
          /\ Consume(1) /\ Finish(Result(NONE), SUCCEEDED)
          /\ UNCHANGED <<ro_file, live>>
       \/ /\ ~NotReceived /\ req.path \in Paths
          /\ Consume(1) /\ Finish(Result(0), SUCCEEDED)
          /\ ro_file' = req.path
          /\ live' = [live EXCEPT !["ro_file"] = @ - Del(ro_file) + 1]
    /\ UNCHANGED <<wo_file, dirVars, req, hungup, view>>

\* Opening deletes the old file first.  Then "/CLOSEFILE" is answered with an
\* error that is none; a path that cannot be translated, opened or stat'ed
\* with one that ends the connection.
Open ==
    /\ Handling("open")
    /\ \/ /\ NotReceived \/ req.path = NoPath \/ MallocMayFail
          /\ Consume(0) /\ Finish(Result(NONE), FAILED)
          /\ UNCHANGED <<ro_file, live>>
       \/ /\ ~NotReceived /\ req.path # NoPath
          /\ Consume(1)
          /\ \/ /\ Finish(Result(NONE), IF req.path = CLOSEFILE THEN SUCCEEDED ELSE FAILED)
                /\ ro_file' = Null
                /\ live' = [live EXCEPT !["ro_file"] = @ - Del(ro_file)]
             \/ /\ req.path \in Paths
                /\ Finish(Result(0), SUCCEEDED)
                /\ ro_file' = req.path
                /\ live' = [live EXCEPT !["ro_file"] = @ - Del(ro_file) + 1]
    /\ UNCHANGED <<wo_file, dirVars, req, hungup, view>>

\* No fixed part: the whole length or, after whole buffers, the end of the
\* connection.
ReadFileCritical ==
    /\ Handling("read_critical")
    /\ Consume(0)
    /\ \/ ro_file # Null /\ reply' = Data(req.len) /\ phase' = "reply"
       \/ \E n \in 0 .. req.len :
             /\ n % BUFFER_SIZE = 0 /\ (n = 0 \/ (ro_file # Null /\ n < req.len))
             /\ reply' = [Data(n) EXCEPT !.sent = FALSE] /\ phase' = "failed"
    /\ UNCHANGED <<fileVars, dirVars, live, req, hungup, view>>

ReadCd2048Critical ==
    /\ Handling("read_cd")
    /\ Consume(0)
    /\ \/ ro_file # Null /\ req.len <= BUFFER_SIZE /\ Finish(Data(req.len), SUCCEEDED)
       \/ Drop
    /\ UNCHANGED <<fileVars, dirVars, live, req, hungup, view>>

\* Any error is answered with -1, and the connection goes on.
ReadFile ==
    /\ Handling("read")
    /\ Consume(0)
    /\ \/ /\ ro_file # Null /\ req.len <= BUFFER_SIZE
          /\ \E n \in 0 .. req.len : Finish(Answer(n, n, n), SUCCEEDED)
       \/ Finish(Result(NONE), SUCCEEDED)
    /\ UNCHANGED <<fileVars, dirVars, live, req, hungup, view>>

-----------------------------------------------------------------------------
(* The write-only file, and the commands on a path *)

\* Mutant: the old file is not deleted.
CreateKeepsOld ==
    /\ Handling("create")
    /\ ~NotReceived /\ req.path \in Paths
    /\ Consume(1) /\ Finish(Result(0), SUCCEEDED)
    /\ wo_file' = req.path
    /\ live' = [live EXCEPT !["wo_file"] = @ + 1]
    /\ UNCHANGED <<ro_file, dirVars, req, hungup, view>>

\* The name of a directory closes the file; this, too, ends the connection.
Create ==
    /\ Handling("create")
    /\ \/ MallocMayFail /\ Consume(0) /\ Drop /\ UNCHANGED <<wo_file, live>>
       \/ /\ NotReceived \/ Untranslated
          /\ Consume(IF NotReceived THEN 0 ELSE Payload(req))
          /\ Finish(Result(NONE), FAILED)
          /\ UNCHANGED <<wo_file, live>>
       \/ /\ ~NotReceived /\ req.path \in Paths
          /\ Consume(1)
          /\ \/ /\ Finish(Result(NONE), FAILED)
                /\ wo_file' = Null
                /\ live' = [live EXCEPT !["wo_file"] = @ - Del(wo_file)]
             \/ /\ Finish(Result(0), SUCCEEDED)
                /\ wo_file' = req.path
                /\ live' = [live EXCEPT !["wo_file"] = @ - Del(wo_file) + 1]
    /\ UNCHANGED <<ro_file, dirVars, req, hungup, view>>

\* Mutant: data that was not received is an error like any other.
WriteKeepsConnection ==
    /\ Handling("write")
    /\ \/ /\ wo_file = Null \/ req.len > BUFFER_SIZE \/ hungup
          /\ Consume(0) /\ Finish(Result(NONE), SUCCEEDED)
       \/ /\ wo_file # Null /\ req.len <= BUFFER_SIZE /\ ~hungup
          /\ Consume(req.len) /\ Finish(Result(0), SUCCEEDED)
    /\ UNCHANGED <<fileVars, dirVars, live, req, hungup, view>>

\* Without a file, or with more data than the buffer takes, the data is left
\* on the wire and the connection is given up.
WriteFile ==
    /\ Handling("write")
    /\ \/ /\ wo_file = Null \/ req.len > BUFFER_SIZE \/ hungup
          /\ Consume(0) /\ Finish(Result(NONE), FAILED)
       \/ /\ wo_file # Null /\ req.len <= BUFFER_SIZE /\ ~hungup
          /\ Consume(req.len)
          /\ \/ \E n \in 0 .. req.len : Finish(Result(n), SUCCEEDED)
             \/ Finish(Result(NONE), FAILED)
    /\ UNCHANGED <<fileVars, dirVars, live, req, hungup, view>>

\* A command that does one thing with its path and answers the result of it.
PathCommand(op) ==
    /\ Handling(op)
    /\ \/ MallocMayFail /\ Consume(0) /\ Drop
       \/ /\ NotReceived \/ Untranslated
          /\ Consume(IF NotReceived THEN 0 ELSE Payload(req)) /\ Drop
       \/ /\ ~NotReceived /\ req.path \in Paths
          /\ Consume(1)
          /\ \E n \in {NONE, 0} : Finish(Result(n), SUCCEEDED)
    /\ UNCHANGED <<fileVars, dirVars, live, req, hungup, view>>

DeleteFile == PathCommand("delete")
Mkdir == PathCommand("mkdir")
Rmdir == PathCommand("rmdir")
Stat == PathCommand("stat")
GetDirSize == PathCommand("get_dir_size")

-----------------------------------------------------------------------------
(* The directory *)

OpenDir ==
    /\ Handling("open_dir")
    /\ \/ /\ MallocMayFail /\ Consume(0) /\ Drop
          /\ UNCHANGED <<dirVars, live>>
       \/ /\ NotReceived \/ Untranslated
          /\ Consume(IF NotReceived THEN 0 ELSE Payload(req)) /\ Drop
          /\ UNCHANGED <<dirVars, live>>
       \/ /\ ~NotReceived /\ req.path \in Paths
          /\ Consume(1)
          /\ \/ /\ \E n \in 0 .. MaxEntries : dir' = n
                /\ dirpath' = req.path
                /\ live' = [live EXCEPT !["dir"] = @ - DelDir + 1,
                                        !["dirpath"] = @ - Del(dirpath) + 1]
                /\ Finish(Result(0), SUCCEEDED)
             \/ /\ dir' = NONE /\ dirpath' = Null
                /\ live' = [live EXCEPT !["dir"] = @ - DelDir, !["dirpath"] = @ - Del(dirpath)]
                /\ Finish(Result(NONE), SUCCEEDED)
    /\ UNCHANGED <<fileVars, req, hungup, view>>

\* The end of the stream or an entry that cannot be stat'ed closes the
\* directory.  An entry is answered with its name after the fixed part; if no
\* memory is left for its path, with a fixed part that is all zeros.
ReadDirEntry ==
    /\ Handling("read_dir_entry")
    /\ Consume(0)
    /\ \/ /\ dir = NONE \/ dirpath = Null
          /\ Finish(Result(NONE), SUCCEEDED)
          /\ UNCHANGED <<dirVars, live>>
       \/ /\ dir # NONE /\ dirpath # Null
          /\ dir' = NONE /\ dirpath' = Null
          /\ live' = [live EXCEPT !["dir"] = @ - 1, !["dirpath"] = @ - 1]
          /\ Finish(Result(NONE), SUCCEEDED)
       \/ /\ dir > 0 /\ dirpath # Null
          /\ dir' = dir - 1
          /\ \E d_name_len \in 1 .. MaxEntries :
                \/ Finish(Answer(0, d_name_len, d_name_len), SUCCEEDED)
                \/ MallocMayFail /\ Finish(Answer(0, 0, d_name_len), SUCCEEDED)
          /\ UNCHANGED <<dirpath, live>>
    /\ UNCHANGED <<fileVars, req, hungup, view>>

\* Mutant: the stream is not closed after the listing.
ReadDirKeepsStream ==
    /\ Handling("read_dir")
    /\ Consume(0)
    /\ \E items \in 0 .. MaxEntries : Finish(Answer(items, items, items), SUCCEEDED)
    /\ dir' = NONE
    /\ UNCHANGED <<dirpath, live, fileVars, req, hungup, view>>

\* The whole listing: the stream is closed, its path is kept.
ReadDir ==
    /\ Handling("read_dir")
    /\ Consume(0)
    /\ \/ /\ dir = NONE \/ dirpath = Null \/ MallocMayFail
          /\ Finish(Result(0), SUCCEEDED)
          /\ UNCHANGED <<dir, live>>
       \/ /\ dir # NONE /\ dirpath # Null
          /\ dir' = NONE
          /\ live' = [live EXCEPT !["dir"] = @ - 1]
          /\ \E items \in 0 .. MaxEntries : Finish(Answer(items, items, items), SUCCEEDED)
    /\ UNCHANGED <<dirpath, fileVars, req, hungup, view>>

-----------------------------------------------------------------------------
(* client_thread() *)

Unknown ==
    /\ Handling("unknown")
    /\ Consume(0) /\ Drop
    /\ UNCHANGED <<fileVars, dirVars, live, req, hungup, view>>

Handle ==
    \/ Open \/ ReadFileCritical \/ ReadCd2048Critical \/ ReadFile
    \/ Create \/ WriteFile
    \/ DeleteFile \/ Mkdir \/ Rmdir \/ Stat \/ GetDirSize
    \/ OpenDir \/ ReadDirEntry \/ ReadDir
    \/ Unknown

\* recv_all() of the next command finds the end of the stream.
EndOfStream ==
    /\ phase \in {"idle", "reply"} /\ hungup
    /\ phase' = "failed"
    /\ UNCHANGED <<fileVars, dirVars, live, req, inbox, hungup, reply, view>>

\* finalize_client(), as far as the session's objects go
FinalizeClient ==
    /\ phase = "failed"
    /\ live' = [live EXCEPT !["ro_file"] = @ - Del(ro_file), !["wo_file"] = @ - Del(wo_file),
                            !["dir"] = @ - DelDir, !["dirpath"] = @ - Del(dirpath)]
    /\ ro_file' = Null /\ wo_file' = Null /\ dir' = NONE /\ dirpath' = Null
    /\ phase' = "ended"
    /\ UNCHANGED <<req, inbox, hungup, reply, view>>

Ended == phase = "ended" /\ UNCHANGED vars

Next ==
    \/ \E r \in Requests : Request(r)
    \/ HangUp \/ Receive
    \/ Handle
    \/ EndOfStream \/ FinalizeClient
    \/ Ended

Spec == Init /\ [][Next]_vars

-----------------------------------------------------------------------------
(* Properties *)

SessionTypeOK ==
    /\ ro_file \in Paths \cup {Null} /\ wo_file \in Paths \cup {Null}
    /\ dir \in -1 .. MaxEntries /\ dirpath \in Paths \cup {Null}
    /\ live \in [Fields -> 0 .. 1]
    /\ phase \in {"idle", "request", "reply", "failed", "ended"}
    /\ req \in Requests /\ inbox \in Nat /\ hungup \in BOOLEAN
    /\ reply \in [head : BOOLEAN, value : Int, len : Nat, body : Nat, sent : BOOLEAN]
    /\ view \in [ro_file : Paths \cup {Null}, wo_file : Paths \cup {Null},
                 dirpath : Paths \cup {Null}]

\* What the console reads after the fixed part, by the rules of netiso.h.
Expected(r, answer) ==
    CASE r.op \in {"read_critical", "read_cd"} -> r.len
      [] r.op = "read" -> IF answer.value > 0 THEN answer.value ELSE 0
      [] r.op = "read_dir" -> answer.value
      [] r.op = "read_dir_entry" -> IF answer.value = NONE THEN 0 ELSE answer.len
      [] OTHER -> 0

\* READ_DIR_ENTRY without memory for the entry's path: the name is sent, the
\* fixed part says that it has no characters.
NamelessEntry(r, answer) ==
    MallocMayFail /\ r.op = "read_dir_entry" /\ answer.value = 0 /\ answer.len = 0

\* Whenever a session goes on after a command, both ends agree on where the
\* next one starts: the server has consumed all that the console sent, and
\* has sent exactly what the console is going to read.  The one exception is
\* process_read_dir_entry_cmd() when malloc() fails.
WireAligned ==
    phase = "reply" =>
        /\ inbox = 0
        /\ reply.head = (req.op \notin {"read_critical", "read_cd"})
        /\ reply.body = Expected(req, reply) \/ NamelessEntry(req, reply)

\* Whatever way a handler is left, each object made for a field of client_t
\* is still in that field, and is deleted exactly once; a directory stream is
\* never there without its path; nothing is left after finalize_client().
ObjectsOwned ==
    /\ live["ro_file"] = Del(ro_file) /\ live["wo_file"] = Del(wo_file)
    /\ live["dir"] = DelDir /\ live["dirpath"] = Del(dirpath)
    /\ dir # NONE => dirpath # Null
    /\ phase = "ended" => \A f \in Fields : live[f] = 0

\* Between commands the files of the session are the ones the console knows
\* of from the answers it got, and a directory it has opened and not yet
\* listed to the end is open.
SessionAgrees ==
    phase = "idle" =>
        /\ view.ro_file = ro_file /\ view.wo_file = wo_file
        /\ view.dirpath # Null => dir # NONE /\ dirpath = view.dirpath
=============================================================================
