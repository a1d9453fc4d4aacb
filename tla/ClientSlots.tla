---------------------------- MODULE ClientSlots ----------------------------
(***************************************************************************)
(* The table clients[MAX_CLIENTS] of main.cpp and everything that runs     *)
(* over it: the accept loop of main(), one client_thread() per connection, *)
(* the clients_mutex, the sockets and files behind descriptor numbers      *)
(* that the kernel hands out again as soon as they are closed, and the     *)
(* remote consoles that connect, send requests, hang up and connect again. *)
(*                                                                         *)
(* A connection names the thread that serves it: create_start_thread() is  *)
(* called at most once for every accepted connection.  A request is one    *)
(* message and a handler is one step; both are detailed elsewhere.  What   *)
(* this module keeps of a handler is what the slot table can notice: it    *)
(* loads client->s without the lock before each recv() and send(), it      *)
(* opens and closes files (so that descriptor numbers are recycled), and   *)
(* it may end the connection.                                              *)
(***************************************************************************)
EXTENDS Integers

CONSTANTS
    Conns,            \* connections that may ever arrive; also their threads
    IpOf,             \* the IPv4 address (host order) a connection comes from
    MAX_CLIENTS,      \* number of slots
    FD,               \* descriptor numbers the process may be given
    whitelist_start,  \* first address of the whitelist, 0 for no whitelist
    whitelist_end,    \* last address of the whitelist
    Main,             \* the thread that runs the accept loop
    Nobody            \* no connection, no thread, no holder

ASSUME SlotsAssumption == MAX_CLIENTS \in Nat \ {0}
ASSUME FdAssumption == FD \subseteq Nat /\ 0 \in FD
ASSUME IpAssumption == IpOf \in [Conns -> Nat]
ASSUME WhitelistAssumption == whitelist_start \in Nat /\ whitelist_end \in Nat
ASSUME IdAssumption == Main \notin Conns /\ Nobody \notin Conns \cup {Main}

Slots == 0 .. (MAX_CLIENTS - 1)
Procs == Conns \cup {Main}
NO_SOCKET == -1
NoFile == -1

VARIABLES
    \* the fields of clients[i]; ro_file stands for ro_file, wo_file and dir,
    \* which hold descriptors in the same way
    connected, s, ip_addr, has_thread, thread, buf, ro_file,
    \* the kernel and the heap: what each descriptor number stands for (a
    \* connection's socket, a file opened for a connection), the connections
    \* that were shut down, the connections whose buffer is allocated, the
    \* threads created and not yet joined
    sockets, files, shut, heap, unjoined,
    \* the connections accept() has returned, those whose console hung up
    accepted, hungup,
    \* every thread: where it is, the slot it works on, the copy of a socket
    \* number it holds in a local variable, the connection its system call
    \* works on, and the owner of clients_mutex
    pc, slot, reg, io, lock,
    \* the other locals of the accept loop
    cs, cur, old_s, join_old, old_thread

slotVars == <<connected, s, ip_addr, has_thread, thread, buf, ro_file>>
kernelVars == <<sockets, files, shut, heap, unjoined>>
netVars == <<accepted, hungup>>
procVars == <<pc, slot, reg, io, lock>>
mainVars == <<cs, cur, old_s, join_old, old_thread>>
vars == <<slotVars, kernelVars, netVars, procVars, mainVars>>

MainLabels == {"accept", "lock", "select", "take", "reserve", "close_cs",
               "close_old", "join", "init", "fail_lock", "fail_release",
               "assign", "start", "mark", "exited"}
ThreadLabels == {"none", "load_cmd", "recv", "in_recv", "handle",
                 "load_reply", "send", "in_send", "done"}
FinalizeLabels == {"fin_lock", "fin_take", "fin_clear", "fin_close", "fin_free",
                   "rel_lock", "rel"}

\* The process is there: returning from main() ends every thread with it.
Running == pc[Main] # "exited"

\* A started thread that has not yet given its slot back.
Live(c) == pc[c] \notin {"none", "done"}

Goto(p, label) == pc' = [pc EXCEPT ![p] = label]

\* i is the first slot of the set S, what the for loops of main() look for.
First(i, S) == i \in S /\ \A j \in S : i <= j

FreeFd(fd) == sockets[fd] = Nobody /\ files[fd] = Nobody

Init ==
    /\ connected = [i \in Slots |-> FALSE]
    /\ s = [i \in Slots |-> 0]               \* memset(clients, 0, ...)
    /\ ip_addr = [i \in Slots |-> 0]
    /\ has_thread = [i \in Slots |-> FALSE]
    /\ thread = [i \in Slots |-> Nobody]
    /\ buf = [i \in Slots |-> Nobody]
    /\ ro_file = [i \in Slots |-> NoFile]
    /\ sockets = [fd \in FD |-> Nobody]
    /\ files = [fd \in FD |-> Nobody]
    /\ shut = {} /\ heap = {} /\ unjoined = {}
    /\ accepted = {} /\ hungup = {}
    /\ pc = [p \in Procs |-> IF p = Main THEN "accept" ELSE "none"]
    /\ slot = [p \in Procs |-> 0]
    /\ reg = [p \in Procs |-> NO_SOCKET]
    /\ io = [c \in Conns |-> Nobody]
    /\ lock = Nobody
    /\ cs = NO_SOCKET /\ cur = Nobody /\ old_s = NO_SOCKET
    /\ join_old = FALSE /\ old_thread = Nobody

-----------------------------------------------------------------------------
(* The consoles.  What they send is part of RecvOk. *)

HangUp(c) ==
    /\ Running /\ c \in accepted \ hungup
    /\ hungup' = hungup \cup {c}
    /\ UNCHANGED <<slotVars, kernelVars, accepted, procVars, mainVars>>

-----------------------------------------------------------------------------
(* The mutex and the descriptors, for any thread p *)

\* Mutant: the critical sections do not exclude each other.
MutexLockIgnored(p, from, to) ==
    /\ Running /\ pc[p] = from
    /\ lock' = p
    /\ Goto(p, to)
    /\ UNCHANGED <<slotVars, kernelVars, netVars, slot, reg, io, mainVars>>

MutexLock(p, from, to) ==
    /\ Running /\ pc[p] = from /\ lock = Nobody
    /\ lock' = p
    /\ Goto(p, to)
    /\ UNCHANGED <<slotVars, kernelVars, netVars, slot, reg, io, mainVars>>

\* close(): whatever the number stands for now is closed.
CloseFd(fd) ==
    /\ sockets' = IF fd = NO_SOCKET THEN sockets ELSE [sockets EXCEPT ![fd] = Nobody]
    /\ files' = IF fd = NO_SOCKET THEN files ELSE [files EXCEPT ![fd] = Nobody]

\* Mutant: the socket is closed without a shutdown().
CloseWithoutShutdown(fd) ==
    /\ shut' = shut
    /\ CloseFd(fd)
    /\ UNCHANGED <<heap, unjoined>>

\* shutdown() and closesocket(), skipped when there is no socket.
ShutdownAndClose(fd) ==
    /\ shut' = IF fd # NO_SOCKET /\ sockets[fd] # Nobody
               THEN shut \cup {sockets[fd]} ELSE shut
    /\ CloseFd(fd)
    /\ UNCHANGED <<heap, unjoined>>

\* The locals of an iteration go out of scope.
EndIteration ==
    /\ slot' = [slot EXCEPT ![Main] = 0]
    /\ cs' = NO_SOCKET /\ cur' = Nobody /\ old_s' = NO_SOCKET
    /\ join_old' = FALSE /\ old_thread' = Nobody

-----------------------------------------------------------------------------
(* finalize_client() and the release of the slot, run by the client's own   *)
(* thread or, when that thread could not be created, by the accept loop.    *)

FinTake(p) ==
    /\ Running /\ pc[p] = "fin_take"
    /\ reg' = [reg EXCEPT ![p] = s[slot[p]]]
    /\ Goto(p, "fin_clear")
    /\ UNCHANGED <<slotVars, kernelVars, netVars, slot, io, lock, mainVars>>

FinClear(p) ==
    /\ Running /\ pc[p] = "fin_clear"
    /\ s' = [s EXCEPT ![slot[p]] = NO_SOCKET]
    /\ lock' = Nobody
    /\ Goto(p, "fin_close")
    /\ UNCHANGED <<connected, ip_addr, has_thread, thread, buf, ro_file,
                   kernelVars, netVars, slot, reg, io, mainVars>>

FinClose(p) ==
    /\ Running /\ pc[p] = "fin_close"
    /\ ShutdownAndClose(reg[p])
    /\ reg' = [reg EXCEPT ![p] = NO_SOCKET]
    /\ Goto(p, "fin_free")
    /\ UNCHANGED <<slotVars, netVars, slot, io, lock, mainVars>>

\* Mutant: the buffer is not freed.
FinFreeKeepsBuffer(p) ==
    /\ Running /\ pc[p] = "fin_free"
    /\ CloseFd(ro_file[slot[p]])
    /\ ro_file' = [ro_file EXCEPT ![slot[p]] = NoFile]
    /\ heap' = heap
    /\ buf' = [buf EXCEPT ![slot[p]] = Nobody]
    /\ Goto(p, "rel_lock")
    /\ UNCHANGED <<connected, s, ip_addr, has_thread, thread, shut, unjoined,
                   netVars, slot, reg, io, lock, mainVars>>

FinFree(p) ==
    /\ Running /\ pc[p] = "fin_free"
    /\ CloseFd(ro_file[slot[p]])
    /\ ro_file' = [ro_file EXCEPT ![slot[p]] = NoFile]
    /\ heap' = heap \ {buf[slot[p]]}
    /\ buf' = [buf EXCEPT ![slot[p]] = Nobody]
    /\ Goto(p, "rel_lock")
    /\ UNCHANGED <<connected, s, ip_addr, has_thread, thread, shut, unjoined,
                   netVars, slot, reg, io, lock, mainVars>>

Release(p) ==
    /\ Running /\ pc[p] = "rel"
    /\ connected' = [connected EXCEPT ![slot[p]] = FALSE]
    /\ lock' = Nobody
    /\ IF p = Main THEN Goto(p, "accept") /\ EndIteration
                   ELSE Goto(p, "done") /\ UNCHANGED <<slot, mainVars>>
    /\ UNCHANGED <<s, ip_addr, has_thread, thread, buf, ro_file,
                   kernelVars, netVars, reg, io>>

Finalize(p) ==
    \/ MutexLock(p, "fin_lock", "fin_take")
    \/ FinTake(p) \/ FinClear(p)
    \/ FinClose(p)
    \/ FinFree(p)
    \/ MutexLock(p, "rel_lock", "rel")
    \/ Release(p)

-----------------------------------------------------------------------------
(* client_thread() *)

\* The argument of recv() or send(): client->s, read without the lock.
LoadSocket(c, from, to) ==
    /\ Running /\ pc[c] = from
    /\ reg' = [reg EXCEPT ![c] = s[slot[c]]]
    /\ Goto(c, to)
    /\ UNCHANGED <<slotVars, kernelVars, netVars, slot, io, lock, mainVars>>

\* The connection that a recv() or send() on the loaded number reaches.
Reached(c) == IF reg[c] = NO_SOCKET THEN Nobody ELSE sockets[reg[c]]

\* The kernel looks the number up once, when recv() or send() is called: the
\* call fails (EBADF, ENOTSOCK) or from then on works on that connection,
\* even if its number is closed meanwhile.
EnterCall(c, from, to) ==
    /\ Running /\ pc[c] = from
    /\ io' = [io EXCEPT ![c] = Reached(c)]
    /\ reg' = [reg EXCEPT ![c] = NO_SOCKET]
    /\ Goto(c, IF Reached(c) = Nobody THEN "fin_lock" ELSE to)
    /\ UNCHANGED <<slotVars, kernelVars, netVars, slot, lock, mainVars>>

LeaveCall(c, from, to) ==
    /\ Running /\ pc[c] = from
    /\ io' = [io EXCEPT ![c] = Nobody]
    /\ Goto(c, to)
    /\ UNCHANGED <<slotVars, kernelVars, netVars, slot, reg, lock, mainVars>>

\* recv_all() returns a whole request that the console has sent.
RecvOk(c) == io[c] \notin hungup /\ LeaveCall(c, "in_recv", "handle")

\* Mutant: the end of the stream is not taken for an error.
RecvFailIgnoresEof(c) ==
    /\ io[c] \in shut \cup hungup
    /\ LeaveCall(c, "in_recv", IF io[c] \in shut THEN "fin_lock" ELSE "load_cmd")

\* recv_all() returns anything else: only an end of the connection, from
\* either side, wakes a thread up that waits for a request.
RecvFail(c) == io[c] \in shut \cup hungup /\ LeaveCall(c, "in_recv", "fin_lock")

\* A handler that replaces the session's file: the old one is deleted, then
\* the new one is opened, on any free number, or cannot be.
HandleOpen(c) ==
    /\ Running /\ pc[c] = "handle"
    /\ LET old == ro_file[slot[c]]
           left == IF old = NoFile THEN files ELSE [files EXCEPT ![old] = Nobody]
       IN \/ \E fd \in FD :
                /\ sockets[fd] = Nobody /\ left[fd] = Nobody
                /\ files' = [left EXCEPT ![fd] = c]
                /\ ro_file' = [ro_file EXCEPT ![slot[c]] = fd]
          \/ /\ files' = left
             /\ ro_file' = [ro_file EXCEPT ![slot[c]] = NoFile]
    /\ Goto(c, "load_reply")
    /\ UNCHANGED <<connected, s, ip_addr, has_thread, thread, buf, sockets, shut,
                   heap, unjoined, netVars, slot, reg, io, lock, mainVars>>

\* Any other handler: it answers, or it fails without an answer.
HandleOther(c) ==
    /\ Running /\ pc[c] = "handle"
    /\ \/ Goto(c, "load_reply")
       \/ Goto(c, "fin_lock")
    /\ UNCHANGED <<slotVars, kernelVars, netVars, slot, reg, io, lock, mainVars>>

\* The answer goes out; the handler then returns SUCCEEDED or FAILED.
SendOk(c) ==
    /\ io[c] \notin shut
    /\ LeaveCall(c, "in_send", "load_cmd") \/ LeaveCall(c, "in_send", "fin_lock")

SendFail(c) == io[c] \in shut \cup hungup /\ LeaveCall(c, "in_send", "fin_lock")

\* What a client thread does by itself.  A console that asks for nothing, or
\* does not read its answer, blocks the thread for as long as it likes, so
\* RecvOk and SendOk are not among the steps that a thread must take.
ThreadStep(c) ==
    \/ LoadSocket(c, "load_cmd", "recv")
    \/ EnterCall(c, "recv", "in_recv")
    \/ RecvFail(c)
    \/ HandleOpen(c) \/ HandleOther(c)
    \/ LoadSocket(c, "load_reply", "send")
    \/ EnterCall(c, "send", "in_send")
    \/ SendFail(c)
    \/ Finalize(c)

-----------------------------------------------------------------------------
(* The accept loop of main() *)

Accept(c) ==
    /\ pc[Main] = "accept" /\ c \notin accepted
    /\ \E fd \in FD :
          /\ FreeFd(fd)
          /\ sockets' = [sockets EXCEPT ![fd] = c]
          /\ cs' = fd
    /\ accepted' = accepted \cup {c}
    /\ cur' = c
    /\ Goto(Main, "lock")
    /\ UNCHANGED <<slotVars, files, shut, heap, unjoined, hungup,
                   slot, reg, io, lock, old_s, join_old, old_thread>>

\* accept() fails (no descriptor left, an aborted connection): the loop is
\* left and main() returns.
AcceptError ==
    /\ pc[Main] = "accept"
    /\ Goto(Main, "exited")
    /\ UNCHANGED <<slotVars, kernelVars, netVars, slot, reg, io, lock, mainVars>>

\* Mutant: a reconnection is treated as a new client.
SameClientNever == {}

SameClient == {i \in Slots : connected[i] /\ ip_addr[i] = IpOf[cur]}
FreeSlots == {i \in Slots : ~connected[i]}

\* Mutant: the end of the range is off by one.
NotWhitelistedLoose(ip) ==
    /\ whitelist_start # 0
    /\ ip < whitelist_start \/ ip > whitelist_end + 1

NotWhitelisted(ip) ==
    /\ whitelist_start # 0
    /\ ip < whitelist_start \/ ip > whitelist_end

\* The first slot of S is chosen, and its socket read if it is to be taken.
Choose(S, to) ==
    /\ \E i \in Slots :
          /\ First(i, S)
          /\ slot' = [slot EXCEPT ![Main] = i]
          /\ old_s' = IF to = "take" THEN s[i] ELSE NO_SOCKET
    /\ Goto(Main, to)
    /\ UNCHANGED <<slotVars, kernelVars, netVars, reg, io, lock, cs, cur,
                   join_old, old_thread>>

Reconnect == pc[Main] = "select" /\ Choose(SameClient, "take")

\* Mutant: what a slot without a thread holds as its socket is taken as well.
TakeFreeSlotAndSocket ==
    /\ pc[Main] = "select" /\ SameClient = {}
    /\ ~NotWhitelisted(IpOf[cur])
    /\ Choose(FreeSlots, "take")

\* Mutant: a full table is not noticed.
TakeFreeSlotUnchecked ==
    /\ pc[Main] = "select" /\ SameClient = {}
    /\ ~NotWhitelisted(IpOf[cur])
    /\ \E i \in 0 .. MAX_CLIENTS :
          /\ First(i, FreeSlots \cup {MAX_CLIENTS})
          /\ slot' = [slot EXCEPT ![Main] = i]
    /\ old_s' = NO_SOCKET
    /\ Goto(Main, "reserve")
    /\ UNCHANGED <<slotVars, kernelVars, netVars, reg, io, lock, cs, cur,
                   join_old, old_thread>>

TakeFreeSlot ==
    /\ pc[Main] = "select" /\ SameClient = {}
    /\ ~NotWhitelisted(IpOf[cur])
    /\ Choose(FreeSlots, "reserve")

TakeSocket ==
    /\ pc[Main] = "take"
    /\ s' = [s EXCEPT ![slot[Main]] = NO_SOCKET]
    /\ Goto(Main, "reserve")
    /\ UNCHANGED <<connected, ip_addr, has_thread, thread, buf, ro_file,
                   kernelVars, netVars, slot, reg, io, lock, mainVars>>

\* Mutant: the previous thread of the slot is not joined.
ReserveForgetsThread ==
    /\ pc[Main] = "reserve"
    /\ connected' = [connected EXCEPT ![slot[Main]] = TRUE]
    /\ join_old' = FALSE
    /\ old_thread' = thread[slot[Main]]
    /\ has_thread' = [has_thread EXCEPT ![slot[Main]] = FALSE]
    /\ lock' = Nobody
    /\ Goto(Main, "close_old")
    /\ UNCHANGED <<s, ip_addr, thread, buf, ro_file, kernelVars, netVars,
                   slot, reg, io, cs, cur, old_s>>

Reserve ==
    /\ pc[Main] = "reserve"
    /\ connected' = [connected EXCEPT ![slot[Main]] = TRUE]
    /\ join_old' = has_thread[slot[Main]]
    /\ old_thread' = thread[slot[Main]]
    /\ has_thread' = [has_thread EXCEPT ![slot[Main]] = FALSE]
    /\ lock' = Nobody
    /\ Goto(Main, "close_old")
    /\ UNCHANGED <<s, ip_addr, thread, buf, ro_file, kernelVars, netVars,
                   slot, reg, io, cs, cur, old_s>>

\* Mutant: a full table is noticed before a reconnection is.
RejectReconnection ==
    /\ pc[Main] = "select"
    /\ NotWhitelisted(IpOf[cur]) \/ FreeSlots = {}
    /\ lock' = Nobody
    /\ Goto(Main, "close_cs")
    /\ UNCHANGED <<slotVars, kernelVars, netVars, slot, reg, io, mainVars>>

Reject ==
    /\ pc[Main] = "select" /\ SameClient = {}
    /\ NotWhitelisted(IpOf[cur]) \/ FreeSlots = {}
    /\ lock' = Nobody
    /\ Goto(Main, "close_cs")
    /\ UNCHANGED <<slotVars, kernelVars, netVars, slot, reg, io, mainVars>>

CloseCs ==
    /\ pc[Main] = "close_cs"
    /\ CloseFd(cs)
    /\ Goto(Main, "accept")
    /\ EndIteration
    /\ UNCHANGED <<slotVars, shut, heap, unjoined, netVars, reg, io, lock>>

CloseOld ==
    /\ pc[Main] = "close_old"
    /\ ShutdownAndClose(old_s)
    /\ Goto(Main, "join")
    /\ UNCHANGED <<slotVars, netVars, slot, reg, io, lock, mainVars>>

\* Mutant: the thread is detached instead of joined.
JoinOldNoWait ==
    /\ pc[Main] = "join"
    /\ unjoined' = IF join_old THEN unjoined \ {old_thread} ELSE unjoined
    /\ Goto(Main, "init")
    /\ UNCHANGED <<slotVars, sockets, files, shut, heap, netVars, slot, reg, io, lock, mainVars>>

JoinOld ==
    /\ pc[Main] = "join"
    /\ join_old => pc[old_thread] = "done"
    /\ unjoined' = IF join_old THEN unjoined \ {old_thread} ELSE unjoined
    /\ Goto(Main, "init")
    /\ UNCHANGED <<slotVars, sockets, files, shut, heap, netVars, slot, reg, io, lock, mainVars>>

\* initialize_client(): memset(), then malloc(), which may fail.
InitializeClient ==
    /\ pc[Main] = "init"
    /\ LET i == slot[Main] IN
       /\ s' = [s EXCEPT ![i] = NO_SOCKET]
       /\ ip_addr' = [ip_addr EXCEPT ![i] = 0]
       /\ has_thread' = [has_thread EXCEPT ![i] = FALSE]
       /\ thread' = [thread EXCEPT ![i] = Nobody]
       /\ ro_file' = [ro_file EXCEPT ![i] = NoFile]
       /\ \/ /\ buf' = [buf EXCEPT ![i] = cur]
             /\ heap' = heap \cup {cur}
             /\ connected' = [connected EXCEPT ![i] = TRUE]
             /\ Goto(Main, "assign")
          \/ /\ buf' = [buf EXCEPT ![i] = Nobody]
             /\ heap' = heap
             /\ connected' = [connected EXCEPT ![i] = FALSE]
             /\ Goto(Main, "fail_lock")
    /\ UNCHANGED <<sockets, files, shut, unjoined, netVars, slot, reg, io, lock, mainVars>>

\* Mutant: the new socket is not closed when memory is short.
ReleaseFailedKeepsCs ==
    /\ pc[Main] = "fail_release"
    /\ connected' = [connected EXCEPT ![slot[Main]] = FALSE]
    /\ lock' = Nobody
    /\ Goto(Main, "accept")
    /\ UNCHANGED <<s, ip_addr, has_thread, thread, buf, ro_file, kernelVars,
                   netVars, slot, reg, io, mainVars>>

ReleaseFailed ==
    /\ pc[Main] = "fail_release"
    /\ connected' = [connected EXCEPT ![slot[Main]] = FALSE]
    /\ lock' = Nobody
    /\ Goto(Main, "close_cs")
    /\ UNCHANGED <<s, ip_addr, has_thread, thread, buf, ro_file, kernelVars,
                   netVars, slot, reg, io, mainVars>>

AssignSocket ==
    /\ pc[Main] = "assign"
    /\ s' = [s EXCEPT ![slot[Main]] = cs]
    /\ ip_addr' = [ip_addr EXCEPT ![slot[Main]] = IpOf[cur]]
    /\ Goto(Main, "start")
    /\ UNCHANGED <<connected, has_thread, thread, buf, ro_file, kernelVars,
                   netVars, slot, reg, io, lock, mainVars>>

\* create_start_thread(): the thread may run before the accept loop goes on.
StartThread ==
    /\ pc[Main] = "start"
    /\ \/ /\ thread' = [thread EXCEPT ![slot[Main]] = cur]
          /\ pc' = [pc EXCEPT ![Main] = "mark", ![cur] = "load_cmd"]
          /\ slot' = [slot EXCEPT ![cur] = slot[Main]]
          /\ unjoined' = unjoined \cup {cur}
       \/ /\ Goto(Main, "fin_lock")
          /\ UNCHANGED <<thread, slot, unjoined>>
    /\ UNCHANGED <<connected, s, ip_addr, has_thread, buf, ro_file,
                   sockets, files, shut, heap,
                   netVars, reg, io, lock, mainVars>>

\* Mutant: has_thread stays 0.
MarkThreadForgets ==
    /\ pc[Main] = "mark"
    /\ has_thread' = has_thread
    /\ Goto(Main, "accept")
    /\ EndIteration
    /\ UNCHANGED <<connected, s, ip_addr, thread, buf, ro_file, kernelVars,
                   netVars, reg, io, lock>>

MarkThread ==
    /\ pc[Main] = "mark"
    /\ has_thread' = [has_thread EXCEPT ![slot[Main]] = TRUE]
    /\ Goto(Main, "accept")
    /\ EndIteration
    /\ UNCHANGED <<connected, s, ip_addr, thread, buf, ro_file, kernelVars,
                   netVars, reg, io, lock>>

\* The steps between one accept() and the next.
MainStep ==
    \/ MutexLock(Main, "lock", "select")
    \/ Reconnect \/ TakeSocket \/ TakeFreeSlot \/ Reject \/ Reserve
    \/ CloseCs \/ CloseOld \/ JoinOld
    \/ InitializeClient
    \/ MutexLock(Main, "fail_lock", "fail_release")
    \/ ReleaseFailed
    \/ AssignSocket \/ StartThread \/ MarkThread
    \/ Finalize(Main)

-----------------------------------------------------------------------------
\* Nothing is left to happen: the process has ended, or every connection has
\* come and gone and the accept loop waits for one that never comes.
Idle ==
    /\ \/ ~Running
       \/ /\ pc[Main] = "accept" /\ accepted = Conns
          /\ \A c \in Conns : ~Live(c)
    /\ UNCHANGED vars

Next ==
    \/ \E c \in Conns : HangUp(c)
    \/ \E c \in Conns : ThreadStep(c) \/ RecvOk(c) \/ SendOk(c)
    \/ \E c \in Conns : Accept(c)
    \/ AcceptError
    \/ MainStep
    \/ Idle

Spec == Init /\ [][Next]_vars

\* The scheduler runs every thread that can run; nothing is assumed of the
\* consoles, of accept() failing, or of a send() that a console must drain.
Fairness == WF_vars(MainStep) /\ \A c \in Conns : WF_vars(ThreadStep(c))

FairSpec == Spec /\ Fairness

-----------------------------------------------------------------------------
(* Properties *)

TypeOK ==
    /\ connected \in [Slots -> BOOLEAN]
    /\ s \in [Slots -> FD \cup {NO_SOCKET}]
    /\ ip_addr \in [Slots -> Nat]
    /\ has_thread \in [Slots -> BOOLEAN]
    /\ thread \in [Slots -> Conns \cup {Nobody}]
    /\ buf \in [Slots -> Conns \cup {Nobody}]
    /\ ro_file \in [Slots -> FD \cup {NoFile}]
    /\ sockets \in [FD -> Conns \cup {Nobody}]
    /\ files \in [FD -> Conns \cup {Nobody}]
    /\ shut \subseteq Conns /\ heap \subseteq Conns /\ unjoined \subseteq Conns
    /\ accepted \subseteq Conns /\ hungup \subseteq accepted
    /\ pc \in [Procs -> MainLabels \cup ThreadLabels \cup FinalizeLabels]
    /\ pc[Main] \in MainLabels \cup FinalizeLabels
    /\ \A c \in Conns : pc[c] \in ThreadLabels \cup FinalizeLabels
    /\ slot \in [Procs -> Slots]
    /\ reg \in [Procs -> FD \cup {NO_SOCKET}]
    /\ io \in [Conns -> Conns \cup {Nobody}]
    /\ lock \in Procs \cup {Nobody}
    /\ cs \in FD \cup {NO_SOCKET} /\ old_s \in FD \cup {NO_SOCKET}
    /\ cur \in Conns \cup {Nobody}
    /\ join_old \in BOOLEAN /\ old_thread \in Conns \cup {Nobody}

\* The connection whose slot p tears down.
Served(p) == IF p = Main THEN cur ELSE p

\* Between taking a socket or a file out of the table and closing its number,
\* the number still stands for that very socket or file: nobody else closed
\* it in between, so it cannot have been recycled.  (finalize_client(): "never
\* both, and never a descriptor number that has already been recycled onto
\* another connection".)
ClosesOnlyItsOwn ==
    /\ pc[Main] = "close_old" /\ old_s # NO_SOCKET =>
          sockets[old_s] = old_thread
    /\ pc[Main] = "close_cs" => sockets[cs] = cur
    /\ \A p \in Procs :
          /\ pc[p] = "fin_close" /\ reg[p] # NO_SOCKET =>
                sockets[reg[p]] = Served(p)
          /\ pc[p] = "fin_free" /\ ro_file[slot[p]] # NoFile =>
                files[ro_file[slot[p]]] = Served(p)

\* A thread that loaded client->s before the accept loop took the socket away
\* may use the stale number in recv() or send(), but never reaches another
\* console's connection with it: no connection is accepted before the thread
\* has been joined.
NoForeignTraffic ==
    \A c \in Conns :
        /\ pc[c] \in {"recv", "send"} => Reached(c) \in {c, Nobody}
        /\ io[c] \in {c, Nobody}

\* Somebody is still to run finalize_client() on slot i.
InUse(i) ==
    \/ \E c \in Conns : Live(c) /\ slot[c] = i
    \/ pc[Main] \in {"start", "fin_lock", "fin_take", "fin_clear"} /\ slot[Main] = i

\* Who may still close descriptor number fd as the socket of a connection.
SocketHolders(fd) ==
    {<<"slot", i>> : i \in {j \in Slots : s[j] = fd /\ InUse(j)}}
    \cup {<<"fin", p>> : p \in {q \in Procs : pc[q] = "fin_close" /\ reg[q] = fd}}
    \cup (IF pc[Main] \in {"reserve", "close_old"} /\ old_s = fd THEN {<<"old", Main>>} ELSE {})
    \cup (IF cs = fd /\ pc[Main] \in {"lock", "select", "take", "reserve", "close_cs",
                "close_old", "join", "init", "fail_lock", "fail_release", "assign"}
          THEN {<<"cs", Main>>} ELSE {})

\* No descriptor is leaked: every open socket is referred to from the slot
\* table or from a thread about to close it, by one reference only, and every
\* open file from a slot.
NoDescriptorLeak ==
    \A fd \in FD :
        /\ sockets[fd] # Nobody => \E h \in SocketHolders(fd) : SocketHolders(fd) = {h}
        /\ files[fd] # Nobody => \E i \in Slots : ro_file[i] = fd

\* A thread that still uses its slot has its own, allocated buffer there, and
\* no buffer is lost to the memset() of the next client.
BuffersOwned ==
    /\ \A c \in Conns : Live(c) /\ pc[c] \notin {"rel_lock", "rel"} =>
          buf[slot[c]] = c /\ c \in heap
    /\ \A c \in heap : \E i \in Slots : buf[i] = c

\* Threads that have not released their slot use different slots, and the
\* accept loop writes a slot (initialize_client() and after) only when no such
\* thread is left on it, up to the thread it starts itself.
SlotExclusive ==
    /\ \A c, d \in Conns : Live(c) /\ Live(d) /\ slot[c] = slot[d] => c = d
    /\ pc[Main] \in {"init", "fail_lock", "fail_release", "assign", "start"} \cup FinalizeLabels =>
          \A c \in Conns : Live(c) => slot[c] # slot[Main]

\* A console address is served by at most one thread, whatever the order in
\* which its old thread ends and its new connection comes in.
OneThreadPerAddress ==
    \A c, d \in Conns : Live(c) /\ Live(d) /\ IpOf[c] = IpOf[d] => c = d

\* The addresses that the whitelist admits.
Whitelist == IF whitelist_start = 0 THEN Nat ELSE whitelist_start .. whitelist_end

\* Only whitelisted addresses are served, although a reconnection is not
\* compared with the whitelist.
OnlyWhitelistedServed == \A c \in Conns : Live(c) => IpOf[c] \in Whitelist

\* Every thread created is joined exactly once: one that is not joined yet is
\* recorded in its slot or is in the accept loop's hands, and the accept loop
\* joins only such a thread.
EveryThreadJoinedOnce ==
    /\ \A c \in unjoined :
          \/ \E i \in Slots : has_thread[i] /\ thread[i] = c
          \/ pc[Main] \in {"close_old", "join"} /\ join_old /\ old_thread = c
          \/ pc[Main] = "mark" /\ cur = c
    /\ pc[Main] \in {"close_old", "join"} /\ join_old => old_thread \in unjoined
    /\ \A i, j \in Slots :
          has_thread[i] /\ has_thread[j] /\ thread[i] = thread[j] => i = j

\* A connection is shut down by its own thread, or by the accept loop for a
\* newer connection from the same address; no step ends a bystander's session.
ShutDownBySelfOrSuccessor ==
    [][\A c \in shut' \ shut :
          \/ pc[c] = "fin_close"
          \/ cur # c /\ IpOf[cur] = IpOf[c]
          \/ cur = c /\ ~Live(c)]_vars

\* The accept loop always comes back to accept(), even when it has to join a
\* thread that is in the middle of a request.
AcceptLoopReturns == (pc[Main] # "accept") ~> (pc[Main] \in {"accept", "exited"})

\* The thread of a console that hung up ends and gives its slot back.
HungUpConsoleReleased ==
    \A c \in Conns : (Live(c) /\ c \in hungup) ~> (~Live(c) \/ ~Running)

Deciding == {"lock", "select"}
Seating == {"take", "reserve", "close_old", "join", "init", "assign", "start"}

\* The session pool that the slot table implements: a connection is seated
\* from the start of its thread to the release of its slot, and the accept
\* loop's current connection is the newcomer until its thread runs or it is
\* given up.
Pool == INSTANCE SessionPool WITH
    Seats <- Slots,
    NoSeat <- -1,
    Admitted <- Whitelist,
    seat <- [c \in Conns |-> IF Live(c) THEN slot[c] ELSE -1],
    left <- {c \in Conns : pc[c] = "done"},
    newcomer <- IF pc[Main] \in Deciding \cup Seating THEN cur ELSE Nobody,
    offered <- IF pc[Main] \in Seating THEN slot[Main] ELSE -1

\* The slot table implements the session pool: in particular a console that
\* reconnects is never turned away for lack of a slot, and its new session
\* begins only when the old one is over.
ImplementsSessionPool == Pool!Spec
=============================================================================
