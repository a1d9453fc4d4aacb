------------------------ MODULE ClientSlots_proofs ------------------------
(***************************************************************************)
(* Proofs about ClientSlots for any set of connections, any number of      *)
(* slots, any descriptor numbers and any whitelist.  First what the lock   *)
(* and the slots are for, and that the table of slots implements           *)
(* SessionPool; then what the sessions acquire: nobody closes a descriptor *)
(* number that stands for something else by then, and no thread talks to   *)
(* another console; every thread is joined once, every buffer freed once,  *)
(* every descriptor closed, and no session is shut down but by itself or   *)
(* for its successor.                                                      *)
(***************************************************************************)
EXTENDS ClientSlots, TLAPS

\* While the accept loop handles a connection, cur is that connection.
CurKnown == pc[Main] \notin {"accept", "exited"} => cur \in Conns

Typed == TypeOK /\ CurKnown

LEMMA TypedInit == Init => Typed
<1> SUFFICES ASSUME Init PROVE Typed
  OBVIOUS
<1> USE SlotsAssumption, FdAssumption, IpAssumption, IdAssumption
<1>1. 0 \in Slots
  BY DEF Slots
<1>2. TypeOK
  BY <1>1 DEF TypeOK, Init, NO_SOCKET, NoFile, Procs, MainLabels, ThreadLabels
<1>3. CurKnown
  BY DEF CurKnown, Init, Procs
<1> QED
  BY <1>2, <1>3 DEF Typed

LEMMA TypedStep == Typed /\ [Next]_vars => Typed'
<1> SUFFICES ASSUME Typed, [Next]_vars PROVE Typed'
  OBVIOUS
<1> USE SlotsAssumption, FdAssumption, IpAssumption, IdAssumption
<1> USE DEF Typed, TypeOK, CurKnown, slotVars, kernelVars, netVars, procVars, mainVars,
            Goto, NO_SOCKET, NoFile, Procs, MainLabels, ThreadLabels, FinalizeLabels
<1>0. 0 \in Slots
  BY DEF Slots
<1>1. ASSUME NEW c \in Conns, HangUp(c) PROVE Typed'
  BY <1>1 DEF HangUp
<1>2. ASSUME NEW p \in Procs, NEW from, NEW to \in MainLabels \cup FinalizeLabels,
             p # Main => to \in FinalizeLabels, to # "accept",
             from # "accept", from # "exited", MutexLock(p, from, to) PROVE Typed'
  BY <1>2 DEF MutexLock
<1>3. ASSUME NEW p \in Procs, FinTake(p) PROVE Typed'
  BY <1>3 DEF FinTake
<1>4. ASSUME NEW p \in Procs, FinClear(p) PROVE Typed'
  BY <1>4 DEF FinClear
<1>5. ASSUME NEW p \in Procs, FinClose(p) PROVE Typed'
  BY <1>5 DEF FinClose, ShutdownAndClose, CloseFd
<1>6. ASSUME NEW p \in Procs, FinFree(p) PROVE Typed'
  BY <1>6 DEF FinFree, CloseFd
<1>7. ASSUME NEW p \in Procs, Release(p) PROVE Typed'
  <2>1. CASE p = Main
    <3>1. /\ connected' \in [Slots -> BOOLEAN]
          /\ slot' \in [Procs -> Slots]
          /\ pc' \in [Procs -> MainLabels \cup ThreadLabels \cup FinalizeLabels]
          /\ pc'[Main] = "accept"
          /\ \A c \in Conns : pc'[c] = pc[c]
      BY <1>0, <1>7, <2>1 DEF Release, EndIteration
    <3> QED
      BY <1>7, <2>1, <3>1 DEF Release, EndIteration
  <2>2. CASE p # Main
    BY <1>7, <2>2 DEF Release
  <2> QED
    BY <2>1, <2>2
<1>8. ASSUME NEW c \in Conns, NEW from, NEW to \in ThreadLabels, LoadSocket(c, from, to) PROVE Typed'
  BY <1>8 DEF LoadSocket
<1>9. ASSUME NEW c \in Conns, NEW from, NEW to \in ThreadLabels, EnterCall(c, from, to) PROVE Typed'
  <2>1. Reached(c) \in Conns \cup {Nobody}
    BY DEF Reached
  <2> QED
    BY <1>9, <2>1 DEF EnterCall
<1>10. ASSUME NEW c \in Conns, NEW from, NEW to \in ThreadLabels \cup FinalizeLabels,
              LeaveCall(c, from, to) PROVE Typed'
  BY <1>10 DEF LeaveCall
<1>11. ASSUME NEW c \in Conns, HandleOpen(c) PROVE Typed'
  BY <1>11 DEF HandleOpen
<1>12. ASSUME NEW c \in Conns, HandleOther(c) PROVE Typed'
  BY <1>12 DEF HandleOther
<1>13. ASSUME NEW c \in Conns, Accept(c) PROVE Typed'
  BY <1>13 DEF Accept
<1>14. ASSUME AcceptError PROVE Typed'
  BY <1>14 DEF AcceptError
<1>15. ASSUME NEW S, NEW to \in {"take", "reserve"}, pc[Main] = "select", Choose(S, to) PROVE Typed'
  BY <1>15 DEF Choose
<1>16. ASSUME TakeSocket PROVE Typed'
  BY <1>16 DEF TakeSocket
<1>17. ASSUME Reserve PROVE Typed'
  BY <1>17 DEF Reserve
<1>18. ASSUME Reject PROVE Typed'
  BY <1>18 DEF Reject
<1>19. ASSUME CloseCs PROVE Typed'
  BY <1>0, <1>19 DEF CloseCs, CloseFd, EndIteration
<1>20. ASSUME CloseOld PROVE Typed'
  BY <1>20 DEF CloseOld, CloseFd, ShutdownAndClose
<1>21. ASSUME JoinOld PROVE Typed'
  BY <1>21 DEF JoinOld
<1>22. ASSUME InitializeClient PROVE Typed'
  <2>1. /\ pc[Main] = "init"
        /\ UNCHANGED <<sockets, files, shut, unjoined, netVars, slot, reg, io, lock, mainVars>>
    BY <1>22 DEF InitializeClient
  <2>2. /\ s' \in [Slots -> FD \cup {NO_SOCKET}]
        /\ ip_addr' \in [Slots -> Nat]
        /\ has_thread' \in [Slots -> BOOLEAN]
        /\ thread' \in [Slots -> Conns \cup {Nobody}]
        /\ ro_file' \in [Slots -> FD \cup {NoFile}]
    BY <1>22 DEF InitializeClient
  <2>3. /\ connected' \in [Slots -> BOOLEAN]
        /\ buf' \in [Slots -> Conns \cup {Nobody}]
        /\ heap' \subseteq Conns
    <3>1. cur \in Conns
      BY <2>1
    <3>2. PICK b \in BOOLEAN, d \in {cur, Nobody} :
             /\ connected' = [connected EXCEPT ![slot[Main]] = b]
             /\ buf' = [buf EXCEPT ![slot[Main]] = d]
             /\ heap' \subseteq heap \cup {cur}
      BY <1>22 DEF InitializeClient
    <3> QED
      BY <3>1, <3>2
  <2>4. \E l \in {"assign", "fail_lock"} : pc' = [pc EXCEPT ![Main] = l]
    BY <1>22 DEF InitializeClient
  <2> QED
    BY <2>1, <2>2, <2>3, <2>4
<1>23. ASSUME ReleaseFailed PROVE Typed'
  BY <1>23 DEF ReleaseFailed
<1>24. ASSUME AssignSocket PROVE Typed'
  BY <1>24 DEF AssignSocket
<1>25. ASSUME StartThread PROVE Typed'
  BY <1>25 DEF StartThread
<1>26. ASSUME MarkThread PROVE Typed'
  BY <1>0, <1>26 DEF MarkThread, EndIteration
<1>27. ASSUME UNCHANGED vars PROVE Typed'
  BY <1>27 DEF vars
<1>28. ASSUME NEW p \in Procs, Finalize(p) PROVE Typed'
  BY <1>2, <1>3, <1>4, <1>5, <1>6, <1>7, <1>28 DEF Finalize
<1>29. ASSUME NEW c \in Conns, ThreadStep(c) \/ RecvOk(c) \/ SendOk(c) PROVE Typed'
  BY <1>8, <1>9, <1>10, <1>11, <1>12, <1>28, <1>29
     DEF ThreadStep, RecvOk, SendOk, RecvFail, SendFail
<1>30. ASSUME MainStep PROVE Typed'
  BY <1>2, <1>15, <1>16, <1>17, <1>18, <1>19, <1>20, <1>21, <1>22, <1>23, <1>24, <1>25,
     <1>26, <1>28, <1>30 DEF MainStep, Reconnect, TakeFreeSlot
<1> QED
  BY <1>1, <1>13, <1>14, <1>27, <1>29, <1>30 DEF Next, Idle

\* Every reachable state is well typed, whatever the constants.
THEOREM TypeCorrect == Spec => []TypeOK
<1>1. Typed => TypeOK
  BY DEF Typed
<1> QED
  BY <1>1, TypedInit, TypedStep, PTL DEF Spec

-----------------------------------------------------------------------------
(* A connection has no thread before it is accepted, nor while the accept   *)
(* loop is still to create it.                                              *)

Fresh ==
    /\ \A c \in Conns \ accepted : pc[c] = "none"
    /\ pc[Main] \notin {"accept", "mark", "exited"} => cur \in accepted /\ pc[cur] = "none"

LEMMA FreshInit == Init => Fresh
BY IdAssumption DEF Init, Fresh, Procs

LEMMA FreshStep == Typed /\ Fresh /\ [Next]_vars => Fresh'
<1> SUFFICES ASSUME Typed, Fresh, [Next]_vars PROVE Fresh'
  OBVIOUS
<1> USE IdAssumption
<1> USE DEF Fresh, Goto, slotVars, kernelVars, netVars, procVars, mainVars
<1>0. /\ pc \in [Procs -> MainLabels \cup ThreadLabels \cup FinalizeLabels]
      /\ cur \in Conns \cup {Nobody} /\ Conns \subseteq Procs /\ Main \in Procs
      /\ accepted \subseteq Conns
  BY DEF Typed, TypeOK, Procs
\* A thread that is running goes on.
<1>1. ASSUME NEW c \in Conns, NEW l, pc' = [pc EXCEPT ![c] = l], pc[c] # "none",
             UNCHANGED <<accepted, cur>> PROVE Fresh'
  BY <1>0, <1>1
\* The accept loop goes on with the same newcomer, or without one.
<1>2. ASSUME NEW l, pc' = [pc EXCEPT ![Main] = l], UNCHANGED accepted,
             l \notin {"accept", "mark", "exited"} =>
                pc[Main] \notin {"accept", "mark", "exited"} /\ cur' = cur
      PROVE Fresh'
  BY <1>0, <1>2
<1>3. ASSUME UNCHANGED vars PROVE Fresh'
  BY <1>3 DEF vars
<1>4. ASSUME NEW p \in Procs, Finalize(p) PROVE Fresh'
  <2>1. PICK l : /\ pc' = [pc EXCEPT ![p] = l]
                 /\ l \in {"accept", "done"} \/ (l \in FinalizeLabels /\ cur' = cur)
                 /\ p = Main => l # "done"
    BY <1>4 DEF Finalize, MutexLock, FinTake, FinClear, FinClose, FinFree, Release, FinalizeLabels
  <2>2. pc[p] \in FinalizeLabels /\ accepted' = accepted
    BY <1>4 DEF Finalize, MutexLock, FinTake, FinClear, FinClose, FinFree, Release, FinalizeLabels
  <2>3. CASE p = Main
    BY <1>2, <2>1, <2>2, <2>3 DEF FinalizeLabels
  <2>4. CASE p # Main
    <3>1. cur' = cur
      BY <1>4, <2>4 DEF Finalize, MutexLock, FinTake, FinClear, FinClose, FinFree, Release
    <3> QED
      BY <1>1, <2>1, <2>2, <2>4, <3>1 DEF Procs, FinalizeLabels
  <2> QED
    BY <2>3, <2>4
<1>5. ASSUME NEW c \in Conns, ThreadStep(c) \/ RecvOk(c) \/ SendOk(c) PROVE Fresh'
  <2>1. CASE Finalize(c)
    BY <1>0, <1>4, <2>1
  <2>2. CASE LoadSocket(c, "load_cmd", "recv") \/ LoadSocket(c, "load_reply", "send")
    BY <1>1, <2>2 DEF LoadSocket
  <2>3. CASE EnterCall(c, "recv", "in_recv") \/ EnterCall(c, "send", "in_send")
    BY <1>1, <2>3 DEF EnterCall
  <2>4. CASE RecvOk(c) \/ RecvFail(c) \/ SendOk(c) \/ SendFail(c)
    BY <1>1, <2>4 DEF RecvOk, RecvFail, SendOk, SendFail, LeaveCall
  <2>5. CASE HandleOpen(c) \/ HandleOther(c)
    BY <1>1, <2>5 DEF HandleOpen, HandleOther
  <2> QED
    BY <1>5, <2>1, <2>2, <2>3, <2>4, <2>5 DEF ThreadStep
<1>6. ASSUME MainStep PROVE Fresh'
  <2>1. CASE MutexLock(Main, "lock", "select") \/ MutexLock(Main, "fail_lock", "fail_release")
    BY <1>2, <2>1 DEF MutexLock
  <2>2. CASE Reconnect \/ TakeFreeSlot \/ TakeSocket \/ Reject \/ Reserve
    BY <1>2, <2>2 DEF Reconnect, TakeFreeSlot, Choose, TakeSocket, Reject, Reserve
  <2>3. CASE ReleaseFailed \/ CloseCs \/ CloseOld \/ JoinOld \/ AssignSocket \/ MarkThread
    BY <1>2, <2>3 DEF ReleaseFailed, CloseCs, CloseOld, JoinOld, AssignSocket, MarkThread
  <2>4. CASE InitializeClient
    BY <1>2, <2>4 DEF InitializeClient
  <2>5. CASE StartThread
    BY <1>0, <2>5 DEF StartThread
  <2>6. CASE Finalize(Main)
    BY <1>0, <1>4, <2>6
  <2> QED
    BY <1>6, <2>1, <2>2, <2>3, <2>4, <2>5, <2>6 DEF MainStep
<1>7. ASSUME NEW c \in Conns, HangUp(c) PROVE Fresh'
  BY <1>7 DEF HangUp
<1>8. ASSUME NEW c \in Conns, Accept(c) PROVE Fresh'
  BY <1>0, <1>8 DEF Accept
<1>9. ASSUME AcceptError PROVE Fresh'
  BY <1>2, <1>9 DEF AcceptError
<1> QED
  BY <1>3, <1>5, <1>6, <1>7, <1>8, <1>9 DEF Next, Idle

-----------------------------------------------------------------------------
(* The mutex: its holder is the thread inside a critical section. *)

Critical == {"select", "take", "reserve", "fail_release", "fin_take", "fin_clear", "rel"}

Locked == \A p \in Procs : (lock = p) <=> (pc[p] \in Critical)

LEMMA LockedInit == Init => Locked
BY IdAssumption DEF Init, Locked, Critical, Procs

LEMMA LockedStep == Typed /\ Fresh /\ Locked /\ [Next]_vars => Locked'
<1> SUFFICES ASSUME Typed, Fresh, Locked, [Next]_vars PROVE Locked'
  OBVIOUS
<1> USE IdAssumption
<1> USE DEF Locked, Critical, Goto, Procs, slotVars, kernelVars, netVars, procVars, mainVars
<1>0. pc \in [Procs -> MainLabels \cup ThreadLabels \cup FinalizeLabels] /\ cur \in Conns \cup {Nobody}
  BY DEF Typed, TypeOK
<1>1. ASSUME NEW p \in Procs, NEW from, NEW to \in Critical, MutexLock(p, from, to) PROVE Locked'
  BY <1>0, <1>1 DEF MutexLock
<1>2. ASSUME NEW p \in Procs, NEW l, pc' = [pc EXCEPT ![p] = l], pc[p] \in Critical, l \in Critical,
             UNCHANGED lock PROVE Locked'
  BY <1>0, <1>2
<1>3. ASSUME NEW p \in Procs, NEW l, pc' = [pc EXCEPT ![p] = l], pc[p] \notin Critical, l \notin Critical,
             UNCHANGED lock PROVE Locked'
  BY <1>0, <1>3
<1>4. ASSUME NEW p \in Procs, NEW l, pc' = [pc EXCEPT ![p] = l], pc[p] \in Critical, l \notin Critical,
             lock' = Nobody PROVE Locked'
  BY <1>0, <1>4
<1>5. ASSUME UNCHANGED vars PROVE Locked'
  BY <1>5 DEF vars
<1>6. ASSUME NEW p \in Procs, Finalize(p) PROVE Locked'
  <2>1. CASE MutexLock(p, "fin_lock", "fin_take") \/ MutexLock(p, "rel_lock", "rel")
    BY <1>1, <2>1
  <2>2. CASE FinTake(p)
    BY <1>2, <2>2 DEF FinTake
  <2>3. CASE FinClear(p)
    BY <1>4, <2>3 DEF FinClear
  <2>4. CASE FinClose(p)
    BY <1>3, <2>4 DEF FinClose
  <2>5. CASE FinFree(p)
    BY <1>3, <2>5 DEF FinFree
  <2>6. CASE Release(p)
    BY <1>4, <2>6 DEF Release
  <2> QED
    BY <1>6, <2>1, <2>2, <2>3, <2>4, <2>5, <2>6 DEF Finalize
<1>7. ASSUME NEW c \in Conns, ThreadStep(c) \/ RecvOk(c) \/ SendOk(c) PROVE Locked'
  <2>1. CASE Finalize(c)
    BY <1>6, <2>1
  <2>2. CASE LoadSocket(c, "load_cmd", "recv") \/ LoadSocket(c, "load_reply", "send")
    BY <1>3, <2>2 DEF LoadSocket
  <2>3. CASE EnterCall(c, "recv", "in_recv") \/ EnterCall(c, "send", "in_send")
    BY <1>3, <2>3 DEF EnterCall
  <2>4. CASE RecvOk(c) \/ RecvFail(c) \/ SendOk(c) \/ SendFail(c)
    BY <1>3, <2>4 DEF RecvOk, RecvFail, SendOk, SendFail, LeaveCall
  <2>5. CASE HandleOpen(c) \/ HandleOther(c)
    BY <1>3, <2>5 DEF HandleOpen, HandleOther
  <2> QED
    BY <1>7, <2>1, <2>2, <2>3, <2>4, <2>5 DEF ThreadStep
<1>8. ASSUME MainStep PROVE Locked'
  <2>1. CASE MutexLock(Main, "lock", "select") \/ MutexLock(Main, "fail_lock", "fail_release")
    BY <1>1, <2>1
  <2>2. CASE Reconnect \/ TakeFreeSlot \/ TakeSocket
    BY <1>2, <2>2 DEF Reconnect, TakeFreeSlot, Choose, TakeSocket
  <2>3. CASE Reject \/ Reserve \/ ReleaseFailed
    BY <1>4, <2>3 DEF Reject, Reserve, ReleaseFailed
  <2>4. CASE CloseCs \/ CloseOld \/ JoinOld \/ AssignSocket \/ MarkThread
    BY <1>3, <2>4 DEF CloseCs, CloseOld, JoinOld, AssignSocket, MarkThread
  <2>5. CASE InitializeClient
    BY <1>3, <2>5 DEF InitializeClient
  <2>6. CASE StartThread
    BY <1>0, <2>6 DEF StartThread, Fresh, Seating
  <2>7. CASE Finalize(Main)
    BY <1>6, <2>7
  <2> QED
    BY <1>8, <2>1, <2>2, <2>3, <2>4, <2>5, <2>6, <2>7 DEF MainStep
<1>9. ASSUME NEW c \in Conns, HangUp(c) PROVE Locked'
  BY <1>9 DEF HangUp
<1>10. ASSUME NEW c \in Conns, Accept(c) PROVE Locked'
  BY <1>3, <1>10 DEF Accept
<1>11. ASSUME AcceptError PROVE Locked'
  BY <1>3, <1>11 DEF AcceptError
<1> QED
  BY <1>5, <1>7, <1>8, <1>9, <1>10, <1>11 DEF Next, Idle

-----------------------------------------------------------------------------
(* Who has which slot.  Reserved is where the accept loop has marked        *)
(* slot[Main] as connected although no thread may be on it; Emptied is      *)
(* where it knows that no thread is on it.                                  *)

Reserved == {"close_old", "join", "init", "assign", "start"} \cup FinalizeLabels
Emptied == {"init", "fail_lock", "fail_release", "assign", "start"} \cup FinalizeLabels

\* A live thread finds its own data in its slot.
Owns ==
    \A c \in Conns : Live(c) =>
        /\ connected[slot[c]]
        /\ ip_addr[slot[c]] = IpOf[c]
        /\ thread[slot[c]] = c
        /\ ~NotWhitelisted(IpOf[c])

\* A live thread will be joined before its slot is used again.
Joinable ==
    \A c \in Conns : Live(c) =>
        IF slot[c] = slot[Main] /\ pc[Main] \in {"close_old", "join"}
        THEN join_old /\ old_thread = c
        ELSE has_thread[slot[c]] \/ (pc[Main] = "mark" /\ slot[c] = slot[Main])

\* The accept loop writes to a slot only when no thread is on it.
Vacant == pc[Main] \in Emptied => \A c \in Conns : Live(c) => slot[c] # slot[Main]

\* A connected slot has a live thread, or the accept loop is preparing it.
Backed ==
    \A i \in Slots : connected[i] =>
        \/ \E c \in Conns : Live(c) /\ slot[c] = i
        \/ slot[Main] = i /\ pc[Main] \in Reserved

\* The slot of the newcomer is prepared before its thread is started.
Prepared ==
    /\ pc[Main] \in {"assign", "start"} => connected[slot[Main]]
    /\ pc[Main] = "start" => ip_addr[slot[Main]] = IpOf[cur]

\* The newcomer may be served, and a live thread of its address is on the
\* slot that was chosen for it.
Chosen ==
    pc[Main] \in Seating =>
        /\ ~NotWhitelisted(IpOf[cur])
        /\ \A c \in Conns : Live(c) /\ IpOf[c] = IpOf[cur] => slot[c] = slot[Main]

SlotInv == Owns /\ Joinable /\ Vacant /\ Backed /\ Prepared /\ Chosen /\ OneThreadPerAddress

LEMMA SlotInit == Init => SlotInv
BY IdAssumption DEF Init, SlotInv, Owns, Joinable, Vacant, Backed, Prepared, Chosen,
   OneThreadPerAddress, Live, Emptied, FinalizeLabels, Seating, Procs

\* The steps that change nothing of a slot but its socket, file and buffer.
LEMMA SlotQuiet ==
    ASSUME Typed, SlotInv, NEW p \in Procs, NEW l, pc' = [pc EXCEPT ![p] = l],
           UNCHANGED <<connected, ip_addr, has_thread, thread, slot, cur, join_old, old_thread>>,
           IF p = Main
           THEN /\ pc[Main] # "mark"
                /\ l \in {"close_old", "join"} => pc[Main] \in {"close_old", "join"}
                /\ pc[Main] \in {"close_old", "join"} => l \in {"close_old", "join"}
                /\ l \in Emptied => pc[Main] \in Emptied
                /\ pc[Main] \in Reserved => l \in Reserved
                /\ l \in {"assign", "start"} => pc[Main] \in {"assign", "start"}
                /\ l = "start" => pc[Main] = "start"
                /\ l \in Seating => pc[Main] \in Seating
           ELSE pc[p] \notin {"none", "done"} /\ l \notin {"none", "done"}
    PROVE  SlotInv'
<1> USE IdAssumption
<1>0. pc \in [Procs -> MainLabels \cup ThreadLabels \cup FinalizeLabels] /\ Main \in Procs /\ Conns \subseteq Procs
  BY DEF Typed, TypeOK, Procs
<1>1. \A c \in Conns : Live(c)' <=> Live(c)
  BY <1>0 DEF Live
<1>2. p # Main => pc'[Main] = pc[Main]
  BY <1>0
<1>3. p = Main => pc'[Main] = l
  BY <1>0
<1>4. Owns' /\ OneThreadPerAddress'
  BY <1>1 DEF SlotInv, Owns, OneThreadPerAddress, NotWhitelisted
<1>5. Joinable'
  BY <1>1, <1>2, <1>3 DEF SlotInv, Joinable
<1>6. Vacant'
  BY <1>1, <1>2, <1>3 DEF SlotInv, Vacant
<1>7. Backed'
  BY <1>1, <1>2, <1>3 DEF SlotInv, Backed
<1>8. Prepared' /\ Chosen'
  BY <1>1, <1>2, <1>3 DEF SlotInv, Prepared, Chosen, NotWhitelisted
<1> QED
  BY <1>4, <1>5, <1>6, <1>7, <1>8 DEF SlotInv

LEMMA SlotStep == Typed /\ Fresh /\ SlotInv /\ [Next]_vars => SlotInv'
<1> SUFFICES ASSUME Typed, Fresh, SlotInv, [Next]_vars PROVE SlotInv'
  OBVIOUS
<1> USE IdAssumption
<1> USE DEF Goto, slotVars, kernelVars, netVars, procVars, mainVars
<1>0. /\ pc \in [Procs -> MainLabels \cup ThreadLabels \cup FinalizeLabels]
      /\ Main \in Procs /\ Conns \subseteq Procs
      /\ slot \in [Procs -> Slots] /\ connected \in [Slots -> BOOLEAN]
      /\ has_thread \in [Slots -> BOOLEAN] /\ ip_addr \in [Slots -> Nat]
      /\ thread \in [Slots -> Conns \cup {Nobody}]
      /\ cur \in Conns \cup {Nobody}
      /\ pc[Main] \notin {"accept", "exited"} => cur \in Conns
  BY DEF Typed, TypeOK, Procs, CurKnown
<1>1. ASSUME NEW p \in Procs, Finalize(p), ~Release(p) PROVE SlotInv'
  <2>1. PICK l : pc' = [pc EXCEPT ![p] = l] /\ l \in FinalizeLabels
    BY <1>1 DEF Finalize, MutexLock, FinTake, FinClear, FinClose, FinFree, FinalizeLabels
  <2>2. pc[p] \in FinalizeLabels
    BY <1>1 DEF Finalize, MutexLock, FinTake, FinClear, FinClose, FinFree, FinalizeLabels
  <2>3. UNCHANGED <<connected, ip_addr, has_thread, thread, slot, cur, join_old, old_thread>>
    BY <1>1 DEF Finalize, MutexLock, FinTake, FinClear, FinClose, FinFree
  <2> QED
    BY <2>1, <2>2, <2>3, SlotQuiet DEF FinalizeLabels, Emptied, Reserved, Seating
<1>2. ASSUME NEW p \in Procs, Release(p) PROVE SlotInv'
  <2>1. /\ connected' = [connected EXCEPT ![slot[p]] = FALSE]
        /\ UNCHANGED <<ip_addr, has_thread, thread>> /\ pc[p] = "rel"
    BY <1>2 DEF Release
  <2>2. CASE p = Main
    <3>1. /\ pc' = [pc EXCEPT ![Main] = "accept"]
          /\ slot' = [slot EXCEPT ![Main] = 0]
      BY <1>2, <2>2 DEF Release, EndIteration
    <3>2. \A c \in Conns : (Live(c)' <=> Live(c)) /\ slot'[c] = slot[c] /\ pc'[Main] = "accept"
      BY <1>0, <3>1 DEF Live
    <3>3. \A c \in Conns : Live(c) => slot[c] # slot[Main]
      BY <2>1, <2>2 DEF SlotInv, Vacant, Emptied, FinalizeLabels
    <3>4. Owns' /\ OneThreadPerAddress' /\ Joinable'
      BY <1>0, <2>1, <2>2, <3>2, <3>3 DEF SlotInv, Owns, OneThreadPerAddress, Joinable, NotWhitelisted
    <3>5. Backed'
      BY <1>0, <2>1, <2>2, <3>2, <3>3 DEF SlotInv, Backed
    <3>6. Vacant' /\ Prepared' /\ Chosen'
      BY <1>0, <3>1 DEF Vacant, Prepared, Chosen, Emptied, FinalizeLabels, Seating
    <3> QED
      BY <3>4, <3>5, <3>6 DEF SlotInv
  <2>3. CASE p # Main
    <3>1. /\ pc' = [pc EXCEPT ![p] = "done"] /\ p \in Conns
          /\ UNCHANGED <<slot, cur, join_old, old_thread>>
      BY <1>2, <2>3 DEF Release, Procs
    <3>2. /\ \A c \in Conns : Live(c)' <=> Live(c) /\ c # p
          /\ pc'[Main] = pc[Main] /\ Live(p)
      BY <1>0, <2>1, <2>3, <3>1 DEF Live
    <3>3. \A c \in Conns : Live(c) /\ c # p => slot[c] # slot[p]
      BY <3>1, <3>2 DEF SlotInv, Owns
    <3>4. Owns' /\ OneThreadPerAddress' /\ Joinable'
      BY <1>0, <2>1, <3>1, <3>2, <3>3 DEF SlotInv, Owns, OneThreadPerAddress, Joinable, NotWhitelisted
    <3>5. Backed'
      BY <1>0, <2>1, <3>1, <3>2, <3>3 DEF SlotInv, Backed
    <3>6. Vacant' /\ Chosen'
      BY <3>1, <3>2 DEF SlotInv, Vacant, Chosen, NotWhitelisted
    <3>7. Prepared'
      BY <1>0, <2>1, <3>1, <3>2 DEF SlotInv, Prepared, Vacant, Emptied
    <3> QED
      BY <3>4, <3>5, <3>6, <3>7 DEF SlotInv
  <2> QED
    BY <2>2, <2>3
<1>3. ASSUME NEW c \in Conns, ThreadStep(c) \/ RecvOk(c) \/ SendOk(c) PROVE SlotInv'
  <2>1. CASE Finalize(c)
    BY <1>0, <1>1, <1>2, <2>1
  <2>2. CASE ~Finalize(c)
    <3>1. PICK l : pc' = [pc EXCEPT ![c] = l] /\ l \notin {"none", "done"}
      BY <1>3, <2>2 DEF ThreadStep, LoadSocket, EnterCall, RecvOk, RecvFail, SendOk, SendFail,
         LeaveCall, HandleOpen, HandleOther
    <3>2. pc[c] \notin {"none", "done"}
      BY <1>3, <2>2 DEF ThreadStep, LoadSocket, EnterCall, RecvOk, RecvFail, SendOk, SendFail,
         LeaveCall, HandleOpen, HandleOther
    <3>3. UNCHANGED <<connected, ip_addr, has_thread, thread, slot, cur, join_old, old_thread>>
      BY <1>3, <2>2 DEF ThreadStep, LoadSocket, EnterCall, RecvOk, RecvFail, SendOk, SendFail,
         LeaveCall, HandleOpen, HandleOther
    <3>4. c # Main /\ c \in Procs
      BY DEF Procs
    <3> QED
      BY <3>1, <3>2, <3>3, <3>4, SlotQuiet
  <2> QED
    BY <2>1, <2>2
<1>4. ASSUME NEW c \in Conns, HangUp(c) PROVE SlotInv'
  BY <1>4 DEF HangUp, SlotInv, Owns, Joinable, Vacant, Backed, Prepared, Chosen,
     OneThreadPerAddress, Live, NotWhitelisted
<1>5. ASSUME UNCHANGED vars PROVE SlotInv'
  BY <1>5 DEF vars, SlotInv, Owns, Joinable, Vacant, Backed, Prepared, Chosen,
     OneThreadPerAddress, Live, NotWhitelisted
<1>6. ASSUME AcceptError PROVE SlotInv'
  BY <1>0, <1>6, SlotQuiet DEF AcceptError, Emptied, Reserved, FinalizeLabels, Seating
\* A step of the accept loop that starts and ends no thread.
<1>7. ASSUME NEW l, pc' = [pc EXCEPT ![Main] = l]
      PROVE  /\ \A c \in Conns : (Live(c)' <=> Live(c)) /\ pc'[c] = pc[c]
             /\ pc'[Main] = l
  BY <1>0, <1>7 DEF Live
<1>8. ASSUME NEW d \in Conns, Accept(d) PROVE SlotInv'
  <2>1. /\ pc' = [pc EXCEPT ![Main] = "lock"] /\ pc[Main] = "accept"
        /\ UNCHANGED <<connected, ip_addr, has_thread, thread, slot, join_old, old_thread>>
    BY <1>8 DEF Accept
  <2>2. Owns' /\ OneThreadPerAddress'
    BY <1>7, <2>1 DEF SlotInv, Owns, OneThreadPerAddress, NotWhitelisted
  <2>5. Joinable'
    BY <1>7, <2>1 DEF SlotInv, Joinable
  <2>3. Backed'
    BY <1>7, <2>1 DEF SlotInv, Backed, Reserved, FinalizeLabels
  <2>4. Vacant' /\ Prepared' /\ Chosen'
    BY <1>7, <2>1 DEF Vacant, Prepared, Chosen, Emptied, FinalizeLabels, Seating
  <2> QED
    BY <2>2, <2>3, <2>4, <2>5 DEF SlotInv
<1>9. ASSUME Reconnect \/ TakeFreeSlot PROVE SlotInv'
  <2>1. PICK l \in {"take", "reserve"}, i \in Slots :
           /\ pc' = [pc EXCEPT ![Main] = l]
           /\ slot' = [slot EXCEPT ![Main] = i]
           /\ \/ i \in SameClient
              \/ SameClient = {} /\ ~NotWhitelisted(IpOf[cur]) /\ i \in FreeSlots
    BY <1>9 DEF Reconnect, TakeFreeSlot, Choose, First
  <2>2. /\ pc[Main] = "select"
        /\ UNCHANGED <<connected, ip_addr, has_thread, thread, cur, join_old, old_thread>>
    BY <1>9 DEF Reconnect, TakeFreeSlot, Choose
  <2>3. /\ \A c \in Conns : (Live(c)' <=> Live(c)) /\ slot'[c] = slot[c]
        /\ pc'[Main] = l /\ slot'[Main] = i
    BY <1>0, <1>7, <2>1
  <2>4. Owns' /\ OneThreadPerAddress' /\ Joinable'
    BY <2>2, <2>3 DEF SlotInv, Owns, OneThreadPerAddress, Joinable, NotWhitelisted
  <2>5. Backed'
    BY <2>2, <2>3 DEF SlotInv, Backed, Reserved, FinalizeLabels
  <2>6. Vacant' /\ Prepared'
    BY <2>3 DEF Vacant, Prepared, Emptied, FinalizeLabels
  <2>7. Chosen'
    <3>1. CASE i \in SameClient
      <4>1. connected[i] /\ ip_addr[i] = IpOf[cur]
        BY <3>1 DEF SameClient
      <4>2. PICK d \in Conns : Live(d) /\ slot[d] = i
        BY <2>2, <4>1 DEF SlotInv, Backed, Reserved, FinalizeLabels
      <4>3. IpOf[d] = IpOf[cur] /\ ~NotWhitelisted(IpOf[d])
        BY <4>1, <4>2 DEF SlotInv, Owns
      <4> QED
        BY <2>2, <2>3, <4>2, <4>3 DEF SlotInv, OneThreadPerAddress, Chosen, NotWhitelisted
    <3>2. CASE SameClient = {} /\ ~NotWhitelisted(IpOf[cur])
      <4>1. \A c \in Conns : Live(c) => IpOf[c] # IpOf[cur]
        BY <1>0, <3>2 DEF SlotInv, Owns, SameClient
      <4> QED
        BY <2>2, <2>3, <3>2, <4>1 DEF Chosen, NotWhitelisted
    <3> QED
      BY <2>1, <3>1, <3>2
  <2> QED
    BY <2>4, <2>5, <2>6, <2>7 DEF SlotInv
<1>10. ASSUME Reserve PROVE SlotInv'
  <2>1. /\ pc' = [pc EXCEPT ![Main] = "close_old"] /\ pc[Main] = "reserve"
        /\ connected' = [connected EXCEPT ![slot[Main]] = TRUE]
        /\ has_thread' = [has_thread EXCEPT ![slot[Main]] = FALSE]
        /\ join_old' = has_thread[slot[Main]] /\ old_thread' = thread[slot[Main]]
        /\ UNCHANGED <<ip_addr, thread, slot, cur>>
    BY <1>10 DEF Reserve
  <2>2. Owns' /\ OneThreadPerAddress'
    BY <1>0, <1>7, <2>1 DEF SlotInv, Owns, OneThreadPerAddress, NotWhitelisted
  <2>3. Joinable'
    <3> SUFFICES ASSUME NEW c \in Conns, Live(c)
                 PROVE  IF slot[c] = slot[Main] THEN join_old' /\ old_thread' = c
                        ELSE has_thread'[slot[c]]
      BY <1>7, <2>1 DEF Joinable
    <3>1. has_thread[slot[c]] /\ thread[slot[c]] = c
      BY <2>1 DEF SlotInv, Owns, Joinable
    <3> QED
      BY <1>0, <2>1, <3>1
  <2>4. Backed'
    BY <1>0, <1>7, <2>1 DEF SlotInv, Backed, Reserved, FinalizeLabels
  <2>5. Vacant' /\ Prepared' /\ Chosen'
    BY <1>7, <2>1, ZenonT(60) DEF SlotInv, Vacant, Prepared, Chosen, Emptied, FinalizeLabels, Seating, NotWhitelisted
  <2> QED
    BY <2>2, <2>3, <2>4, <2>5 DEF SlotInv
<1>11. ASSUME JoinOld PROVE SlotInv'
  <2>1. /\ pc' = [pc EXCEPT ![Main] = "init"] /\ pc[Main] = "join"
        /\ UNCHANGED <<connected, ip_addr, has_thread, thread, slot, cur, join_old, old_thread>>
        /\ join_old => pc[old_thread] = "done"
    BY <1>11 DEF JoinOld
  <2>2. \A c \in Conns : Live(c) => slot[c] # slot[Main]
    BY <2>1 DEF SlotInv, Joinable, Live
  <2>3. Owns' /\ OneThreadPerAddress' /\ Joinable'
    BY <1>7, <2>1, <2>2 DEF SlotInv, Owns, OneThreadPerAddress, Joinable, NotWhitelisted
  <2>4. Backed'
    BY <1>7, <2>1 DEF SlotInv, Backed, Reserved, FinalizeLabels
  <2>5. Vacant' /\ Prepared' /\ Chosen'
    BY <1>7, <2>1, <2>2 DEF SlotInv, Vacant, Prepared, Chosen, Emptied, FinalizeLabels, Seating, NotWhitelisted
  <2> QED
    BY <2>3, <2>4, <2>5 DEF SlotInv
<1>12. ASSUME InitializeClient PROVE SlotInv'
  <2>1. /\ pc[Main] = "init" /\ UNCHANGED <<slot, cur>>
        /\ ip_addr' = [ip_addr EXCEPT ![slot[Main]] = 0]
        /\ has_thread' = [has_thread EXCEPT ![slot[Main]] = FALSE]
        /\ thread' = [thread EXCEPT ![slot[Main]] = Nobody]
    BY <1>12 DEF InitializeClient
  <2>2. PICK b \in BOOLEAN, l \in {"assign", "fail_lock"} :
           /\ pc' = [pc EXCEPT ![Main] = l]
           /\ connected' = [connected EXCEPT ![slot[Main]] = b]
           /\ b <=> l = "assign"
    BY <1>12 DEF InitializeClient
  <2>3. \A c \in Conns : Live(c) => slot[c] # slot[Main]
    BY <2>1 DEF SlotInv, Vacant, Emptied
  <2>4. Owns' /\ OneThreadPerAddress'
    <3>1. \A i \in Slots : i # slot[Main] =>
             connected'[i] = connected[i] /\ ip_addr'[i] = ip_addr[i] /\ thread'[i] = thread[i]
      BY <1>0, <2>1, <2>2
    <3>2. Owns'
      BY <1>0, <1>7, <2>1, <2>2, <2>3, <3>1, ZenonT(60) DEF SlotInv, Owns, NotWhitelisted
    <3> QED
      BY <1>7, <2>2, <3>2 DEF SlotInv, OneThreadPerAddress
  <2>7. Joinable'
    <3> SUFFICES ASSUME NEW c \in Conns, Live(c) PROVE has_thread'[slot[c]]
      BY <1>7, <2>1, <2>2 DEF Joinable
    <3> QED
      BY <1>0, <2>1, <2>3 DEF SlotInv, Joinable
  <2>5. Backed'
    BY <1>0, <1>7, <2>1, <2>2 DEF SlotInv, Backed, Reserved, FinalizeLabels
  <2>6. Vacant' /\ Prepared' /\ Chosen'
    BY <1>0, <1>7, <2>1, <2>2, <2>3
       DEF SlotInv, Vacant, Prepared, Chosen, Emptied, FinalizeLabels, Seating, NotWhitelisted
  <2> QED
    BY <2>4, <2>5, <2>6, <2>7 DEF SlotInv
<1>13. ASSUME ReleaseFailed PROVE SlotInv'
  <2>1. /\ pc' = [pc EXCEPT ![Main] = "close_cs"] /\ pc[Main] = "fail_release"
        /\ connected' = [connected EXCEPT ![slot[Main]] = FALSE]
        /\ UNCHANGED <<ip_addr, has_thread, thread, slot>>
    BY <1>13 DEF ReleaseFailed
  <2>2. \A c \in Conns : Live(c) => slot[c] # slot[Main]
    BY <2>1 DEF SlotInv, Vacant, Emptied
  <2>3. Owns' /\ OneThreadPerAddress' /\ Joinable'
    BY <1>0, <1>7, <2>1, <2>2 DEF SlotInv, Owns, OneThreadPerAddress, Joinable, NotWhitelisted
  <2>4. Backed'
    BY <1>0, <1>7, <2>1 DEF SlotInv, Backed, Reserved, FinalizeLabels
  <2>5. Vacant' /\ Prepared' /\ Chosen'
    BY <1>7, <2>1 DEF Vacant, Prepared, Chosen, Emptied, FinalizeLabels, Seating
  <2> QED
    BY <2>3, <2>4, <2>5 DEF SlotInv
<1>14. ASSUME AssignSocket PROVE SlotInv'
  <2>1. /\ pc' = [pc EXCEPT ![Main] = "start"] /\ pc[Main] = "assign"
        /\ ip_addr' = [ip_addr EXCEPT ![slot[Main]] = IpOf[cur]]
        /\ UNCHANGED <<connected, has_thread, thread, slot, cur>>
    BY <1>14 DEF AssignSocket
  <2>2. \A c \in Conns : Live(c) => slot[c] # slot[Main]
    BY <2>1 DEF SlotInv, Vacant, Emptied
  <2>3. Owns' /\ OneThreadPerAddress' /\ Joinable'
    BY <1>0, <1>7, <2>1, <2>2 DEF SlotInv, Owns, OneThreadPerAddress, Joinable, NotWhitelisted
  <2>4. Backed'
    BY <1>7, <2>1 DEF SlotInv, Backed, Reserved
  <2>5. Vacant' /\ Prepared' /\ Chosen'
    BY <1>0, <1>7, <2>1, <2>2
       DEF SlotInv, Vacant, Prepared, Chosen, Emptied, FinalizeLabels, Seating, NotWhitelisted
  <2> QED
    BY <2>3, <2>4, <2>5 DEF SlotInv
<1>15. ASSUME StartThread PROVE SlotInv'
  <2>1. pc[Main] = "start" /\ cur \in Conns /\ pc[cur] = "none"
        /\ UNCHANGED <<connected, ip_addr, has_thread, cur, join_old, old_thread>>
    BY <1>0, <1>15 DEF StartThread, Fresh, Seating
  <2>2. CASE pc' = [pc EXCEPT ![Main] = "fin_lock"] /\ UNCHANGED <<thread, slot>>
    BY <1>0, <2>1, <2>2, SlotQuiet DEF Emptied, Reserved, FinalizeLabels, Seating
  <2>3. CASE /\ thread' = [thread EXCEPT ![slot[Main]] = cur]
             /\ pc' = [pc EXCEPT ![Main] = "mark", ![cur] = "load_cmd"]
             /\ slot' = [slot EXCEPT ![cur] = slot[Main]]
    <3>1. /\ \A c \in Conns : /\ Live(c)' <=> Live(c) \/ c = cur
                              /\ slot'[c] = IF c = cur THEN slot[Main] ELSE slot[c]
          /\ pc'[Main] = "mark" /\ slot'[Main] = slot[Main]
      BY <1>0, <2>1, <2>3 DEF Live
    <3>2. \A c \in Conns : Live(c) => slot[c] # slot[Main] /\ IpOf[c] # IpOf[cur] /\ c # cur
      BY <2>1 DEF SlotInv, Vacant, Emptied, Chosen, Seating, Live
    <3>3. Owns'
      <4>1. ~NotWhitelisted(IpOf[cur]) /\ connected[slot[Main]] /\ ip_addr[slot[Main]] = IpOf[cur]
        BY <2>1 DEF SlotInv, Chosen, Seating, Prepared
      <4> QED
        BY <1>0, <2>1, <2>3, <3>1, <3>2, <4>1 DEF SlotInv, Owns, NotWhitelisted
    <3>4. OneThreadPerAddress'
      BY <3>1, <3>2 DEF SlotInv, OneThreadPerAddress
    <3>5. Joinable'
      BY <2>1, <3>1, <3>2 DEF SlotInv, Joinable
    <3>6. Backed'
      BY <1>0, <2>1, <3>1, <3>2 DEF SlotInv, Backed
    <3>7. Vacant' /\ Prepared' /\ Chosen'
      BY <3>1 DEF Vacant, Prepared, Chosen, Emptied, FinalizeLabels, Seating
    <3> QED
      BY <3>3, <3>4, <3>5, <3>6, <3>7 DEF SlotInv
  <2> QED
    BY <1>15, <2>2, <2>3 DEF StartThread
<1>16. ASSUME MarkThread PROVE SlotInv'
  <2>1. /\ pc' = [pc EXCEPT ![Main] = "accept"] /\ pc[Main] = "mark"
        /\ has_thread' = [has_thread EXCEPT ![slot[Main]] = TRUE]
        /\ slot' = [slot EXCEPT ![Main] = 0]
        /\ UNCHANGED <<connected, ip_addr, thread>>
    BY <1>16 DEF MarkThread, EndIteration
  <2>2. \A c \in Conns : (Live(c)' <=> Live(c)) /\ slot'[c] = slot[c]
    BY <1>0, <1>7, <2>1
  <2>3. Owns' /\ OneThreadPerAddress' /\ Joinable'
    BY <1>0, <1>7, <2>1, <2>2 DEF SlotInv, Owns, OneThreadPerAddress, Joinable, NotWhitelisted
  <2>4. Backed'
    BY <1>7, <2>1, <2>2 DEF SlotInv, Backed, Reserved, FinalizeLabels
  <2>5. Vacant' /\ Prepared' /\ Chosen'
    BY <1>7, <2>1 DEF Vacant, Prepared, Chosen, Emptied, FinalizeLabels, Seating
  <2> QED
    BY <2>3, <2>4, <2>5 DEF SlotInv
<1>17. ASSUME CloseCs PROVE SlotInv'
  <2>1. /\ pc' = [pc EXCEPT ![Main] = "accept"] /\ pc[Main] = "close_cs"
        /\ slot' = [slot EXCEPT ![Main] = 0]
        /\ UNCHANGED <<connected, ip_addr, has_thread, thread>>
    BY <1>17 DEF CloseCs, EndIteration
  <2>2. \A c \in Conns : (Live(c)' <=> Live(c)) /\ slot'[c] = slot[c]
    BY <1>0, <1>7, <2>1
  <2>3. Owns' /\ OneThreadPerAddress' /\ Joinable'
    BY <1>0, <1>7, <2>1, <2>2 DEF SlotInv, Owns, OneThreadPerAddress, Joinable, NotWhitelisted
  <2>4. Backed'
    BY <1>7, <2>1, <2>2 DEF SlotInv, Backed, Reserved, FinalizeLabels
  <2>5. Vacant' /\ Prepared' /\ Chosen'
    BY <1>7, <2>1 DEF Vacant, Prepared, Chosen, Emptied, FinalizeLabels, Seating
  <2> QED
    BY <2>3, <2>4, <2>5 DEF SlotInv
<1>18. ASSUME TakeSocket \/ Reject \/ CloseOld PROVE SlotInv'
  <2>1. PICK l : /\ pc' = [pc EXCEPT ![Main] = l]
                 /\ <<pc[Main], l>> \in {<<"take", "reserve">>, <<"select", "close_cs">>, <<"close_old", "join">>}
    BY <1>18 DEF TakeSocket, Reject, CloseOld
  <2>2. UNCHANGED <<connected, ip_addr, has_thread, thread, slot, cur, join_old, old_thread>>
    BY <1>18 DEF TakeSocket, Reject, CloseOld
  <2> QED
    BY <1>0, <2>1, <2>2, SlotQuiet DEF Emptied, Reserved, FinalizeLabels, Seating
<1>19. ASSUME MainStep PROVE SlotInv'
  <2>1. CASE MutexLock(Main, "lock", "select") \/ MutexLock(Main, "fail_lock", "fail_release")
    BY <1>0, <2>1, SlotQuiet DEF MutexLock, Emptied, Reserved, FinalizeLabels, Seating
  <2>2. CASE Finalize(Main)
    BY <1>0, <1>1, <1>2, <2>2
  <2> QED
    BY <1>9, <1>10, <1>11, <1>12, <1>13, <1>14, <1>15, <1>16, <1>17, <1>18, <1>19, <2>1, <2>2
       DEF MainStep
<1> QED
  BY <1>3, <1>4, <1>5, <1>6, <1>8, <1>19 DEF Next, Idle

IndInv == Typed /\ Fresh /\ Locked /\ SlotInv

LEMMA IndInvAlways == Spec => []IndInv
<1>1. Init => IndInv
  BY TypedInit, FreshInit, LockedInit, SlotInit DEF IndInv
<1>2. IndInv /\ [Next]_vars => IndInv'
  BY TypedStep, FreshStep, LockedStep, SlotStep DEF IndInv
<1> QED
  BY <1>1, <1>2, PTL DEF Spec

\* Two live threads never share a slot, and the accept loop reinitialises a
\* slot (main.cpp, after join_thread()) only when no thread is left on it.
THEOREM SlotsAreExclusive == Spec => []SlotExclusive
<1>1. IndInv => SlotExclusive
  <2> SUFFICES ASSUME IndInv PROVE SlotExclusive
    OBVIOUS
  <2>1. \A c, d \in Conns : Live(c) /\ Live(d) /\ slot[c] = slot[d] => c = d
    BY DEF IndInv, SlotInv, Owns
  <2>2. pc[Main] \in Emptied => \A c \in Conns : Live(c) => slot[c] # slot[Main]
    BY DEF IndInv, SlotInv, Vacant
  <2> QED
    BY <2>1, <2>2 DEF SlotExclusive, Emptied
<1> QED
  BY <1>1, IndInvAlways, PTL

\* A console address is never served by two threads at a time: the accept
\* loop starts a thread only for an address that no live thread serves.
THEOREM OneThreadPerAddressAlways == Spec => []OneThreadPerAddress
<1>1. IndInv => OneThreadPerAddress
  BY DEF IndInv, SlotInv
<1> QED
  BY <1>1, IndInvAlways, PTL

\* The comparison of the accept loop decides membership in the whitelist.
LEMMA WhitelistChecked == \A c \in Conns : ~NotWhitelisted(IpOf[c]) <=> IpOf[c] \in Whitelist
BY IpAssumption, WhitelistAssumption DEF NotWhitelisted, Whitelist

\* The reconnection path of the accept loop, which skips the whitelist,
\* serves only addresses that the whitelist has let in before.
THEOREM WhitelistHolds == Spec => []OnlyWhitelistedServed
<1>1. IndInv => OnlyWhitelistedServed
  BY WhitelistChecked DEF IndInv, SlotInv, Owns, OnlyWhitelistedServed
<1> QED
  BY <1>1, IndInvAlways, PTL

-----------------------------------------------------------------------------
(* The slot table implements the session pool. *)

seatBar == [c \in Conns |-> IF Live(c) THEN slot[c] ELSE -1]
leftBar == {c \in Conns : pc[c] = "done"}
newcomerBar == IF pc[Main] \in Deciding \cup Seating THEN cur ELSE Nobody
offeredBar == IF pc[Main] \in Seating THEN slot[Main] ELSE -1

\* The seated connections, seen from the slot table.
LEMMA PoolView ==
    ASSUME Typed
    PROVE  /\ \A c \in Conns : Pool!Seated(c) <=> Live(c)
           /\ \A c \in Conns : Live(c) => seatBar[c] = slot[c]
           /\ Pool!Taken = {slot[c] : c \in {d \in Conns : Live(d)}}
           /\ \A c \in Conns : Pool!Earlier(c) = {d \in Conns : Live(d) /\ IpOf[d] = IpOf[c]}
           /\ \A p \in Procs : slot[p] \in Slots /\ slot[p] # -1
<1>1. \A p \in Procs : slot[p] \in Slots /\ slot[p] # -1
  BY SlotsAssumption DEF Typed, TypeOK, Slots
<1>2. \A c \in Conns : Pool!Seated(c) <=> Live(c)
  BY <1>1 DEF Pool!Seated, Procs
<1>3. Pool!Taken = {slot[c] : c \in {d \in Conns : Live(d)}}
  BY <1>1, <1>2 DEF Pool!Taken
<1>4. \A c \in Conns : Pool!Earlier(c) = {d \in Conns : Live(d) /\ IpOf[d] = IpOf[c]}
  BY <1>2 DEF Pool!Earlier
<1> QED
  BY <1>1, <1>2, <1>3, <1>4 DEF seatBar

LEMMA PoolInit == Init => Pool!Init
BY IdAssumption, ZenonT(60) DEF Init, Pool!Init, Live, Procs, Deciding, Seating

\* A step that leaves threads on their slots and keeps the newcomer's state.
LEMMA PoolStutter ==
    ASSUME Typed, NEW p \in Procs, NEW l, pc' = [pc EXCEPT ![p] = l],
           \A q \in Conns : slot'[q] = slot[q],
           IF p = Main
           THEN /\ pc[Main] \in Deciding <=> l \in Deciding
                /\ pc[Main] \in Seating <=> l \in Seating
                /\ pc[Main] \in Deciding \cup Seating => cur' = cur
                /\ pc[Main] \in Seating => slot'[Main] = slot[Main]
           ELSE /\ pc[p] \notin {"none", "done"} /\ l \notin {"none", "done"}
                /\ cur' = cur /\ slot'[Main] = slot[Main]
    PROVE  UNCHANGED Pool!poolVars
<1> USE IdAssumption
<1>1. pc \in [Procs -> MainLabels \cup ThreadLabels \cup FinalizeLabels] /\ Main \in Procs /\ Conns \subseteq Procs
  BY DEF Typed, TypeOK, Procs
<1>2. \A c \in Conns : (Live(c)' <=> Live(c)) /\ (pc'[c] = "done" <=> pc[c] = "done")
  BY <1>1 DEF Live
<1>3. pc'[Main] = IF p = Main THEN l ELSE pc[Main]
  BY <1>1
<1>4. UNCHANGED <<seatBar, leftBar>>
  BY <1>2 DEF seatBar, leftBar
<1>5. UNCHANGED <<newcomerBar, offeredBar>>
  BY <1>3 DEF newcomerBar, offeredBar
<1> QED
  BY <1>4, <1>5 DEF Pool!poolVars, seatBar, leftBar, newcomerBar, offeredBar

LEMMA PoolStep == IndInv /\ [Next]_vars => [Pool!Next]_(Pool!poolVars)
<1> SUFFICES ASSUME IndInv, [Next]_vars PROVE [Pool!Next]_(Pool!poolVars)
  OBVIOUS
<1> USE IdAssumption
<1> USE DEF Goto, slotVars, kernelVars, netVars, procVars, mainVars
<1>0. /\ Typed /\ Fresh /\ SlotInv
      /\ pc \in [Procs -> MainLabels \cup ThreadLabels \cup FinalizeLabels]
      /\ Main \in Procs /\ Conns \subseteq Procs /\ slot \in [Procs -> Slots]
      /\ cur \in Conns \cup {Nobody}
      /\ pc[Main] \notin {"accept", "exited"} => cur \in Conns
  BY DEF IndInv, Typed, TypeOK, Procs, CurKnown
<1>1. ASSUME NEW l, pc' = [pc EXCEPT ![Main] = l]
      PROVE  /\ \A c \in Conns : (Live(c)' <=> Live(c)) /\ pc'[c] = pc[c]
             /\ pc'[Main] = l
  BY <1>0, <1>1 DEF Live
<1>2. ASSUME NEW p \in Procs, Finalize(p), ~(Release(p) /\ p \in Conns) PROVE UNCHANGED Pool!poolVars
  <2>1. PICK l : /\ pc' = [pc EXCEPT ![p] = l]
                 /\ l \in FinalizeLabels \/ (p = Main /\ l = "accept")
    BY <1>2 DEF Finalize, MutexLock, FinTake, FinClear, FinClose, FinFree, Release, FinalizeLabels, Procs
  <2>2. pc[p] \in FinalizeLabels /\ (p # Main => cur' = cur /\ slot' = slot)
    BY <1>2 DEF Finalize, MutexLock, FinTake, FinClear, FinClose, FinFree, Release, FinalizeLabels, Procs
  <2>3. \A q \in Conns : slot'[q] = slot[q]
    <3>1. slot' = slot \/ slot' = [slot EXCEPT ![Main] = 0]
      BY <1>2 DEF Finalize, MutexLock, FinTake, FinClear, FinClose, FinFree, Release, EndIteration
    <3> QED
      BY <1>0, <3>1
  <2> QED
    BY <1>0, <2>1, <2>2, <2>3, PoolStutter DEF FinalizeLabels, Deciding, Seating
<1>3. ASSUME NEW c \in Conns, Release(c) PROVE Pool!Leave(c)
  <2>1. pc' = [pc EXCEPT ![c] = "done"] /\ UNCHANGED <<slot, cur>> /\ pc[c] = "rel"
    BY <1>3 DEF Release
  <2>2. /\ Live(c) /\ pc'[Main] = pc[Main]
        /\ \A d \in Conns : (Live(d)' <=> Live(d) /\ d # c) /\ (pc'[d] = "done" <=> pc[d] = "done" \/ d = c)
    BY <1>0, <2>1 DEF Live
  <2>3. Pool!Seated(c)
    BY <1>0, <2>2, PoolView
  <2>4. seatBar' = [seatBar EXCEPT ![c] = -1]
    BY <2>1, <2>2 DEF seatBar
  <2>5. leftBar' = leftBar \cup {c}
    BY <2>2 DEF leftBar
  <2>6. UNCHANGED <<newcomerBar, offeredBar>>
    BY <2>1, <2>2 DEF newcomerBar, offeredBar
  <2> QED
    BY <2>3, <2>4, <2>5, <2>6 DEF Pool!Leave, seatBar, leftBar, newcomerBar, offeredBar
<1>4. ASSUME NEW c \in Conns, ThreadStep(c) \/ RecvOk(c) \/ SendOk(c), ~Finalize(c)
      PROVE UNCHANGED Pool!poolVars
  <2>1. PICK l : pc' = [pc EXCEPT ![c] = l] /\ l \notin {"none", "done"}
    BY <1>4 DEF ThreadStep, LoadSocket, EnterCall, RecvOk, RecvFail, SendOk, SendFail,
       LeaveCall, HandleOpen, HandleOther
  <2>2. pc[c] \notin {"none", "done"} /\ UNCHANGED <<slot, cur>>
    BY <1>4 DEF ThreadStep, LoadSocket, EnterCall, RecvOk, RecvFail, SendOk, SendFail,
       LeaveCall, HandleOpen, HandleOther
  <2> QED
    BY <1>0, <2>1, <2>2, PoolStutter DEF Procs
<1>5. ASSUME NEW c \in Conns, Accept(c) PROVE Pool!Knock(c)
  <2>1. /\ pc' = [pc EXCEPT ![Main] = "lock"] /\ pc[Main] = "accept"
        /\ UNCHANGED slot /\ cur' = c /\ c \notin accepted
    BY <1>5 DEF Accept
  <2>2. pc[c] = "none"
    BY <1>0, <2>1 DEF Fresh
  <2>3. ~Pool!Seated(c) /\ c \notin leftBar
    BY <1>0, <2>2, PoolView DEF Live, leftBar
  <2>4. UNCHANGED <<seatBar, leftBar>>
    BY <1>1, <2>1 DEF seatBar, leftBar
  <2>5. newcomerBar = Nobody /\ newcomerBar' = c /\ UNCHANGED offeredBar
    BY <1>1, <2>1 DEF newcomerBar, offeredBar, Deciding, Seating
  <2> QED
    BY <2>3, <2>4, <2>5 DEF Pool!Knock, seatBar, leftBar, newcomerBar, offeredBar
<1>6. ASSUME Reconnect \/ TakeFreeSlot PROVE \E i \in Slots : Pool!Offer(i)
  <2>1. PICK l \in {"take", "reserve"}, i \in Slots :
           /\ pc' = [pc EXCEPT ![Main] = l]
           /\ slot' = [slot EXCEPT ![Main] = i]
           /\ \/ i \in SameClient
              \/ SameClient = {} /\ ~NotWhitelisted(IpOf[cur]) /\ i \in FreeSlots
    BY <1>6 DEF Reconnect, TakeFreeSlot, Choose, First
  <2>2. pc[Main] = "select" /\ cur' = cur /\ cur \in Conns
    BY <1>0, <1>6 DEF Reconnect, TakeFreeSlot, Choose
  <2>3. \A c \in Conns : (Live(c)' <=> Live(c)) /\ slot'[c] = slot[c] /\ pc'[c] = pc[c]
    BY <1>0, <1>1, <2>1
  <2>4. UNCHANGED <<seatBar, leftBar>>
    BY <2>3 DEF seatBar, leftBar
  <2>5. newcomerBar = cur /\ newcomerBar' = cur /\ offeredBar = -1 /\ offeredBar' = i
    BY <1>0, <1>1, <2>1, <2>2 DEF newcomerBar, offeredBar, Deciding, Seating
  <2>6. \/ \E d \in Pool!Earlier(cur) : seatBar[d] = i
        \/ /\ Pool!Earlier(cur) = {} /\ ~NotWhitelisted(IpOf[cur])
           /\ i \notin Pool!Taken
    <3>1. CASE i \in SameClient
      <4>1. PICK d \in Conns : Live(d) /\ slot[d] = i
        BY <1>0, <2>2, <3>1 DEF SameClient, SlotInv, Backed, Reserved, FinalizeLabels
      <4>2. IpOf[d] = IpOf[cur]
        BY <1>0, <3>1, <4>1 DEF SameClient, SlotInv, Owns
      <4> QED
        BY <1>0, <2>2, <4>1, <4>2, PoolView
    <3>2. CASE SameClient = {} /\ ~NotWhitelisted(IpOf[cur]) /\ i \in FreeSlots
      <4>1. \A d \in Conns : Live(d) => IpOf[d] # IpOf[cur] /\ slot[d] # i
        BY <1>0, <3>2 DEF SlotInv, Owns, SameClient, FreeSlots
      <4> QED
        BY <1>0, <2>2, <3>2, <4>1, PoolView
    <3> QED
      BY <2>1, <3>1, <3>2
  <2>7. Pool!Offer(i)
    BY <2>2, <2>4, <2>5, <2>6, WhitelistChecked DEF Pool!Offer, seatBar, leftBar, newcomerBar, offeredBar
  <2> QED
    BY <2>7
<1>7. ASSUME Reject PROVE Pool!Refuse
  <2>1. /\ pc' = [pc EXCEPT ![Main] = "close_cs"] /\ pc[Main] = "select" /\ cur \in Conns
        /\ UNCHANGED <<slot, cur>> /\ SameClient = {}
        /\ NotWhitelisted(IpOf[cur]) \/ FreeSlots = {}
    BY <1>0, <1>7 DEF Reject
  <2>2. UNCHANGED <<seatBar, leftBar>>
    BY <1>1, <2>1 DEF seatBar, leftBar
  <2>3. newcomerBar = cur /\ newcomerBar' = Nobody /\ offeredBar = -1 /\ offeredBar' = -1
    BY <1>0, <1>1, <2>1 DEF newcomerBar, offeredBar, Deciding, Seating
  <2>4. Pool!Earlier(cur) = {}
    <3>1. \A d \in Conns : Live(d) => IpOf[d] # IpOf[cur]
      BY <1>0, <2>1 DEF SlotInv, Owns, SameClient
    <3> QED
      BY <1>0, <2>1, <3>1, PoolView
  <2>5. FreeSlots = {} => Slots \subseteq Pool!Taken
    <3>1. FreeSlots = {} => \A i \in Slots : \E d \in Conns : Live(d) /\ slot[d] = i
      BY <1>0, <2>1 DEF FreeSlots, SlotInv, Backed, Reserved, FinalizeLabels
    <3> QED
      BY <1>0, <3>1, PoolView
  <2>6. NotWhitelisted(IpOf[cur]) => IpOf[cur] \notin Whitelist
    BY <2>1, WhitelistChecked
  <2> QED
    BY <2>1, <2>2, <2>3, <2>4, <2>5, <2>6 DEF Pool!Refuse, seatBar, leftBar, newcomerBar, offeredBar
<1>8. ASSUME NEW l \in {"fail_lock", "fin_lock"}, pc' = [pc EXCEPT ![Main] = l],
             pc[Main] \in Seating, UNCHANGED <<slot, cur>>
      PROVE  Pool!Fail
  <2>1. UNCHANGED <<seatBar, leftBar>>
    BY <1>1, <1>8 DEF seatBar, leftBar
  <2>2. newcomerBar = cur /\ newcomerBar' = Nobody /\ offeredBar = slot[Main] /\ offeredBar' = -1
    BY <1>1, <1>8 DEF newcomerBar, offeredBar, Deciding, Seating
  <2>3. cur # Nobody /\ slot[Main] # -1
    BY <1>0, <1>8, PoolView DEF Seating
  <2> QED
    BY <2>1, <2>2, <2>3 DEF Pool!Fail, seatBar, leftBar, newcomerBar, offeredBar
<1>9. ASSUME StartThread, pc' # [pc EXCEPT ![Main] = "fin_lock"] PROVE Pool!Begin
  <2>1. /\ pc[Main] = "start" /\ cur \in Conns /\ pc[cur] = "none" /\ cur' = cur
        /\ pc' = [pc EXCEPT ![Main] = "mark", ![cur] = "load_cmd"]
        /\ slot' = [slot EXCEPT ![cur] = slot[Main]]
    BY <1>0, <1>9 DEF StartThread, Fresh, Seating
  <2>2. /\ \A c \in Conns : /\ Live(c)' <=> Live(c) \/ c = cur
                            /\ slot'[c] = IF c = cur THEN slot[Main] ELSE slot[c]
                            /\ pc'[c] = "done" <=> pc[c] = "done"
        /\ pc'[Main] = "mark"
    BY <1>0, <2>1 DEF Live
  <2>3. \A c \in Conns : Live(c) => slot[c] # slot[Main] /\ IpOf[c] # IpOf[cur]
    BY <1>0, <2>1 DEF SlotInv, Vacant, Emptied, Chosen, Seating
  <2>4. seatBar' = [seatBar EXCEPT ![cur] = slot[Main]]
    BY <2>1, <2>2 DEF seatBar
  <2>5. leftBar' = leftBar
    BY <2>2 DEF leftBar
  <2>6. newcomerBar = cur /\ newcomerBar' = Nobody /\ offeredBar = slot[Main] /\ offeredBar' = -1
    BY <2>1, <2>2 DEF newcomerBar, offeredBar, Deciding, Seating
  <2>7. Pool!Earlier(cur) = {} /\ slot[Main] \notin Pool!Taken /\ slot[Main] # -1
    BY <1>0, <2>1, <2>3, PoolView
  <2> QED
    BY <2>1, <2>4, <2>5, <2>6, <2>7 DEF Pool!Begin, seatBar, leftBar, newcomerBar, offeredBar
<1>10. ASSUME MainStep PROVE Pool!Next \/ UNCHANGED Pool!poolVars
  <2>1. CASE \/ MutexLock(Main, "lock", "select") \/ MutexLock(Main, "fail_lock", "fail_release")
             \/ TakeSocket \/ Reserve \/ CloseOld \/ JoinOld \/ AssignSocket \/ ReleaseFailed
    <3>1. PICK l : /\ pc' = [pc EXCEPT ![Main] = l]
                   /\ <<pc[Main], l>> \in {<<"lock", "select">>, <<"fail_lock", "fail_release">>,
                         <<"take", "reserve">>, <<"reserve", "close_old">>, <<"close_old", "join">>,
                         <<"join", "init">>, <<"assign", "start">>, <<"fail_release", "close_cs">>}
      BY <2>1 DEF MutexLock, TakeSocket, Reserve, CloseOld, JoinOld, AssignSocket, ReleaseFailed
    <3>2. UNCHANGED <<slot, cur>>
      BY <2>1 DEF MutexLock, TakeSocket, Reserve, CloseOld, JoinOld, AssignSocket, ReleaseFailed
    <3> QED
      BY <1>0, <3>1, <3>2, PoolStutter DEF Deciding, Seating
  <2>2. CASE CloseCs \/ MarkThread
    <3>1. /\ pc' = [pc EXCEPT ![Main] = "accept"] /\ pc[Main] \in {"close_cs", "mark"}
          /\ slot' = [slot EXCEPT ![Main] = 0]
      BY <2>2 DEF CloseCs, MarkThread, EndIteration
    <3>2. \A q \in Conns : slot'[q] = slot[q]
      BY <1>0, <3>1
    <3> QED
      BY <1>0, <3>1, <3>2, PoolStutter DEF Deciding, Seating
  <2>3. CASE InitializeClient
    <3>1. /\ pc[Main] = "init" /\ UNCHANGED <<slot, cur>>
          /\ \E l \in {"assign", "fail_lock"} : pc' = [pc EXCEPT ![Main] = l]
      BY <2>3 DEF InitializeClient
    <3>2. CASE pc' = [pc EXCEPT ![Main] = "assign"]
      BY <1>0, <3>1, <3>2, PoolStutter DEF Deciding, Seating
    <3>3. CASE pc' = [pc EXCEPT ![Main] = "fail_lock"]
      BY <1>8, <3>1, <3>3 DEF Seating, Pool!Next
    <3> QED
      BY <3>1, <3>2, <3>3
  <2>4. CASE StartThread
    <3>1. CASE pc' = [pc EXCEPT ![Main] = "fin_lock"]
      <4>1. pc[Main] = "start" /\ UNCHANGED cur
        BY <2>4 DEF StartThread
      <4>2. UNCHANGED slot
        <5>1. pc'[Main] = "fin_lock"
          BY <1>0, <3>1
        <5>2. pc' # [pc EXCEPT ![Main] = "mark", ![cur] = "load_cmd"]
          BY <1>0, <4>1, <5>1
        <5> QED
          BY <2>4, <5>2 DEF StartThread
      <4> QED
        BY <1>8, <3>1, <4>1, <4>2 DEF Seating, Pool!Next
    <3>2. CASE pc' # [pc EXCEPT ![Main] = "fin_lock"]
      BY <1>9, <2>4, <3>2 DEF Pool!Next
    <3> QED
      BY <3>1, <3>2
  <2>5. CASE Finalize(Main)
    BY <1>0, <1>2, <2>5
  <2>6. CASE Reconnect \/ TakeFreeSlot
    BY <1>6, <2>6 DEF Pool!Next
  <2>7. CASE Reject
    BY <1>7, <2>7 DEF Pool!Next
  <2> QED
    BY <1>10, <2>1, <2>2, <2>3, <2>4, <2>5, <2>6, <2>7 DEF MainStep
<1>11. ASSUME NEW c \in Conns, ThreadStep(c) \/ RecvOk(c) \/ SendOk(c)
       PROVE  Pool!Next \/ UNCHANGED Pool!poolVars
  <2>1. CASE ~Finalize(c)
    BY <1>4, <1>11, <2>1
  <2>2. CASE Finalize(c) /\ ~Release(c)
    BY <1>0, <1>2, <2>2
  <2>3. CASE Release(c)
    BY <1>3, <2>3 DEF Pool!Next
  <2> QED
    BY <2>1, <2>2, <2>3
<1>12. ASSUME NEW c \in Conns, HangUp(c) PROVE UNCHANGED Pool!poolVars
  BY <1>12 DEF HangUp, Pool!poolVars, Live
<1>13. ASSUME UNCHANGED vars PROVE UNCHANGED Pool!poolVars
  BY <1>13 DEF vars, Pool!poolVars, Live
<1>14. ASSUME AcceptError PROVE UNCHANGED Pool!poolVars
  BY <1>0, <1>14, PoolStutter DEF AcceptError, Deciding, Seating
<1> QED
  BY <1>5, <1>10, <1>11, <1>12, <1>13, <1>14 DEF Next, Idle, Pool!Next

\* The accept loop and the client threads of main.cpp, with their lock, their
\* joins and their recycled descriptors, implement the session pool: every
\* step is a step of the pool or leaves it alone.
THEOREM SlotsImplementPool == Spec => ImplementsSessionPool
<1>1. Spec => Pool!Init /\ [][Pool!Next]_(Pool!poolVars)
  BY IndInvAlways, PoolInit, PoolStep, PTL DEF Spec
<1> QED
  BY <1>1 DEF ImplementsSessionPool, Pool!Spec

-----------------------------------------------------------------------------
(* What is acquired: threads, buffers, sockets and files *)


Holding == {"lock", "select", "take", "reserve", "close_cs", "close_old", "join",
            "init", "fail_lock", "fail_release", "assign"}

\* A number stands for a socket or for a file, not for both.
Disjoint == \A fd \in FD : sockets[fd] = Nobody \/ files[fd] = Nobody

\* Until it is handed over, the accept loop's new socket is open.
CsOpen == pc[Main] \in Holding => cs \in FD /\ sockets[cs] = cur

\* The socket in a slot is the socket of the thread on it.
SlotSocket ==
    /\ \A c \in Conns : Live(c) /\ s[slot[c]] # NO_SOCKET => sockets[s[slot[c]]] = c
    /\ pc[Main] \in {"start", "fin_lock", "fin_take", "fin_clear"} /\ s[slot[Main]] # NO_SOCKET =>
          sockets[s[slot[Main]]] = cur

\* What finalize_client() holds in its local variable s.
Finalizing ==
    \A p \in Procs :
        /\ pc[p] = "fin_clear" => reg[p] = s[slot[p]]
        /\ pc[p] = "fin_close" /\ reg[p] # NO_SOCKET => sockets[reg[p]] = Served(p)

\* Once a thread has taken its socket, the slot holds none.
Cleared ==
    \A c \in Conns : pc[c] \in {"fin_close", "fin_free", "rel_lock", "rel"} =>
        s[slot[c]] = NO_SOCKET

\* The socket that the accept loop has taken from a slot is still open, and
\* the thread it was taken from will not find it any more.
OldSocket ==
    /\ pc[Main] = "take" => old_s = s[slot[Main]]
    /\ pc[Main] \in {"reserve", "close_old"} /\ old_s # NO_SOCKET =>
          LET c == sockets[old_s] IN
          /\ c \in Conns /\ pc[c] # "none"
          /\ c = IF pc[Main] = "reserve" THEN thread[slot[Main]] ELSE old_thread
          /\ Live(c) => /\ slot[c] = slot[Main]
                        /\ s[slot[c]] = NO_SOCKET
                        /\ pc[c] \in {"fin_clear", "fin_close"} => reg[c] = NO_SOCKET

\* The file in a slot is open and belongs to the thread on it.
SlotFile ==
    /\ \A c \in Conns : Live(c) /\ ro_file[slot[c]] # NoFile => files[ro_file[slot[c]]] = c
    /\ pc[Main] \in {"assign", "start"} \cup FinalizeLabels => ro_file[slot[Main]] = NoFile

\* A number loaded for recv() or send() stands for the thread's connection,
\* or for none while the accept loop waits for the thread to notice.
Traffic ==
    \A c \in Conns :
        /\ pc[c] \in {"recv", "send"} /\ reg[c] # NO_SOCKET =>
              \/ sockets[reg[c]] = c
              \/ pc[Main] = "join" /\ slot[Main] = slot[c] /\ sockets[reg[c]] = Nobody
        /\ io[c] \in {c, Nobody}

FdInv == Disjoint /\ CsOpen /\ SlotSocket /\ Finalizing /\ Cleared /\ OldSocket /\ SlotFile /\ Traffic

LEMMA FdInit == Init => FdInv
BY IdAssumption DEF Init, FdInv, Disjoint, CsOpen, SlotSocket, Finalizing, Cleared, OldSocket,
   SlotFile, Traffic, Live, Holding, FinalizeLabels, Procs


\* Facts of the other invariants that every step needs.
Context ==
    /\ pc \in [Procs -> MainLabels \cup ThreadLabels \cup FinalizeLabels]
    /\ pc[Main] \in MainLabels \cup FinalizeLabels
    /\ Main \in Procs /\ Conns \subseteq Procs /\ Procs = Conns \cup {Main}
    /\ slot \in [Procs -> Slots]
    /\ s \in [Slots -> FD \cup {NO_SOCKET}] /\ ro_file \in [Slots -> FD \cup {NoFile}]
    /\ sockets \in [FD -> Conns \cup {Nobody}] /\ files \in [FD -> Conns \cup {Nobody}]
    /\ reg \in [Procs -> FD \cup {NO_SOCKET}] /\ io \in [Conns -> Conns \cup {Nobody}]
    /\ cs \in FD \cup {NO_SOCKET} /\ old_s \in FD \cup {NO_SOCKET}
    /\ cur \in Conns \cup {Nobody}
    /\ pc[Main] \notin {"accept", "exited"} => cur \in Conns
    /\ pc[Main] \notin {"accept", "mark", "exited"} => pc[cur] = "none"
    /\ \A p, q \in Procs : pc[p] \in Critical /\ pc[q] \in Critical => p = q
    /\ \A c \in Conns : Live(c) => thread[slot[c]] = c
    /\ pc[Main] \in Emptied => \A c \in Conns : Live(c) => slot[c] # slot[Main]
    /\ \A fd \in FD : fd # NO_SOCKET /\ fd # NoFile
    /\ NO_SOCKET = NoFile

LEMMA ContextHolds == IndInv => Context
<1> SUFFICES ASSUME IndInv PROVE Context
  OBVIOUS
<1> USE IdAssumption
<1>1. \A p, q \in Procs : pc[p] \in Critical /\ pc[q] \in Critical => p = q
  BY DEF IndInv, Locked
<1>2. \A fd \in FD : fd # NO_SOCKET /\ fd # NoFile
  BY FdAssumption DEF NO_SOCKET, NoFile
<1>3. \A c \in Conns : Live(c) => thread[slot[c]] = c
  BY DEF IndInv, SlotInv, Owns
<1>4. /\ pc[Main] \in Emptied => \A c \in Conns : Live(c) => slot[c] # slot[Main]
      /\ pc[Main] \notin {"accept", "mark", "exited"} => pc[cur] = "none"
      /\ pc[Main] \notin {"accept", "exited"} => cur \in Conns
  BY DEF IndInv, SlotInv, Vacant, Fresh, Typed, CurKnown
<1> QED
  BY <1>1, <1>2, <1>3, <1>4 DEF Context, IndInv, Typed, TypeOK, Procs, NO_SOCKET, NoFile

\* A step of a client thread that changes no socket, file or slot.
LEMMA FdThread ==
    ASSUME Context, FdInv, NEW c \in Conns, NEW l, Live(c), pc' = [pc EXCEPT ![c] = l],
           UNCHANGED <<s, ro_file, thread, sockets, files, slot, cs, cur, old_s, old_thread>>,
           \A p \in Procs : p # c => reg'[p] = reg[p],
           \A d \in Conns : d # c => io'[d] = io[d],
           io'[c] \in {c, Nobody},
           l \notin {"none", "fin_close"},
           l \in {"fin_free", "rel_lock", "rel"} => pc[c] \in {"fin_free", "rel_lock", "rel"},
           l = "fin_clear" => reg'[c] = s[slot[c]],
           l \in {"recv", "send"} => reg'[c] = NO_SOCKET \/ sockets[reg'[c]] = c
    PROVE  FdInv'
<1> USE IdAssumption DEF Context
<1>1. /\ \A d \in Conns : Live(d)' => Live(d)
      /\ \A p \in Procs : p # c => pc'[p] = pc[p]
      /\ pc'[c] = l /\ c # Main
  BY DEF Live
<1>2. (Disjoint /\ CsOpen /\ SlotSocket)'
  BY <1>1 DEF FdInv, Disjoint, CsOpen, SlotSocket
<1>3. (Finalizing /\ Cleared)'
  BY <1>1 DEF FdInv, Finalizing, Cleared, Served
<1>4. OldSocket'
  BY <1>1 DEF FdInv, OldSocket
<1>5. SlotFile'
  BY <1>1 DEF FdInv, SlotFile
<1>6. Traffic'
  BY <1>1 DEF FdInv, Traffic
<1> QED
  BY <1>2, <1>3, <1>4, <1>5, <1>6 DEF FdInv

LEMMA FdThreadSteps ==
    ASSUME Context, FdInv, NEW c \in Conns, ThreadStep(c) \/ RecvOk(c) \/ SendOk(c)
    PROVE  FdInv'
<1> USE IdAssumption
<1> USE DEF Goto, slotVars, kernelVars, netVars, procVars, mainVars
<1>0. c \in Procs /\ c # Main
  BY DEF Procs
<1>1. ASSUME NEW from \in {"load_cmd", "load_reply"}, NEW to \in {"recv", "send"},
             LoadSocket(c, from, to) PROVE FdInv'
  <2>1. /\ pc' = [pc EXCEPT ![c] = to] /\ Live(c)
        /\ UNCHANGED <<s, ro_file, thread, sockets, files, slot, io, cs, cur, old_s, old_thread>>
        /\ reg' = [reg EXCEPT ![c] = s[slot[c]]]
    BY <1>1 DEF LoadSocket, Live
  <2>2. reg'[c] = NO_SOCKET \/ sockets[reg'[c]] = c
    BY <2>1, <1>0 DEF Context, FdInv, SlotSocket
  <2> QED
    BY <2>1, <2>2, <1>0, FdThread DEF Context, FdInv, Traffic
<1>2. ASSUME NEW from \in {"recv", "send"}, NEW to \in {"in_recv", "in_send"},
             EnterCall(c, from, to) PROVE FdInv'
  <2>1. PICK l \in {"in_recv", "in_send", "fin_lock"} :
        /\ pc' = [pc EXCEPT ![c] = l] /\ pc[c] = from
        /\ UNCHANGED <<s, ro_file, thread, sockets, files, slot, cs, cur, old_s, old_thread>>
        /\ reg' = [reg EXCEPT ![c] = NO_SOCKET] /\ io' = [io EXCEPT ![c] = Reached(c)]
    BY <1>2 DEF EnterCall
  <2>2. Reached(c) \in {c, Nobody}
    BY <2>1 DEF Context, FdInv, Traffic, Reached
  <2>3. \A d \in Conns : d # c => io'[d] = io[d]
    BY <2>1 DEF Context
  <2>4. io'[c] \in {c, Nobody} /\ Live(c) /\ \A p \in Procs : p # c => reg'[p] = reg[p]
    BY <2>1, <2>2 DEF Context, Live
  <2> QED
    BY <2>1, <2>3, <2>4, FdThread
<1>3. ASSUME NEW from \in {"in_recv", "in_send"}, NEW to \in {"handle", "load_cmd", "fin_lock"},
             LeaveCall(c, from, to) PROVE FdInv'
  <2>1. /\ pc' = [pc EXCEPT ![c] = to] /\ Live(c)
        /\ UNCHANGED <<s, ro_file, thread, sockets, files, slot, reg, cs, cur, old_s, old_thread>>
        /\ io' = [io EXCEPT ![c] = Nobody]
    BY <1>3 DEF LeaveCall, Live
  <2>2. io'[c] = Nobody /\ \A d \in Conns : d # c => io'[d] = io[d]
    BY <2>1 DEF Context
  <2> QED
    BY <2>1, <2>2, FdThread
<1>4. ASSUME HandleOther(c) PROVE FdInv'
  <2>1. PICK l \in {"load_reply", "fin_lock"} :
        /\ pc' = [pc EXCEPT ![c] = l] /\ Live(c)
        /\ UNCHANGED <<s, ro_file, thread, sockets, files, slot, reg, io, cs, cur, old_s, old_thread>>
    BY <1>4 DEF HandleOther, Live
  <2> QED
    BY <2>1, FdThread DEF FdInv, Traffic
<1>5. ASSUME MutexLock(c, "fin_lock", "fin_take") \/ MutexLock(c, "rel_lock", "rel") PROVE FdInv'
  <2>1. PICK l \in {"fin_take", "rel"} :
        /\ pc' = [pc EXCEPT ![c] = l] /\ Live(c) /\ (l = "rel" => pc[c] = "rel_lock")
        /\ UNCHANGED <<s, ro_file, thread, sockets, files, slot, reg, io, cs, cur, old_s, old_thread>>
    BY <1>5 DEF MutexLock, Live
  <2> QED
    BY <2>1, FdThread DEF FdInv, Traffic
<1>6. ASSUME FinTake(c) PROVE FdInv'
  <2>1. PICK l \in {"fin_clear"} :
        /\ pc' = [pc EXCEPT ![c] = l] /\ Live(c)
        /\ UNCHANGED <<s, ro_file, thread, sockets, files, slot, io, cs, cur, old_s, old_thread>>
        /\ reg' = [reg EXCEPT ![c] = s[slot[c]]]
    BY <1>6 DEF FinTake, Live
  <2>2. /\ reg'[c] = s[slot[c]] /\ \A p \in Procs : p # c => reg'[p] = reg[p]
        /\ io'[c] \in {c, Nobody} /\ \A d \in Conns : d # c => io'[d] = io[d]
    BY <1>0, <2>1 DEF Context, FdInv, Traffic
  <2> QED
    BY <2>1, <2>2, FdThread
<1>7. ASSUME Release(c) PROVE FdInv'
  <2>1. PICK l \in {"done"} :
        /\ pc' = [pc EXCEPT ![c] = l] /\ Live(c)
        /\ UNCHANGED <<s, ro_file, thread, sockets, files, slot, reg, io, cs, cur, old_s, old_thread>>
    BY <1>0, <1>7 DEF Release, Live
  <2>2. /\ \A p \in Procs : p # c => reg'[p] = reg[p]
        /\ io'[c] \in {c, Nobody} /\ \A d \in Conns : d # c => io'[d] = io[d]
    BY <2>1 DEF FdInv, Traffic
  <2> QED
    BY <2>1, <2>2, FdThread
<1>8. ASSUME NEW l, pc' = [pc EXCEPT ![c] = l], Live(c)
      PROVE  /\ \A p \in Procs : p # c => pc'[p] = pc[p]
             /\ \A d \in Conns : d # c => (Live(d)' <=> Live(d))
             /\ \A d \in Conns : Live(d)' => Live(d)
             /\ pc'[c] = l /\ pc'[Main] = pc[Main]
  BY <1>0, <1>8 DEF Context, Live
<1>9. ASSUME FinClear(c) PROVE FdInv'
  <2>1. /\ pc' = [pc EXCEPT ![c] = "fin_close"] /\ Live(c) /\ pc[c] = "fin_clear"
        /\ s' = [s EXCEPT ![slot[c]] = NO_SOCKET]
        /\ UNCHANGED <<ro_file, thread, sockets, files, slot, reg, io, cs, cur, old_s, old_thread>>
    BY <1>9 DEF FinClear, Live
  <2>20. /\ \A p \in Procs : p # c => pc'[p] = pc[p]
         /\ \A d \in Conns : Live(d)' => Live(d)
         /\ pc'[c] = "fin_close" /\ pc'[Main] = pc[Main]
    BY <1>8, <2>1
  <2>2. Live(c)'
    BY <2>1, <2>20 DEF Live
  <2>3. \A d \in Conns : d # c /\ Live(d) => slot[d] # slot[c]
    BY <2>1 DEF Context
  <2>4. pc[Main] \in {"start", "fin_lock", "fin_take", "fin_clear"} => slot[Main] # slot[c]
    BY <2>1 DEF Context, Emptied, FinalizeLabels
  <2>5. pc[Main] \notin {"take", "reserve"}
    BY <1>0, <2>1 DEF Context, Critical
  <2>6. (Disjoint /\ CsOpen)'
    BY <2>1, <2>20 DEF FdInv, Disjoint, CsOpen
  <2>7. SlotSocket'
    BY <2>1, <2>20, <2>3, <2>4 DEF Context, FdInv, SlotSocket
  <2>8. Finalizing'
    <3>1. reg[c] = NO_SOCKET \/ sockets[reg[c]] = c
      BY <1>0, <2>1 DEF FdInv, Finalizing, SlotSocket
    <3>2. \A p \in Procs : p # c => pc[p] # "fin_clear"
      BY <1>0, <2>1 DEF Context, Critical
    <3> QED
      BY <1>0, <2>1, <2>20, <3>1, <3>2 DEF FdInv, Finalizing, Served
  <2>9. Cleared'
    BY <1>0, <2>1, <2>20, <2>3 DEF Context, FdInv, Cleared
  <2>10. OldSocket'
    BY <1>0, <2>1, <2>20, <2>2, <2>5 DEF Context, FdInv, OldSocket
  <2>11. (SlotFile /\ Traffic)'
    BY <1>0, <2>1, <2>20 DEF FdInv, SlotFile, Traffic
  <2> QED
    BY <2>6, <2>7, <2>8, <2>9, <2>10, <2>11 DEF FdInv
<1>10. ASSUME FinClose(c) PROVE FdInv'
  <2>1. /\ pc' = [pc EXCEPT ![c] = "fin_free"] /\ Live(c) /\ pc[c] = "fin_close"
        /\ reg' = [reg EXCEPT ![c] = NO_SOCKET]
        /\ UNCHANGED <<s, ro_file, thread, slot, io, cs, cur, old_s, old_thread>>
    BY <1>10 DEF FinClose, Live
  <2>20. /\ \A p \in Procs : p # c => pc'[p] = pc[p]
         /\ \A d \in Conns : Live(d)' => Live(d)
         /\ pc'[c] = "fin_free" /\ pc'[Main] = pc[Main]
    BY <1>8, <2>1
  <2>2. reg[c] # NO_SOCKET => sockets[reg[c]] = c /\ reg[c] \in FD
    BY <1>0, <2>1 DEF Context, FdInv, Finalizing, Served
  <2>3. /\ \A fd \in FD : sockets'[fd] = IF fd = reg[c] THEN Nobody ELSE sockets[fd]
        /\ files' = files
    BY <1>10, <2>2 DEF Context, FdInv, Disjoint, FinClose, ShutdownAndClose, CloseFd
  <2>4. \A fd \in FD : sockets[fd] # c => sockets'[fd] = sockets[fd]
    BY <2>2, <2>3 DEF Context
  <2>5. \A p \in Procs : p # c => reg'[p] = reg[p]
    BY <2>1 DEF Context
  <2>6. Disjoint'
    BY <2>3 DEF FdInv, Disjoint
  <2>7. pc[Main] \notin {"accept", "mark", "exited"} => cur # c
    BY <2>1 DEF Context
  <2>8. (CsOpen /\ SlotSocket)'
    <3>1. CsOpen'
      BY <2>1, <2>20, <2>4, <2>7 DEF Context, FdInv, CsOpen, Holding
    <3>2. s[slot[c]] = NO_SOCKET
      BY <2>1 DEF FdInv, Cleared
    <3>3. SlotSocket'
      BY <2>1, <2>20, <2>4, <2>7, <3>2 DEF Context, FdInv, SlotSocket
    <3> QED
      BY <3>1, <3>3
  <2>9. (Finalizing /\ Cleared)'
    <3>1. \A p \in Procs : p # c /\ pc[p] = "fin_close" => Served(p) # c
      BY <2>7 DEF Served, Procs
    <3> QED
      BY <1>0, <2>1, <2>20, <2>4, <2>5, <3>1 DEF Context, FdInv, Finalizing, Cleared, Served
  <2>10. OldSocket'
    <3>1. pc[Main] \in {"reserve", "close_old"} /\ old_s # NO_SOCKET => sockets'[old_s] = sockets[old_s]
      BY <1>0, <2>1, <2>2, <2>3, <2>7 DEF Context, FdInv, OldSocket
    <3> QED
      BY <1>0, <2>1, <2>20, <2>4, <2>5, <3>1 DEF Context, FdInv, OldSocket
  <2>11. SlotFile'
    BY <2>1, <2>20, <2>3 DEF FdInv, SlotFile
  <2>12. Traffic'
    <3>1. \A d \in Conns : d # c /\ reg[d] # NO_SOCKET /\ sockets[reg[d]] \in {d, Nobody} =>
             sockets'[reg[d]] = sockets[reg[d]]
      BY <1>0, <2>4 DEF Context
    <3> QED
      BY <1>0, <2>1, <2>20, <2>5, <3>1 DEF Context, FdInv, Traffic
  <2> QED
    BY <2>6, <2>8, <2>9, <2>10, <2>11, <2>12 DEF FdInv
<1>11. ASSUME FinFree(c) PROVE FdInv'
  <2>1. /\ pc' = [pc EXCEPT ![c] = "rel_lock"] /\ Live(c) /\ pc[c] = "fin_free"
        /\ ro_file' = [ro_file EXCEPT ![slot[c]] = NoFile]
        /\ UNCHANGED <<s, thread, slot, reg, io, cs, cur, old_s, old_thread>>
    BY <1>11 DEF FinFree, Live
  <2>20. /\ \A p \in Procs : p # c => pc'[p] = pc[p]
         /\ \A d \in Conns : Live(d)' => Live(d)
         /\ pc'[c] = "rel_lock" /\ pc'[Main] = pc[Main]
    BY <1>8, <2>1
  <2>2. ro_file[slot[c]] # NoFile => files[ro_file[slot[c]]] = c /\ ro_file[slot[c]] \in FD
    BY <1>0, <2>1 DEF Context, FdInv, SlotFile
  <2>3. /\ sockets' = sockets
        /\ \A fd \in FD : files'[fd] = IF fd = ro_file[slot[c]] THEN Nobody ELSE files[fd]
    BY <1>11, <2>2 DEF Context, FdInv, Disjoint, FinFree, CloseFd
  <2>4. \A d \in Conns : d # c /\ Live(d) => slot[d] # slot[c]
    BY <2>1 DEF Context
  <2>5. pc[Main] \in {"assign", "start"} \cup FinalizeLabels => slot[Main] # slot[c]
    BY <2>1 DEF Context, Emptied
  <2>6. (Disjoint /\ CsOpen /\ SlotSocket)'
    BY <1>0, <2>1, <2>20, <2>3 DEF FdInv, Disjoint, CsOpen, SlotSocket, Live
  <2>7. (Finalizing /\ Cleared)'
    BY <1>0, <2>1, <2>20, <2>3 DEF FdInv, Finalizing, Cleared, Served
  <2>8. OldSocket'
    BY <1>0, <2>1, <2>20, <2>3 DEF Context, FdInv, OldSocket
  <2>9. SlotFile'
    BY <1>0, <2>1, <2>20, <2>2, <2>3, <2>4, <2>5 DEF Context, FdInv, SlotFile
  <2>10. Traffic'
    BY <1>0, <2>1, <2>20, <2>3 DEF FdInv, Traffic
  <2> QED
    BY <2>6, <2>7, <2>8, <2>9, <2>10 DEF FdInv
<1>12. ASSUME HandleOpen(c) PROVE FdInv'
  <2>1. /\ pc' = [pc EXCEPT ![c] = "load_reply"] /\ Live(c) /\ pc[c] = "handle"
        /\ UNCHANGED <<s, thread, slot, reg, io, sockets, cs, cur, old_s, old_thread>>
    BY <1>12 DEF HandleOpen, Live
  <2>20. /\ \A p \in Procs : p # c => pc'[p] = pc[p]
         /\ \A d \in Conns : Live(d)' => Live(d)
         /\ pc'[c] = "load_reply" /\ pc'[Main] = pc[Main]
    BY <1>8, <2>1
  <2>2. PICK fd \in FD \cup {NoFile} :
        /\ ro_file' = [ro_file EXCEPT ![slot[c]] = fd]
        /\ fd # NoFile => /\ sockets[fd] = Nobody
                          /\ files[fd] = Nobody \/ fd = ro_file[slot[c]]
        /\ \A g \in FD : files'[g] = IF g = fd THEN c ELSE
                                     IF g = ro_file[slot[c]] THEN Nobody ELSE files[g]
    <3> DEFINE old == ro_file[slot[c]]
               left == IF old = NoFile THEN files ELSE [files EXCEPT ![old] = Nobody]
    <3>1. \A g \in FD : left[g] = IF g = old THEN Nobody ELSE files[g]
      BY DEF Context
    <3>2. left \in [FD -> Conns \cup {Nobody}]
      BY DEF Context
    <3>3. CASE files' = left /\ ro_file' = [ro_file EXCEPT ![slot[c]] = NoFile]
      BY <3>1, <3>3 DEF Context
    <3>4. CASE \E fd \in FD :
                /\ sockets[fd] = Nobody /\ left[fd] = Nobody
                /\ files' = [left EXCEPT ![fd] = c]
                /\ ro_file' = [ro_file EXCEPT ![slot[c]] = fd]
      <4>1. PICK fd \in FD :
                /\ sockets[fd] = Nobody /\ left[fd] = Nobody
                /\ files' = [left EXCEPT ![fd] = c]
                /\ ro_file' = [ro_file EXCEPT ![slot[c]] = fd]
        BY <3>4
      <4>2. \A g \in FD : files'[g] = IF g = fd THEN c ELSE left[g]
        BY <3>2, <4>1
      <4>3. files[fd] = Nobody \/ fd = old
        BY <3>1, <4>1
      <4> HIDE DEF left, old
      <4>4. \A g \in FD : files'[g] = IF g = fd THEN c ELSE IF g = old THEN Nobody ELSE files[g]
        BY <3>1, <4>2
      <4> QED
        BY <4>1, <4>3, <4>4 DEF old
    <3> QED
      BY <1>12, <3>3, <3>4 DEF HandleOpen
  <2>3. ro_file[slot[c]] # NoFile => files[ro_file[slot[c]]] = c
    BY <2>1 DEF FdInv, SlotFile
  <2>4. \A d \in Conns : d # c /\ Live(d) => slot[d] # slot[c]
    BY <2>1 DEF Context
  <2>5. pc[Main] \in {"assign", "start"} \cup FinalizeLabels => slot[Main] # slot[c]
    BY <2>1 DEF Context, Emptied
  <2>6. (CsOpen /\ SlotSocket)'
    BY <1>0, <2>1, <2>20 DEF FdInv, CsOpen, SlotSocket, Live
  <2>7. Disjoint'
    BY <2>1, <2>2 DEF Context, FdInv, Disjoint
  <2>8. (Finalizing /\ Cleared)'
    BY <1>0, <2>1, <2>20 DEF FdInv, Finalizing, Cleared, Served
  <2>9. OldSocket'
    BY <1>0, <2>1, <2>20 DEF Context, FdInv, OldSocket
  <2>10. SlotFile'
    BY <1>0, <2>1, <2>20, <2>2, <2>3, <2>4, <2>5 DEF Context, FdInv, SlotFile
  <2>11. Traffic'
    BY <1>0, <2>1, <2>20 DEF FdInv, Traffic
  <2> QED
    BY <2>6, <2>7, <2>8, <2>9, <2>10, <2>11 DEF FdInv
<1>13. CASE Finalize(c)
  BY <1>5, <1>6, <1>7, <1>9, <1>10, <1>11, <1>13 DEF Finalize
<1>14. CASE RecvOk(c) \/ RecvFail(c) \/ SendOk(c) \/ SendFail(c)
  BY <1>3, <1>14 DEF RecvOk, RecvFail, SendOk, SendFail
<1> QED
  BY <1>1, <1>2, <1>4, <1>12, <1>13, <1>14 DEF ThreadStep

-----------------------------------------------------------------------------
\* The slot whose socket the accept loop is about to take has a live thread:
\* the lock keeps the thread from releasing the slot meanwhile.
TakenFrom == pc[Main] = "take" => \E c \in Conns : Live(c) /\ slot[c] = slot[Main]

LEMMA TakenStep == IndInv /\ TakenFrom /\ [Next]_vars => TakenFrom'
<1> SUFFICES ASSUME IndInv, TakenFrom, [Next]_vars, pc'[Main] = "take"
             PROVE  \E c \in Conns : Live(c)' /\ slot'[c] = slot'[Main]
  BY DEF TakenFrom
<1> USE IdAssumption
<1> USE DEF Goto, slotVars, kernelVars, netVars, procVars, mainVars
<1>0. Context
  BY ContextHolds
<1>1. CASE pc[Main] = "take"
  <2>1. PICK c \in Conns : Live(c) /\ slot[c] = slot[Main]
    BY <1>1 DEF TakenFrom
  <2>2. pc[c] # "rel" /\ c # Main
    BY <1>0, <1>1 DEF Context, Critical
  <2>3. slot' = slot /\ Live(c)'
    <3>1. CASE UNCHANGED <<pc, slot>>
      BY <2>1, <3>1 DEF Live
    <3>2. ASSUME NEW p \in Conns, NEW l, pc' = [pc EXCEPT ![p] = l], UNCHANGED slot,
                 p = c => l \notin {"none", "done"} PROVE slot' = slot /\ Live(c)'
      BY <1>0, <2>1, <3>2 DEF Context, Live
    <3>3. ASSUME NEW p \in Conns, ThreadStep(p) \/ RecvOk(p) \/ SendOk(p) PROVE slot' = slot /\ Live(c)'
      <4>1. CASE Release(p)
        <5>1. pc' = [pc EXCEPT ![p] = "done"] /\ UNCHANGED slot /\ p # c
          BY <2>2, <4>1 DEF Release
        <5> QED
          BY <3>2, <5>1
      <4>2. CASE Finalize(p) /\ ~Release(p)
        <5>1. UNCHANGED slot /\ \E l : pc' = [pc EXCEPT ![p] = l] /\ l \notin {"none", "done"}
          BY <4>2 DEF Finalize, MutexLock, FinTake, FinClear, FinClose, FinFree
        <5> QED
          BY <3>2, <5>1
      <4>3. CASE ~Finalize(p)
        <5>1. UNCHANGED slot /\ \E l : pc' = [pc EXCEPT ![p] = l] /\ l \notin {"none", "done"}
          BY <3>3, <4>3 DEF ThreadStep, LoadSocket, EnterCall, RecvOk, RecvFail, SendOk, SendFail,
             LeaveCall, HandleOpen, HandleOther
        <5> QED
          BY <3>2, <5>1
      <4> QED
        BY <4>1, <4>2, <4>3
    <3>4. ASSUME MainStep PROVE FALSE
      <4>1. TakeSocket
        BY <1>1, <3>4 DEF MainStep, MutexLock, Reconnect, TakeFreeSlot, Choose, Reserve, Reject, CloseCs,
           CloseOld, JoinOld, InitializeClient, ReleaseFailed, AssignSocket, StartThread, MarkThread,
           Finalize, FinTake, FinClear, FinClose, FinFree, Release
      <4>2. pc'[Main] = "reserve"
        BY <1>0, <4>1 DEF TakeSocket, Context
      <4> QED
        BY <4>2
    <3>5. ASSUME NEW d \in Conns, Accept(d) \/ AcceptError PROVE FALSE
      BY <1>1, <3>5 DEF Accept, AcceptError
    <3>6. ASSUME NEW d \in Conns, HangUp(d) PROVE slot' = slot /\ Live(c)'
      BY <3>1, <3>6 DEF HangUp
    <3>7. ASSUME AcceptError PROVE FALSE
      BY <1>1, <3>7 DEF AcceptError
    <3>8. ASSUME Idle \/ UNCHANGED vars PROVE slot' = slot /\ Live(c)'
      BY <3>1, <3>8 DEF Idle, vars
    <3> QED
      BY <3>3, <3>4, <3>5, <3>6, <3>7, <3>8 DEF Next
  <2> QED
    BY <2>1, <2>3
<1>2. CASE pc[Main] # "take"
  <2>1. Reconnect
    <3>1. ASSUME NEW p \in Conns, NEW l, pc' = [pc EXCEPT ![p] = l] PROVE FALSE
      BY <1>0, <1>2, <3>1 DEF Context
    <3>2. ASSUME NEW l, pc' = [pc EXCEPT ![Main] = l] PROVE l = "take"
      BY <1>0, <3>2 DEF Context
    <3>3. ASSUME NEW p \in Conns, ThreadStep(p) \/ RecvOk(p) \/ SendOk(p) PROVE FALSE
      <4>1. p # Main
        OBVIOUS
      <4> QED
        BY <3>1, <3>3, <4>1 DEF ThreadStep, LoadSocket, EnterCall, RecvOk, RecvFail, SendOk, SendFail,
           LeaveCall, HandleOpen, HandleOther, Finalize, MutexLock, FinTake, FinClear, FinClose, FinFree, Release
    <3>4. ASSUME NEW d \in Conns, HangUp(d) \/ Accept(d) \/ AcceptError PROVE FALSE
      BY <1>2, <3>2, <3>4 DEF HangUp, Accept, AcceptError
    <3>5. ASSUME Idle \/ UNCHANGED vars \/ AcceptError PROVE FALSE
      BY <1>2, <3>2, <3>5 DEF Idle, vars, AcceptError
    <3>6. ASSUME Finalize(Main) PROVE FALSE
      BY <3>2, <3>6 DEF Finalize, MutexLock, FinTake, FinClear, FinClose, FinFree, Release
    <3>7. ~StartThread
      <4>1. ASSUME StartThread PROVE pc'[Main] \in {"mark", "fin_lock"}
        BY <1>0, <4>1 DEF StartThread, Context
      <4> QED
        BY <4>1
    <3>8. ASSUME MainStep, ~Reconnect PROVE FALSE
      BY <3>2, <3>6, <3>7, <3>8 DEF MainStep, MutexLock, TakeFreeSlot, Choose, TakeSocket, Reserve, Reject,
         CloseCs, CloseOld, JoinOld, InitializeClient, ReleaseFailed, AssignSocket, MarkThread
    <3> QED
      BY <3>3, <3>4, <3>5, <3>8 DEF Next
  <2>2. PICK i \in Slots : /\ i \in SameClient /\ slot' = [slot EXCEPT ![Main] = i]
                           /\ pc' = [pc EXCEPT ![Main] = "take"] /\ pc[Main] = "select"
    BY <2>1 DEF Reconnect, Choose, First
  <2>3. PICK d \in Conns : Live(d) /\ slot[d] = i
    BY <2>2 DEF IndInv, SlotInv, Backed, SameClient, Reserved, FinalizeLabels
  <2> QED
    BY <1>0, <2>2, <2>3 DEF Context, Live
<1> QED
  BY <1>1, <1>2

-----------------------------------------------------------------------------
\* A step of the accept loop that changes no socket, file or thread.
LEMMA FdMain ==
    ASSUME Context, FdInv, NEW l, pc' = [pc EXCEPT ![Main] = l],
           UNCHANGED <<s, ro_file, sockets, files, io>>,
           \A c \in Conns : slot'[c] = slot[c] /\ reg'[c] = reg[c],
           l \in Holding => pc[Main] \in Holding /\ UNCHANGED <<cs, cur>>,
           l \in {"start", "fin_lock", "fin_take", "fin_clear"} =>
              pc[Main] \in {"start", "fin_lock", "fin_take", "fin_clear"} /\ cur' = cur,
           l \in {"assign", "start"} \cup FinalizeLabels =>
              pc[Main] \in {"assign", "start"} \cup FinalizeLabels /\ slot'[Main] = slot[Main],
           l = "fin_clear" => reg'[Main] = s[slot[Main]],
           l \notin {"fin_close", "take", "reserve", "close_old"}, pc[Main] # "join"
    PROVE  FdInv'
<1> USE IdAssumption DEF Context
<1>1. /\ \A c \in Conns : (Live(c)' <=> Live(c)) /\ pc'[c] = pc[c] /\ c # Main
      /\ pc'[Main] = l
  BY DEF Live
<1>2. (Disjoint /\ CsOpen /\ SlotSocket)'
  BY <1>1 DEF FdInv, Disjoint, CsOpen, SlotSocket, FinalizeLabels
<1>3. (Finalizing /\ Cleared)'
  BY <1>1 DEF FdInv, Finalizing, Cleared, Served, FinalizeLabels
<1>4. OldSocket'
  BY <1>1 DEF OldSocket
<1>5. SlotFile'
  BY <1>1 DEF FdInv, SlotFile
<1>6. Traffic'
  BY <1>1 DEF FdInv, Traffic
<1> QED
  BY <1>2, <1>3, <1>4, <1>5, <1>6 DEF FdInv

\* The steps between one accept() and the next.
LEMMA FdMainSteps ==
    ASSUME IndInv, FdInv, TakenFrom, MainStep
    PROVE  FdInv'
<1> USE IdAssumption
<1> USE DEF Goto, slotVars, kernelVars, netVars, procVars, mainVars
<1>0. Context /\ Main \in Procs
  BY ContextHolds DEF Context
<1>1. ASSUME NEW l, pc' = [pc EXCEPT ![Main] = l]
      PROVE  /\ \A c \in Conns : (Live(c)' <=> Live(c)) /\ pc'[c] = pc[c] /\ c # Main
             /\ pc'[Main] = l
  BY <1>0, <1>1 DEF Context, Live
<1>2. CASE \/ MutexLock(Main, "lock", "select") \/ MutexLock(Main, "fail_lock", "fail_release")
           \/ MutexLock(Main, "fin_lock", "fin_take") \/ MutexLock(Main, "rel_lock", "rel")
           \/ Reject \/ ReleaseFailed
  <2>1. PICK l : /\ pc' = [pc EXCEPT ![Main] = l]
                 /\ <<pc[Main], l>> \in {<<"lock", "select">>, <<"fail_lock", "fail_release">>,
                       <<"fin_lock", "fin_take">>, <<"rel_lock", "rel">>, <<"select", "close_cs">>,
                       <<"fail_release", "close_cs">>}
    BY <1>2 DEF MutexLock, Reject, ReleaseFailed
  <2>2. UNCHANGED <<s, ro_file, sockets, files, io, slot, reg, cs, cur>>
    BY <1>2 DEF MutexLock, Reject, ReleaseFailed
  <2> QED
    BY <1>0, <2>1, <2>2, FdMain DEF Holding, FinalizeLabels
<1>3. CASE FinTake(Main)
  <2>1. /\ pc' = [pc EXCEPT ![Main] = "fin_clear"] /\ pc[Main] = "fin_take"
        /\ reg' = [reg EXCEPT ![Main] = s[slot[Main]]]
        /\ UNCHANGED <<s, ro_file, sockets, files, io, slot, cs, cur>>
    BY <1>3 DEF FinTake
  <2>2. reg'[Main] = s[slot[Main]] /\ \A c \in Conns : reg'[c] = reg[c]
    BY <1>0, <2>1 DEF Context
  <2> QED
    BY <1>0, <2>1, <2>2, FdMain DEF Holding, FinalizeLabels
<1>4. CASE Release(Main) \/ MarkThread
  <2>1. /\ pc' = [pc EXCEPT ![Main] = "accept"] /\ pc[Main] \in {"rel", "mark"}
        /\ slot' = [slot EXCEPT ![Main] = 0]
        /\ UNCHANGED <<s, ro_file, sockets, files, io, reg>>
    BY <1>4 DEF Release, MarkThread, EndIteration
  <2>2. \A c \in Conns : slot'[c] = slot[c]
    BY <1>0, <2>1 DEF Context
  <2> QED
    BY <1>0, <2>1, <2>2, FdMain DEF Holding, FinalizeLabels
<1>5. CASE Reconnect \/ TakeFreeSlot
  <2>1. PICK i \in Slots, l \in {"take", "reserve"} :
        /\ pc' = [pc EXCEPT ![Main] = l] /\ pc[Main] = "select"
        /\ slot' = [slot EXCEPT ![Main] = i]
        /\ old_s' = IF l = "take" THEN s[i] ELSE NO_SOCKET
        /\ UNCHANGED <<s, ro_file, sockets, files, thread, io, reg, cs, cur>>
    BY <1>5 DEF Reconnect, TakeFreeSlot, Choose
  <2>2. slot'[Main] = i /\ \A c \in Conns : slot'[c] = slot[c]
    BY <1>0, <2>1 DEF Context
  <2>3. (Disjoint /\ CsOpen /\ SlotSocket)'
    BY <1>1, <2>1, <2>2 DEF FdInv, Disjoint, CsOpen, SlotSocket, Holding
  <2>4. (Finalizing /\ Cleared)'
    BY <1>0, <1>1, <2>1, <2>2 DEF Context, FdInv, Finalizing, Cleared, Served
  <2>5. OldSocket'
    BY <1>1, <2>1, <2>2 DEF OldSocket
  <2>6. SlotFile'
    BY <1>1, <2>1, <2>2 DEF FdInv, SlotFile, FinalizeLabels
  <2>7. Traffic'
    BY <1>1, <2>1, <2>2 DEF FdInv, Traffic
  <2> QED
    BY <2>3, <2>4, <2>5, <2>6, <2>7 DEF FdInv
<1>6. CASE TakeSocket
  <2>1. /\ pc' = [pc EXCEPT ![Main] = "reserve"] /\ pc[Main] = "take"
        /\ s' = [s EXCEPT ![slot[Main]] = NO_SOCKET]
        /\ UNCHANGED <<ro_file, sockets, files, thread, io, reg, slot, cs, cur, old_s>>
    BY <1>6 DEF TakeSocket
  <2>2. PICK c \in Conns : Live(c) /\ slot[c] = slot[Main]
    BY <2>1 DEF TakenFrom
  <2>3. \A d \in Conns : d # c /\ Live(d) => slot[d] # slot[Main]
    BY <1>0, <2>2 DEF Context
  <2>4. old_s = s[slot[c]] /\ (old_s # NO_SOCKET => sockets[old_s] = c) /\ thread[slot[Main]] = c
    BY <1>0, <2>1, <2>2 DEF Context, FdInv, OldSocket, SlotSocket
  <2>5. pc[c] # "fin_clear" /\ (pc[c] = "fin_close" => old_s = NO_SOCKET)
    BY <1>0, <1>1, <2>1, <2>2, <2>4 DEF Context, Critical, FdInv, Cleared
  <2>6. (Disjoint /\ CsOpen)'
    BY <1>1, <2>1 DEF FdInv, Disjoint, CsOpen, Holding
  <2>7. (SlotSocket /\ Cleared)'
    BY <1>0, <1>1, <2>1, <2>2, <2>3 DEF Context, FdInv, SlotSocket, Cleared
  <2>8. Finalizing'
    <3>1. \A p \in Procs : pc[p] # "fin_clear"
      BY <1>0, <2>1 DEF Context, Critical
    <3> QED
      BY <1>0, <1>1, <2>1, <3>1 DEF Context, FdInv, Finalizing, Served
  <2>9. OldSocket'
    BY <1>0, <1>1, <2>1, <2>2, <2>4, <2>5 DEF Context, OldSocket, Live
  <2>10. SlotFile'
    BY <1>1, <2>1 DEF FdInv, SlotFile, FinalizeLabels
  <2>11. Traffic'
    BY <1>1, <2>1 DEF FdInv, Traffic
  <2> QED
    BY <2>6, <2>7, <2>8, <2>9, <2>10, <2>11 DEF FdInv
<1>7. CASE Reserve
  <2>1. /\ pc' = [pc EXCEPT ![Main] = "close_old"] /\ pc[Main] = "reserve"
        /\ old_thread' = thread[slot[Main]]
        /\ UNCHANGED <<s, ro_file, sockets, files, thread, io, reg, slot, cs, cur, old_s>>
    BY <1>7 DEF Reserve
  <2>2. (Disjoint /\ CsOpen /\ SlotSocket)'
    BY <1>1, <2>1 DEF FdInv, Disjoint, CsOpen, SlotSocket, Holding
  <2>3. (Finalizing /\ Cleared)'
    BY <1>0, <1>1, <2>1 DEF Context, FdInv, Finalizing, Cleared, Served
  <2>4. OldSocket'
    BY <1>0, <1>1, <2>1 DEF Context, FdInv, OldSocket
  <2>5. (SlotFile /\ Traffic)'
    BY <1>1, <2>1 DEF FdInv, SlotFile, FinalizeLabels, Traffic
  <2> QED
    BY <2>2, <2>3, <2>4, <2>5 DEF FdInv
<1>8. CASE CloseOld
  <2>1. /\ pc' = [pc EXCEPT ![Main] = "join"] /\ pc[Main] = "close_old"
        /\ UNCHANGED <<s, ro_file, thread, io, reg, slot, cs, cur, old_s>>
    BY <1>8 DEF CloseOld
  <2>2. /\ \A fd \in FD : sockets'[fd] = IF fd = old_s THEN Nobody ELSE sockets[fd]
        /\ files' = files
    BY <1>0, <1>8, <2>1 DEF CloseOld, ShutdownAndClose, CloseFd, Context, FdInv, Disjoint, OldSocket
  <2>3. old_s # NO_SOCKET =>
           /\ sockets[old_s] = old_thread /\ old_thread \in Conns /\ pc[old_thread] # "none"
           /\ Live(old_thread) =>
                 /\ slot[old_thread] = slot[Main] /\ s[slot[old_thread]] = NO_SOCKET
                 /\ pc[old_thread] \in {"fin_clear", "fin_close"} => reg[old_thread] = NO_SOCKET
    BY <2>1 DEF FdInv, OldSocket
  <2>5. (Disjoint /\ CsOpen)'
    BY <1>0, <1>1, <2>1, <2>2, <2>3 DEF Context, FdInv, Disjoint, CsOpen, Holding
  <2>6. SlotSocket'
    <3>1. ASSUME NEW c \in Conns, Live(c), s[slot[c]] # NO_SOCKET PROVE sockets'[s[slot[c]]] = c
      <4>1. s[slot[c]] \in FD /\ sockets[s[slot[c]]] = c
        BY <1>0, <3>1 DEF Context, FdInv, SlotSocket
      <4>2. s[slot[c]] # old_s
        BY <2>3, <3>1, <4>1
      <4> QED
        BY <2>2, <4>1, <4>2
    <3> QED
      BY <1>1, <2>1, <3>1 DEF SlotSocket
  <2>7. (Finalizing /\ Cleared)'
    <3>1. \A p \in Procs : pc'[p] = "fin_close" => p \in Conns /\ pc[p] = "fin_close" /\ Live(p)
      BY <1>0, <1>1, <2>1 DEF Context, Live
    <3>2. \A p \in Procs : pc'[p] = "fin_clear" => p \in Conns /\ pc[p] = "fin_clear"
      BY <1>0, <1>1, <2>1 DEF Context
    <3> QED
      BY <1>0, <1>1, <2>1, <2>2, <2>3, <3>1, <3>2 DEF Context, FdInv, Finalizing, Cleared, Served
  <2>8. (OldSocket /\ SlotFile)'
    BY <1>0, <1>1, <2>1, <2>2, ZenonT(60) DEF FdInv, OldSocket, SlotFile, FinalizeLabels
  <2>9. Traffic'
    BY <1>0, <1>1, <2>1, <2>2, <2>3 DEF Context, FdInv, Traffic, Live
  <2> QED
    BY <2>5, <2>6, <2>7, <2>8, <2>9 DEF FdInv
<1>9. CASE JoinOld
  <2>1. /\ pc' = [pc EXCEPT ![Main] = "init"] /\ pc[Main] = "join"
        /\ UNCHANGED <<s, ro_file, sockets, files, thread, io, reg, slot, cs, cur, old_s>>
    BY <1>9 DEF JoinOld
  <2>2. \A c \in Conns : Live(c) => slot[c] # slot[Main]
    BY <1>9 DEF JoinOld, IndInv, SlotInv, Joinable, Live
  <2>3. (Disjoint /\ CsOpen /\ SlotSocket)'
    BY <1>1, <2>1 DEF FdInv, Disjoint, CsOpen, SlotSocket, Holding
  <2>4. (Finalizing /\ Cleared)'
    BY <1>0, <1>1, <2>1 DEF Context, FdInv, Finalizing, Cleared, Served
  <2>5. (OldSocket /\ SlotFile)'
    BY <1>1, <2>1 DEF FdInv, OldSocket, SlotFile, FinalizeLabels
  <2>6. Traffic'
    BY <1>1, <2>1, <2>2 DEF FdInv, Traffic, Live
  <2> QED
    BY <2>3, <2>4, <2>5, <2>6 DEF FdInv
<1>10. CASE CloseCs
  <2>1. /\ pc' = [pc EXCEPT ![Main] = "accept"] /\ pc[Main] = "close_cs"
        /\ slot' = [slot EXCEPT ![Main] = 0]
        /\ UNCHANGED <<s, ro_file, thread, io, reg>>
    BY <1>10 DEF CloseCs, EndIteration
  <2>2. cs \in FD /\ sockets[cs] = cur /\ cur \in Conns /\ pc[cur] = "none"
    BY <1>0, <2>1 DEF Context, FdInv, CsOpen, Holding
  <2>3. /\ \A fd \in FD : sockets'[fd] = IF fd = cs THEN Nobody ELSE sockets[fd]
        /\ files' = files
    BY <1>0, <1>10, <2>2 DEF CloseCs, CloseFd, Context, FdInv, Disjoint
  <2>4. \A c \in Conns : slot'[c] = slot[c]
    BY <1>0, <2>1 DEF Context
  <2>5. (Disjoint /\ CsOpen)'
    BY <1>1, <2>1, <2>3 DEF FdInv, Disjoint, CsOpen, Holding
  <2>6. SlotSocket'
    BY <1>0, <1>1, <2>1, <2>2, <2>3, <2>4 DEF Context, FdInv, SlotSocket, Live
  <2>7. (Finalizing /\ Cleared)'
    <3>1. \A p \in Procs : pc'[p] \in {"fin_clear", "fin_close"} => p \in Conns /\ pc[p] = pc'[p]
      BY <1>0, <1>1, <2>1 DEF Context
    <3> QED
      BY <1>0, <1>1, <2>1, <2>2, <2>3, <2>4, <3>1 DEF Context, FdInv, Finalizing, Cleared, Served
  <2>8. (OldSocket /\ SlotFile)'
    BY <1>1, <2>1, <2>3, <2>4 DEF FdInv, OldSocket, SlotFile, FinalizeLabels
  <2>9. Traffic'
    BY <1>0, <1>1, <2>1, <2>2, <2>3, <2>4 DEF Context, FdInv, Traffic
  <2> QED
    BY <2>5, <2>6, <2>7, <2>8, <2>9 DEF FdInv
<1>11. CASE InitializeClient
  <2>1. PICK l \in {"assign", "fail_lock"} :
        /\ pc' = [pc EXCEPT ![Main] = l] /\ pc[Main] = "init"
        /\ s' = [s EXCEPT ![slot[Main]] = NO_SOCKET]
        /\ ro_file' = [ro_file EXCEPT ![slot[Main]] = NoFile]
        /\ UNCHANGED <<sockets, files, io, reg, slot, cs, cur, old_s>>
    BY <1>11 DEF InitializeClient
  <2>2. \A c \in Conns : Live(c) => slot[c] # slot[Main]
    BY <1>0, <2>1 DEF Context, Emptied
  <2>3. (Disjoint /\ CsOpen)'
    BY <1>1, <2>1 DEF FdInv, Disjoint, CsOpen, Holding
  <2>4. (SlotSocket /\ Cleared)'
    BY <1>0, <1>1, <2>1, <2>2 DEF Context, FdInv, SlotSocket, Cleared
  <2>5. Finalizing'
    <3>1. \A p \in Procs : pc'[p] \in {"fin_clear", "fin_close"} =>
             p \in Conns /\ pc[p] = pc'[p] /\ Live(p)
      BY <1>0, <1>1, <2>1 DEF Context, Live
    <3> QED
      BY <1>0, <2>1, <2>2, <3>1 DEF Context, FdInv, Finalizing, Served
  <2>6. OldSocket'
    BY <1>1, <2>1 DEF OldSocket
  <2>7. SlotFile'
    BY <1>0, <1>1, <2>1, <2>2 DEF Context, FdInv, SlotFile
  <2>8. Traffic'
    BY <1>1, <2>1 DEF FdInv, Traffic
  <2> QED
    BY <2>3, <2>4, <2>5, <2>6, <2>7, <2>8 DEF FdInv
<1>12. CASE AssignSocket
  <2>1. /\ pc' = [pc EXCEPT ![Main] = "start"] /\ pc[Main] = "assign"
        /\ s' = [s EXCEPT ![slot[Main]] = cs]
        /\ UNCHANGED <<ro_file, sockets, files, io, reg, slot, cs, cur, old_s>>
    BY <1>12 DEF AssignSocket
  <2>2. /\ \A c \in Conns : Live(c) => slot[c] # slot[Main]
        /\ cs \in FD /\ sockets[cs] = cur
    BY <1>0, <2>1 DEF Context, Emptied, FdInv, CsOpen, Holding
  <2>3. (Disjoint /\ CsOpen)'
    BY <1>1, <2>1 DEF FdInv, Disjoint, CsOpen, Holding
  <2>4. (SlotSocket /\ Cleared)'
    <3>1. s'[slot[Main]] = cs /\ \A c \in Conns : Live(c) => s'[slot[c]] = s[slot[c]]
      BY <1>0, <2>1, <2>2 DEF Context
    <3> QED
      BY <1>0, <1>1, <2>1, <2>2, <3>1 DEF Context, FdInv, SlotSocket, Cleared, Live
  <2>5. Finalizing'
    <3>1. \A p \in Procs : pc'[p] \in {"fin_clear", "fin_close"} =>
             p \in Conns /\ pc[p] = pc'[p] /\ Live(p)
      BY <1>0, <1>1, <2>1 DEF Context, Live
    <3> QED
      BY <1>0, <2>1, <2>2, <3>1 DEF Context, FdInv, Finalizing, Served
  <2>6. OldSocket'
    BY <1>1, <2>1 DEF OldSocket
  <2>7. (SlotFile /\ Traffic)'
    BY <1>1, <2>1 DEF FdInv, SlotFile, Traffic
  <2> QED
    BY <2>3, <2>4, <2>5, <2>6, <2>7 DEF FdInv
<1>13. CASE StartThread
  <2>1. /\ pc[Main] = "start" /\ cur \in Conns /\ pc[cur] = "none" /\ cur # Main
        /\ UNCHANGED <<s, ro_file, sockets, files, io, reg, cs, cur, old_s>>
    BY <1>0, <1>13 DEF StartThread, Context
  <2>2. CASE pc' = [pc EXCEPT ![Main] = "fin_lock"] /\ UNCHANGED slot
    BY <1>0, <2>1, <2>2, FdMain DEF Holding, FinalizeLabels
  <2>3. CASE /\ pc' = [pc EXCEPT ![Main] = "mark", ![cur] = "load_cmd"]
             /\ slot' = [slot EXCEPT ![cur] = slot[Main]]
    <3>1. /\ pc'[Main] = "mark" /\ pc'[cur] = "load_cmd" /\ slot'[cur] = slot[Main]
          /\ \A c \in Conns : c # cur => pc'[c] = pc[c] /\ slot'[c] = slot[c]
      BY <1>0, <2>1, <2>3 DEF Context
    <3>2. \A c \in Conns : Live(c)' => c = cur \/ Live(c)
      BY <3>1 DEF Live
    <3>3. \A c \in Conns : Live(c) => slot[c] # slot[Main]
      BY <1>0, <2>1 DEF Context, Emptied
    <3>4. (Disjoint /\ CsOpen)'
      BY <2>1, <3>1 DEF FdInv, Disjoint, CsOpen, Holding
    <3>5. (SlotSocket /\ Cleared)'
      BY <2>1, <3>1, <3>2 DEF FdInv, SlotSocket, Cleared
    <3>6. Finalizing'
      <4>1. \A p \in Procs : pc'[p] \in {"fin_clear", "fin_close"} =>
               p \in Conns /\ p # cur /\ pc[p] = pc'[p]
        BY <1>0, <3>1 DEF Context
      <4> QED
        BY <1>0, <2>1, <3>1, <4>1 DEF Context, FdInv, Finalizing, Served
    <3>7. OldSocket'
      BY <3>1 DEF OldSocket
    <3>8. SlotFile'
      BY <2>1, <3>1, <3>2 DEF FdInv, SlotFile, FinalizeLabels
    <3>9. Traffic'
      BY <2>1, <3>1 DEF FdInv, Traffic
    <3> QED
      BY <3>4, <3>5, <3>6, <3>7, <3>8, <3>9 DEF FdInv
  <2> QED
    BY <1>13, <2>2, <2>3 DEF StartThread
<1>14. CASE FinClear(Main)
  <2>1. /\ pc' = [pc EXCEPT ![Main] = "fin_close"] /\ pc[Main] = "fin_clear"
        /\ s' = [s EXCEPT ![slot[Main]] = NO_SOCKET]
        /\ UNCHANGED <<ro_file, sockets, files, io, reg, slot, cs, cur, old_s>>
    BY <1>14 DEF FinClear
  <2>2. \A c \in Conns : Live(c) => slot[c] # slot[Main]
    BY <1>0, <2>1 DEF Context, Emptied, FinalizeLabels
  <2>3. reg[Main] = s[slot[Main]] /\ (reg[Main] # NO_SOCKET => sockets[reg[Main]] = cur)
    BY <1>0, <2>1 DEF FdInv, Finalizing, SlotSocket
  <2>4. (Disjoint /\ CsOpen)'
    BY <1>1, <2>1 DEF FdInv, Disjoint, CsOpen, Holding
  <2>5. (SlotSocket /\ Cleared)'
    BY <1>0, <1>1, <2>1, <2>2 DEF Context, FdInv, SlotSocket, Cleared
  <2>6. Finalizing'
    <3>1. \A p \in Procs : pc'[p] \in {"fin_clear", "fin_close"} =>
             p = Main \/ (p \in Conns /\ pc[p] = pc'[p] /\ Live(p))
      BY <1>0, <1>1, <2>1 DEF Context, Live
    <3> QED
      BY <1>0, <1>1, <2>1, <2>2, <2>3, <3>1 DEF Context, FdInv, Finalizing, Served
  <2>7. OldSocket'
    BY <1>1, <2>1 DEF OldSocket
  <2>8. (SlotFile /\ Traffic)'
    BY <1>1, <2>1 DEF FdInv, SlotFile, Traffic, FinalizeLabels
  <2> QED
    BY <2>4, <2>5, <2>6, <2>7, <2>8 DEF FdInv
<1>15. CASE FinClose(Main)
  <2>1. /\ pc' = [pc EXCEPT ![Main] = "fin_free"] /\ pc[Main] = "fin_close"
        /\ reg' = [reg EXCEPT ![Main] = NO_SOCKET]
        /\ UNCHANGED <<s, ro_file, thread, io, slot, cs, cur, old_s>>
    BY <1>15 DEF FinClose
  <2>2. /\ reg[Main] # NO_SOCKET => sockets[reg[Main]] = cur /\ reg[Main] \in FD
        /\ cur \in Conns /\ pc[cur] = "none"
    BY <1>0, <2>1 DEF Context, FdInv, Finalizing, Served
  <2>3. /\ \A fd \in FD : sockets'[fd] = IF fd = reg[Main] THEN Nobody ELSE sockets[fd]
        /\ files' = files
    BY <1>0, <1>15, <2>2 DEF FinClose, ShutdownAndClose, CloseFd, Context, FdInv, Disjoint
  <2>4. \A c \in Conns : reg'[c] = reg[c]
    BY <1>0, <2>1 DEF Context
  <2>5. (Disjoint /\ CsOpen)'
    BY <1>1, <2>1, <2>3 DEF FdInv, Disjoint, CsOpen, Holding
  <2>6. SlotSocket'
    BY <1>0, <1>1, <2>1, <2>2, <2>3 DEF Context, FdInv, SlotSocket, Live
  <2>7. (Finalizing /\ Cleared)'
    <3>1. \A p \in Procs : pc'[p] \in {"fin_clear", "fin_close"} => p \in Conns /\ pc[p] = pc'[p]
      BY <1>0, <1>1, <2>1 DEF Context
    <3> QED
      BY <1>0, <1>1, <2>1, <2>2, <2>3, <2>4, <3>1 DEF Context, FdInv, Finalizing, Cleared, Served
  <2>8. OldSocket'
    BY <1>1, <2>1 DEF OldSocket
  <2>10. SlotFile'
    BY <1>1, <2>1, <2>3 DEF FdInv, SlotFile, FinalizeLabels
  <2>9. Traffic'
    BY <1>0, <1>1, <2>1, <2>2, <2>3, <2>4 DEF Context, FdInv, Traffic
  <2> QED
    BY <2>5, <2>6, <2>7, <2>8, <2>10, <2>9 DEF FdInv
<1>16. CASE FinFree(Main)
  <2>1. /\ pc' = [pc EXCEPT ![Main] = "rel_lock"] /\ pc[Main] = "fin_free"
        /\ ro_file' = [ro_file EXCEPT ![slot[Main]] = NoFile]
        /\ UNCHANGED <<s, io, reg, slot, cs, cur>>
    BY <1>16 DEF FinFree
  <2>2. ro_file[slot[Main]] = NoFile
    BY <2>1 DEF FdInv, SlotFile, FinalizeLabels
  <2>3. ro_file' = ro_file /\ UNCHANGED <<sockets, files>>
    BY <1>0, <1>16, <2>1, <2>2 DEF FinFree, CloseFd, Context
  <2> QED
    BY <1>0, <2>1, <2>3, FdMain DEF Holding, FinalizeLabels
<1>17. CASE Finalize(Main)
  BY <1>2, <1>3, <1>4, <1>14, <1>15, <1>16, <1>17 DEF Finalize
<1> QED
  BY <1>2, <1>4, <1>5, <1>6, <1>7, <1>8, <1>9, <1>10, <1>11, <1>12, <1>13, <1>17 DEF MainStep

\* Every step preserves the descriptor invariant.
LEMMA FdStep == IndInv /\ TakenFrom /\ FdInv /\ [Next]_vars => FdInv'
<1> SUFFICES ASSUME IndInv, TakenFrom, FdInv, [Next]_vars PROVE FdInv'
  OBVIOUS
<1> USE IdAssumption
<1> USE DEF Goto, slotVars, kernelVars, netVars, procVars, mainVars
<1>0. Context
  BY ContextHolds
<1>1. CASE UNCHANGED <<pc, s, ro_file, thread, sockets, files, slot, reg, io, cs, cur, old_s, old_thread>>
  <2>1. \A c \in Conns : Live(c)' <=> Live(c)
    BY <1>1 DEF Live
  <2> QED
    BY <1>1, <2>1 DEF FdInv, Disjoint, CsOpen, SlotSocket, Finalizing, Cleared, OldSocket, SlotFile,
       Traffic, Served
<1>2. ASSUME NEW c \in Conns, ThreadStep(c) \/ RecvOk(c) \/ SendOk(c) PROVE FdInv'
  BY <1>0, <1>2, FdThreadSteps
<1>3. CASE MainStep
  BY <1>3, FdMainSteps
<1>4. CASE AcceptError
  <2>1. /\ pc' = [pc EXCEPT ![Main] = "exited"] /\ pc[Main] = "accept"
        /\ UNCHANGED <<s, ro_file, sockets, files, io, slot, reg>>
    BY <1>4 DEF AcceptError
  <2> QED
    BY <1>0, <2>1, FdMain DEF Holding, FinalizeLabels
<1>5. ASSUME NEW d \in Conns, Accept(d) PROVE FdInv'
  <2>1. /\ pc' = [pc EXCEPT ![Main] = "lock"] /\ pc[Main] = "accept" /\ cur' = d
        /\ UNCHANGED <<s, ro_file, files, io, slot, reg, old_s>>
    BY <1>5 DEF Accept
  <2>2. PICK fd \in FD : /\ sockets[fd] = Nobody /\ files[fd] = Nobody /\ cs' = fd
                         /\ sockets' = [sockets EXCEPT ![fd] = d]
    BY <1>5 DEF Accept, FreeFd
  <2>3. \A g \in FD : sockets'[g] = IF g = fd THEN d ELSE sockets[g]
    BY <1>0, <2>2 DEF Context
  <2>4. \A g \in FD, c \in Conns : sockets[g] = c => sockets'[g] = c
    BY <2>2, <2>3
  <2>5. /\ \A c \in Conns : (Live(c)' <=> Live(c)) /\ pc'[c] = pc[c] /\ c # Main
        /\ pc'[Main] = "lock"
    BY <1>0, <2>1 DEF Context, Live
  <2>6. (Disjoint /\ CsOpen)'
    BY <2>1, <2>2, <2>3, <2>5 DEF FdInv, Disjoint, CsOpen
  <2>7. (SlotSocket /\ Cleared)'
    BY <1>0, <2>1, <2>4, <2>5 DEF Context, FdInv, SlotSocket, Cleared
  <2>8. Finalizing'
    <3>1. \A p \in Procs : pc'[p] \in {"fin_clear", "fin_close"} => p \in Conns /\ pc[p] = pc'[p]
      BY <1>0, <2>5 DEF Context
    <3> QED
      BY <1>0, <2>1, <2>4, <3>1 DEF Context, FdInv, Finalizing, Served
  <2>9. OldSocket'
    BY <2>5 DEF OldSocket
  <2>10. SlotFile'
    BY <2>1, <2>5 DEF FdInv, SlotFile, FinalizeLabels
  <2>11. Traffic'
    BY <1>0, <2>1, <2>4, <2>5 DEF Context, FdInv, Traffic
  <2> QED
    BY <2>6, <2>7, <2>8, <2>9, <2>10, <2>11 DEF FdInv
<1>6. ASSUME NEW d \in Conns, HangUp(d) PROVE FdInv'
  BY <1>1, <1>6 DEF HangUp
<1>7. CASE Idle \/ UNCHANGED vars
  BY <1>1, <1>7 DEF Idle, vars
<1> QED
  BY <1>2, <1>3, <1>4, <1>5, <1>6, <1>7 DEF Next

LEMMA FdInvAlways == Spec => [](IndInv /\ TakenFrom /\ FdInv)
<1>1. Init => TakenFrom /\ FdInv
  BY FdInit DEF Init, TakenFrom, Procs
<1>2. IndInv /\ TakenFrom /\ FdInv /\ [Next]_vars => (TakenFrom /\ FdInv)'
  BY FdStep, TakenStep
<1> QED
  BY <1>1, <1>2, IndInvAlways, PTL DEF Spec

\* No thread closes a descriptor number that stands for anything but the
\* socket or the file it means: what finalize_client() promises of its close.
THEOREM NumbersAreClosedByTheirOwners == Spec => []ClosesOnlyItsOwn
<1>1. IndInv /\ FdInv => ClosesOnlyItsOwn
  <2> SUFFICES ASSUME IndInv, FdInv PROVE ClosesOnlyItsOwn
    OBVIOUS
  <2> USE IdAssumption
  <2>1. Context
    BY ContextHolds
  <2>2. pc[Main] = "close_old" /\ old_s # NO_SOCKET => sockets[old_s] = old_thread
    BY DEF FdInv, OldSocket
  <2>3. pc[Main] = "close_cs" => sockets[cs] = cur
    BY DEF FdInv, CsOpen, Holding
  <2>4. ASSUME NEW p \in Procs, pc[p] = "fin_close", reg[p] # NO_SOCKET PROVE sockets[reg[p]] = Served(p)
    BY <2>4 DEF FdInv, Finalizing
  <2>5. ASSUME NEW p \in Procs, pc[p] = "fin_free", ro_file[slot[p]] # NoFile
        PROVE  files[ro_file[slot[p]]] = Served(p)
    BY <2>1, <2>5 DEF Context, FdInv, SlotFile, Served, Live, FinalizeLabels
  <2> QED
    BY <2>2, <2>3, <2>4, <2>5 DEF ClosesOnlyItsOwn
<1> QED
  BY <1>1, FdInvAlways, PTL

\* The unlocked reads of client->s in client_thread() and the handlers never
\* make a thread receive from or send to another console's connection.
THEOREM ThreadsTalkToTheirOwnConsole == Spec => []NoForeignTraffic
<1>1. FdInv => NoForeignTraffic
  BY DEF FdInv, Traffic, NoForeignTraffic, Reached
<1> QED
  BY <1>1, FdInvAlways, PTL

-----------------------------------------------------------------------------
(* Threads, buffers and descriptors: what is acquired is given back once *)

\* A thread that has not yet freed what its slot refers to.
Freed == {"rel_lock", "rel", "done"}
Uses(c) == Live(c) /\ pc[c] \notin {"rel_lock", "rel"}

\* What no step of a client thread changes, or only the one that frees.
LEMMA ThreadFrame ==
    ASSUME Context, NEW c \in Conns, ThreadStep(c) \/ RecvOk(c) \/ SendOk(c)
    PROVE  /\ UNCHANGED <<slot, ip_addr, has_thread, thread, unjoined, mainVars>>
           /\ Live(c) /\ pc'[c] # "none" /\ c # Main
           /\ \A p \in Procs : p # c => pc'[p] = pc[p]
           /\ FinFree(c) \/ (UNCHANGED <<buf, heap>> /\ (Uses(c)' <=> Uses(c)))
<1> USE IdAssumption DEF Goto, slotVars, kernelVars, netVars, procVars, mainVars, Context
<1>0. c \in Procs /\ c # Main
  OBVIOUS
<1> DEFINE Frame == /\ UNCHANGED <<slot, ip_addr, has_thread, thread, unjoined, mainVars>>
                    /\ Live(c)
                    /\ \E l : /\ pc' = [pc EXCEPT ![c] = l] /\ l # "none"
                             /\ \/ FinFree(c)
                                \/ UNCHANGED <<buf, heap>> /\ (l \in Freed <=> pc[c] \in Freed)
<1>1. ASSUME NEW from \in {"load_cmd", "load_reply"}, NEW to \in {"recv", "send"},
             LoadSocket(c, from, to) PROVE Frame
  BY <1>1 DEF LoadSocket, Live, Freed
<1>2. ASSUME NEW from \in {"recv", "send"}, NEW to \in {"in_recv", "in_send"},
             EnterCall(c, from, to) PROVE Frame
  <2>1. PICK l \in {"in_recv", "in_send", "fin_lock"} : pc' = [pc EXCEPT ![c] = l]
    BY <1>2 DEF EnterCall
  <2> QED
    BY <1>2, <2>1 DEF EnterCall, Live, Freed
<1>3. ASSUME NEW from \in {"in_recv", "in_send"}, NEW to \in {"handle", "load_cmd", "fin_lock"},
             LeaveCall(c, from, to) PROVE Frame
  BY <1>3 DEF LeaveCall, Live, Freed
<1>4. ASSUME HandleOpen(c) \/ HandleOther(c) PROVE Frame
  BY <1>4 DEF HandleOpen, HandleOther, Live, Freed
<1>5. ASSUME Finalize(c) PROVE Frame
  <2>1. CASE MutexLock(c, "fin_lock", "fin_take") \/ MutexLock(c, "rel_lock", "rel")
    BY <2>1 DEF MutexLock, Live, Freed
  <2>2. CASE FinTake(c) \/ FinClear(c)
    BY <2>2 DEF FinTake, FinClear, Live, Freed
  <2>3. CASE FinClose(c) \/ FinFree(c)
    BY <2>3 DEF FinClose, FinFree, ShutdownAndClose, Live, Freed
  <2>4. CASE Release(c)
    BY <1>0, <2>4 DEF Release, Live, Freed
  <2> QED
    BY <1>5, <2>1, <2>2, <2>3, <2>4 DEF Finalize
<1>6. Frame
  BY <1>1, <1>2, <1>3, <1>4, <1>5 DEF ThreadStep, RecvOk, SendOk, RecvFail, SendFail
<1> QED
  BY <1>0, <1>6 DEF Live, Uses, Freed

\* What a step of the accept loop does to the other threads: nothing, unless
\* it starts one.
LEMMA MainFrame ==
    ASSUME Context, MainStep
    PROVE  /\ \A c \in Conns : pc'[c] = pc[c] \/ (pc[Main] = "start" /\ c = cur /\ pc'[c] = "load_cmd")
           /\ pc[Main] # "start" => \A c \in Conns : slot'[c] = slot[c] /\ (Live(c)' <=> Live(c))
           /\ UNCHANGED io
<1> USE IdAssumption DEF Goto, slotVars, kernelVars, netVars, procVars, mainVars, Context
<1> DEFINE Moves == /\ \E l : pc' = [pc EXCEPT ![Main] = l]
                    /\ \E i : slot' = [slot EXCEPT ![Main] = i] \/ slot' = slot
                    /\ UNCHANGED io
<1>1. CASE \/ MutexLock(Main, "lock", "select") \/ MutexLock(Main, "fail_lock", "fail_release")
           \/ Reconnect \/ TakeSocket \/ TakeFreeSlot \/ Reject \/ Reserve
  <2>1. Moves
    BY <1>1 DEF MutexLock, Reconnect, TakeSocket, TakeFreeSlot, Reject, Reserve, Choose
  <2> QED
    BY <2>1 DEF Live
<1>2. CASE CloseCs \/ CloseOld \/ JoinOld \/ InitializeClient \/ ReleaseFailed \/ AssignSocket \/ MarkThread
  <2>1. Moves
    BY <1>2 DEF CloseCs, CloseOld, JoinOld, InitializeClient, ReleaseFailed, AssignSocket, MarkThread,
       EndIteration
  <2> QED
    BY <2>1 DEF Live
<1>3. CASE Finalize(Main)
  <2>1. Moves
    BY <1>3 DEF Finalize, MutexLock, FinTake, FinClear, FinClose, FinFree, Release, EndIteration
  <2> QED
    BY <2>1 DEF Live
<1>4. CASE StartThread
  BY <1>4 DEF StartThread
<1> QED
  BY <1>1, <1>2, <1>3, <1>4 DEF MainStep
-----------------------------------------------------------------------------
(* Threads *)

Seated == {"close_old", "join", "init", "assign", "start", "mark"}

\* A handle in the table is that of a thread that is still to be joined, one
\* in the accept loop's hands is no longer in the table, and the handle of the
\* chosen slot has been taken out of it.
JoinInv ==
    /\ \A i \in Slots : has_thread[i] => thread[i] \in unjoined
    /\ \A c \in unjoined : pc[c] # "none"
    /\ pc[Main] \in Seated => ~has_thread[slot[Main]]
    /\ pc[Main] \in {"close_old", "join"} /\ join_old =>
          \A i \in Slots : ~(has_thread[i] /\ thread[i] = old_thread)
    /\ pc[Main] = "mark" => /\ cur \in unjoined /\ thread[slot[Main]] = cur
                            /\ \A i \in Slots : ~(has_thread[i] /\ thread[i] = cur)
    /\ EveryThreadJoinedOnce

\* A step that changes no handle and does not lead the accept loop to or from
\* the labels that JoinInv speaks of.
LEMMA JoinQuiet ==
    ASSUME JoinInv, UNCHANGED <<has_thread, thread, unjoined>>,
           \A c \in unjoined : pc[c] # "none" => pc'[c] # "none",
           \/ UNCHANGED <<pc[Main], slot[Main], cur, join_old, old_thread>>
           \/ pc[Main] \notin {"close_old", "join", "mark"} /\ pc'[Main] \notin Seated
           \/ /\ pc[Main] \in Seated \ {"close_old", "join", "mark"}
              /\ pc'[Main] \in Seated \ {"close_old", "join", "mark"} /\ slot'[Main] = slot[Main]
           \/ /\ pc[Main] \in {"close_old", "join"} /\ pc'[Main] \in {"close_old", "join"}
              /\ UNCHANGED <<slot[Main], join_old, old_thread>>
    PROVE  JoinInv'
BY DEF JoinInv, EveryThreadJoinedOnce, Seated

LEMMA JoinStep == IndInv /\ JoinInv /\ [Next]_vars => JoinInv'
<1> SUFFICES ASSUME IndInv, JoinInv, [Next]_vars PROVE JoinInv'
  OBVIOUS
<1> USE IdAssumption
<1> USE DEF Goto, slotVars, kernelVars, netVars, procVars, mainVars
<1>0. /\ Context /\ unjoined \subseteq Conns
      /\ has_thread \in [Slots -> BOOLEAN] /\ thread \in [Slots -> Conns \cup {Nobody}]
      /\ pc[Main] \notin {"accept", "exited"} => cur \in Conns
  BY ContextHolds DEF Context, IndInv, Typed, TypeOK
<1>1. ASSUME NEW c \in Conns, ThreadStep(c) \/ RecvOk(c) \/ SendOk(c) PROVE JoinInv'
  <2>1. /\ UNCHANGED <<slot, has_thread, thread, unjoined, cur, join_old, old_thread>>
        /\ pc'[c] # "none" /\ \A p \in Procs : p # c => pc'[p] = pc[p]
        /\ pc'[Main] = pc[Main]
    BY <1>0, <1>1, ThreadFrame DEF Context
  <2>2. \A d \in unjoined : pc[d] # "none" => pc'[d] # "none"
    BY <1>0, <2>1 DEF Context
  <2> QED
    BY <2>1, <2>2, JoinQuiet
<1>2. ASSUME MainStep, pc[Main] # "start" PROVE \A c \in unjoined : pc'[c] = pc[c]
  BY <1>0, <1>2, MainFrame
<1>3. CASE \/ MutexLock(Main, "lock", "select") \/ MutexLock(Main, "fail_lock", "fail_release")
           \/ Reconnect \/ TakeSocket \/ TakeFreeSlot \/ Reject \/ ReleaseFailed \/ CloseCs
  <2>1. /\ UNCHANGED <<has_thread, thread, unjoined>>
        /\ pc[Main] \notin Seated
        /\ pc'[Main] \notin Seated
    BY <1>0, <1>3 DEF Context, MutexLock, Reconnect, TakeSocket, TakeFreeSlot, Reject, ReleaseFailed,
       CloseCs, Choose, Seated
  <2>2. MainStep /\ pc[Main] # "start"
    BY <1>3, <2>1 DEF MainStep, Seated
  <2> QED
    BY <1>2, <2>1, <2>2, JoinQuiet DEF Seated
<1>4. CASE CloseOld
  <2>1. MainStep /\ pc[Main] # "start"
    BY <1>4 DEF MainStep, CloseOld
  <2> QED
    BY <1>0, <1>2, <1>4, <2>1, JoinQuiet DEF CloseOld, ShutdownAndClose, Context
<1>5. CASE AssignSocket
  <2>1. MainStep /\ pc[Main] # "start"
    BY <1>5 DEF MainStep, AssignSocket
  <2> QED
    BY <1>0, <1>2, <1>5, <2>1, JoinQuiet DEF AssignSocket, Context, Seated
<1>6. CASE Finalize(Main)
  <2>1. MainStep
    BY <1>6 DEF MainStep
  <2>2. /\ UNCHANGED <<has_thread, thread, unjoined>>
        /\ pc[Main] \notin Seated /\ pc'[Main] \notin Seated
    BY <1>0, <1>6 DEF Context, Finalize, MutexLock, FinTake, FinClear, FinClose, FinFree, Release,
       ShutdownAndClose, Seated
  <2> QED
    BY <1>2, <2>1, <2>2, JoinQuiet DEF Seated
<1>7. CASE Reserve
  <2>1. \A c \in unjoined : pc'[c] = pc[c]
    BY <1>2, <1>7 DEF MainStep, Reserve
  <2>2. /\ pc[Main] = "reserve" /\ pc'[Main] = "close_old" /\ slot[Main] \in Slots
        /\ (join_old' <=> has_thread[slot[Main]]) /\ old_thread' = thread[slot[Main]]
        /\ UNCHANGED <<thread, unjoined, slot, cur>>
        /\ \A i \in Slots : has_thread'[i] <=> (has_thread[i] /\ i # slot[Main])
    BY <1>0, <1>7 DEF Reserve, Context
  <2> QED
    BY <2>1, <2>2 DEF JoinInv, EveryThreadJoinedOnce, Seated
<1>8. CASE JoinOld
  <2>1. \A c \in unjoined : pc'[c] = pc[c]
    BY <1>2, <1>8 DEF MainStep, JoinOld
  <2>2. /\ pc[Main] = "join" /\ pc'[Main] = "init"
        /\ unjoined' = IF join_old THEN unjoined \ {old_thread} ELSE unjoined
        /\ UNCHANGED <<has_thread, thread, slot>>
    BY <1>0, <1>8 DEF JoinOld, Context
  <2> QED
    BY <2>1, <2>2 DEF JoinInv, EveryThreadJoinedOnce, Seated
<1>9. CASE InitializeClient
  <2>1. \A c \in unjoined : pc'[c] = pc[c]
    BY <1>2, <1>9 DEF MainStep, InitializeClient
  <2>2. /\ pc[Main] = "init" /\ pc'[Main] \in {"assign", "fail_lock"} /\ slot[Main] \in Slots
        /\ UNCHANGED <<unjoined, slot>>
        /\ \A i \in Slots : /\ has_thread'[i] <=> (has_thread[i] /\ i # slot[Main])
                            /\ thread'[i] = IF i = slot[Main] THEN Nobody ELSE thread[i]
    BY <1>0, <1>9 DEF InitializeClient, Context
  <2> QED
    BY <2>1, <2>2 DEF JoinInv, EveryThreadJoinedOnce, Seated
<1>10. CASE StartThread
  <2>1. pc[Main] = "start" /\ cur \in Conns /\ pc[cur] = "none" /\ cur # Main /\ slot[Main] \in Slots
        /\ UNCHANGED <<has_thread, cur>>
    BY <1>0, <1>10 DEF StartThread, Context
  <2>2. CASE pc' = [pc EXCEPT ![Main] = "fin_lock"] /\ UNCHANGED <<thread, slot, unjoined>>
    <3>1. pc'[Main] = "fin_lock" /\ \A c \in unjoined : pc'[c] = pc[c]
      BY <1>0, <2>2 DEF Context
    <3> QED
      BY <2>1, <2>2, <3>1, JoinQuiet DEF Seated
  <2>3. CASE /\ pc' = [pc EXCEPT ![Main] = "mark", ![cur] = "load_cmd"]
             /\ slot' = [slot EXCEPT ![cur] = slot[Main]]
             /\ thread' = [thread EXCEPT ![slot[Main]] = cur]
             /\ unjoined' = unjoined \cup {cur}
    <3>1. /\ pc'[Main] = "mark" /\ pc'[cur] = "load_cmd" /\ slot'[Main] = slot[Main]
          /\ \A c \in unjoined : pc'[c] = pc[c] /\ c # cur
          /\ \A i \in Slots : thread'[i] = IF i = slot[Main] THEN cur ELSE thread[i]
      BY <1>0, <2>1, <2>3 DEF Context, JoinInv
    <3>2. \A i \in Slots : has_thread[i] => i # slot[Main] /\ thread[i] # cur
      BY <2>1 DEF JoinInv, Seated
    <3>3. \A i, j \in Slots : has_thread[i] /\ has_thread[j] /\ thread'[i] = thread'[j] => i = j
      BY <3>1, <3>2 DEF JoinInv, EveryThreadJoinedOnce
    <3>4. \A c \in unjoined : \E i \in Slots : has_thread[i] /\ thread'[i] = c
      BY <2>1, <3>1, <3>2 DEF JoinInv, EveryThreadJoinedOnce
    <3>5. \A i \in Slots : has_thread'[i] => thread'[i] \in unjoined'
      BY <2>1, <2>3, <3>1, <3>2 DEF JoinInv
    <3>6. EveryThreadJoinedOnce'
      BY <2>1, <2>3, <3>1, <3>3, <3>4 DEF EveryThreadJoinedOnce
    <3>7. \A c \in unjoined' : pc'[c] # "none"
      BY <2>3, <3>1 DEF JoinInv
    <3>8. ~has_thread'[slot'[Main]] /\ thread'[slot'[Main]] = cur /\ cur \in unjoined'
      BY <2>1, <2>3, <3>1, <3>2
    <3>9. \A i \in Slots : ~(has_thread'[i] /\ thread'[i] = cur)
      BY <2>1, <3>1, <3>2
    <3> QED
      BY <2>1, <3>1, <3>5, <3>6, <3>7, <3>8, <3>9 DEF JoinInv
  <2> QED
    BY <1>10, <2>2, <2>3 DEF StartThread
<1>11. CASE MarkThread
  <2>1. \A c \in unjoined : pc'[c] = pc[c]
    BY <1>2, <1>11 DEF MainStep, MarkThread
  <2>2. /\ pc[Main] = "mark" /\ pc'[Main] = "accept" /\ slot[Main] \in Slots
        /\ UNCHANGED <<thread, unjoined>>
        /\ \A i \in Slots : has_thread'[i] <=> (has_thread[i] \/ i = slot[Main])
    BY <1>0, <1>11 DEF MarkThread, Context
  <2> QED
    BY <2>1, <2>2 DEF JoinInv, EveryThreadJoinedOnce, Seated
<1>12. CASE MainStep
  BY <1>3, <1>4, <1>5, <1>6, <1>7, <1>8, <1>9, <1>10, <1>11, <1>12 DEF MainStep
<1>13. CASE AcceptError
  <2>1. /\ pc[Main] = "accept" /\ pc'[Main] = "exited" /\ UNCHANGED <<has_thread, thread, unjoined>>
        /\ \A c \in unjoined : pc'[c] = pc[c]
    BY <1>0, <1>13 DEF AcceptError, Context
  <2> QED
    BY <2>1, JoinQuiet DEF Seated
<1>14. ASSUME NEW c \in Conns, Accept(c) PROVE JoinInv'
  <2>1. /\ pc[Main] = "accept" /\ pc'[Main] = "lock" /\ UNCHANGED <<has_thread, thread, unjoined>>
        /\ \A d \in unjoined : pc'[d] = pc[d]
    BY <1>0, <1>14 DEF Accept, Context
  <2> QED
    BY <2>1, JoinQuiet DEF Seated
<1>15. ASSUME NEW c \in Conns, HangUp(c) PROVE JoinInv'
  BY <1>15, JoinQuiet DEF HangUp
<1>16. CASE Idle \/ UNCHANGED vars
  BY <1>16, JoinQuiet DEF Idle, vars
<1> QED
  BY <1>1, <1>12, <1>13, <1>14, <1>15, <1>16 DEF Next

LEMMA JoinInit == Init => JoinInv
BY IdAssumption DEF Init, JoinInv, EveryThreadJoinedOnce, Seated, Procs

\* Every thread that create_start_thread() has created is joined exactly once,
\* whether it ends before or after its console connects again: its handle is
\* never lost, and never joined twice.
THEOREM ThreadsAreJoinedOnce == Spec => []EveryThreadJoinedOnce
<1>1. JoinInv => EveryThreadJoinedOnce
  BY DEF JoinInv
<1> QED
  BY <1>1, JoinInit, JoinStep, IndInvAlways, PTL DEF Spec
-----------------------------------------------------------------------------
(* Buffers *)

MainUses == {"assign", "start", "fin_lock", "fin_take", "fin_clear", "fin_close", "fin_free"}

\* What BuffersOwned says of a thread holds of the accept loop as well while it
\* prepares a slot or gives it up, and a buffer in the table belongs to one of
\* them: initialize_client() finds none.
BufInv ==
    /\ \A c \in Conns : Uses(c) => buf[slot[c]] = c /\ c \in heap
    /\ \A c \in heap : \E i \in Slots : buf[i] = c
    /\ pc[Main] \in MainUses => buf[slot[Main]] = cur /\ cur \in heap
    /\ \A i \in Slots : buf[i] # Nobody =>
          \/ \E c \in Conns : Uses(c) /\ slot[c] = i
          \/ pc[Main] \in MainUses /\ slot[Main] = i

\* A step that changes no buffer and no user of one.
LEMMA BufQuiet ==
    ASSUME BufInv, UNCHANGED <<buf, heap>>,
           \A c \in Conns : (Uses(c)' <=> Uses(c)) /\ slot'[c] = slot[c],
           pc'[Main] \in MainUses <=> pc[Main] \in MainUses,
           pc[Main] \in MainUses => slot'[Main] = slot[Main] /\ cur' = cur
    PROVE  BufInv'
BY DEF BufInv

\* finalize_client() frees the buffer of the slot it works on.
LEMMA BufFree ==
    ASSUME IndInv, BufInv, NEW p \in Procs, FinFree(p)
    PROVE  BufInv'
<1> USE IdAssumption
<1>0. Context /\ buf \in [Slots -> Conns \cup {Nobody}] /\ slot[p] \in Slots
  BY ContextHolds DEF Context, IndInv, Typed, TypeOK
<1>1. /\ pc[p] = "fin_free" /\ pc' = [pc EXCEPT ![p] = "rel_lock"]
      /\ heap' = heap \ {buf[slot[p]]} /\ buf' = [buf EXCEPT ![slot[p]] = Nobody]
      /\ UNCHANGED <<slot, cur>>
  BY DEF FinFree, Goto, mainVars
<1>2. /\ \A i \in Slots : buf'[i] = IF i = slot[p] THEN Nobody ELSE buf[i]
      /\ \A q \in Procs : pc'[q] = IF q = p THEN "rel_lock" ELSE pc[q]
  BY <1>0, <1>1 DEF Context
<1>3. CASE p = Main
  <2>1. buf[slot[Main]] = cur /\ pc[cur] = "none" /\ cur \in Conns
    BY <1>0, <1>1, <1>3 DEF BufInv, MainUses, Context
  <2>2. /\ pc'[Main] \notin MainUses
        /\ \A c \in Conns : (Uses(c)' <=> Uses(c)) /\ (Uses(c) => c # cur /\ slot[c] # slot[Main])
    BY <1>0, <1>1, <1>2, <1>3, <2>1 DEF Context, Uses, Live, MainUses, Emptied, FinalizeLabels
  <2>3. \A c \in Conns : Uses(c)' => buf'[slot'[c]] = c /\ c \in heap'
    BY <1>0, <1>1, <1>2, <1>3, <2>1, <2>2 DEF BufInv, Context
  <2> QED
    BY <1>0, <1>1, <1>2, <1>3, <2>1, <2>2, <2>3 DEF BufInv, Context
<1>4. CASE p # Main
  <2>1. p \in Conns /\ Uses(p) /\ buf[slot[p]] = p /\ ~Uses(p)' /\ pc'[Main] = pc[Main]
    BY <1>0, <1>1, <1>2, <1>4 DEF Uses, Live, BufInv, Context
  <2>2. \A c \in Conns : c # p => (Uses(c)' <=> Uses(c)) /\ (Uses(c) => slot[c] # slot[p])
    BY <1>0, <1>2, <2>1 DEF Context, Uses, Live
  <2>3. pc[Main] \in MainUses => slot[Main] # slot[p] /\ cur # p
    BY <1>0, <1>1, <2>1 DEF Context, MainUses, Emptied, FinalizeLabels, Uses
  <2>4. \A c \in Conns : Uses(c)' => buf'[slot'[c]] = c /\ c \in heap'
    BY <1>0, <1>1, <1>2, <2>1, <2>2 DEF BufInv, Context
  <2>5. pc'[Main] \in MainUses => buf'[slot'[Main]] = cur' /\ cur' \in heap'
    BY <1>0, <1>1, <1>2, <2>1, <2>3 DEF BufInv, Context
  <2>6. \A c \in heap' : \E i \in Slots : buf'[i] = c
    BY <1>1, <1>2, <2>1 DEF BufInv
  <2>7. \A i \in Slots : buf'[i] # Nobody =>
          \/ \E c \in Conns : Uses(c)' /\ slot'[c] = i
          \/ pc'[Main] \in MainUses /\ slot'[Main] = i
    BY <1>1, <1>2, <2>1, <2>2 DEF BufInv
  <2> QED
    BY <2>4, <2>5, <2>6, <2>7 DEF BufInv
<1> QED
  BY <1>3, <1>4

LEMMA BufStep == IndInv /\ BufInv /\ [Next]_vars => BufInv'
<1> SUFFICES ASSUME IndInv, BufInv, [Next]_vars PROVE BufInv'
  OBVIOUS
<1> USE IdAssumption
<1> USE DEF Goto, slotVars, kernelVars, netVars, procVars, mainVars
<1>0. Context /\ buf \in [Slots -> Conns \cup {Nobody}] /\ Main \in Procs /\ slot[Main] \in Slots
  BY ContextHolds DEF Context, IndInv, Typed, TypeOK
<1>1. ASSUME NEW c \in Conns, ThreadStep(c) \/ RecvOk(c) \/ SendOk(c) PROVE BufInv'
  <2>1. CASE FinFree(c)
    BY <1>0, <2>1, BufFree DEF Context
  <2>2. CASE ~FinFree(c)
    <3>1. /\ UNCHANGED <<slot, cur, buf, heap>> /\ pc'[Main] = pc[Main]
          /\ \A d \in Conns : Uses(d)' <=> Uses(d)
      BY <1>0, <1>1, <2>2, ThreadFrame DEF Context, Uses, Live
    <3> QED
      BY <3>1, BufQuiet
  <2> QED
    BY <2>1, <2>2
<1>2. ASSUME MainStep, pc[Main] # "start"
      PROVE  \A c \in Conns : (Uses(c)' <=> Uses(c)) /\ slot'[c] = slot[c]
  BY <1>0, <1>2, MainFrame DEF Uses, Live
<1>3. ASSUME UNCHANGED <<buf, heap>>, MainStep, pc[Main] # "start",
             \/ pc[Main] \notin MainUses /\ pc'[Main] \notin MainUses
             \/ pc[Main] \in MainUses /\ pc'[Main] \in MainUses /\ UNCHANGED <<slot[Main], cur>>
      PROVE  BufInv'
  BY <1>2, <1>3, BufQuiet
<1>4. CASE \/ MutexLock(Main, "lock", "select") \/ MutexLock(Main, "fail_lock", "fail_release")
           \/ Reconnect \/ TakeSocket \/ TakeFreeSlot \/ Reject \/ Reserve \/ ReleaseFailed \/ CloseCs
           \/ CloseOld \/ JoinOld \/ MarkThread
  <2>1. /\ UNCHANGED <<buf, heap>> /\ pc[Main] \notin MainUses /\ pc'[Main] \notin MainUses
    BY <1>0, <1>4 DEF Context, MutexLock, Reconnect, TakeSocket, TakeFreeSlot, Reject, Reserve,
       ReleaseFailed, CloseCs, CloseOld, JoinOld, MarkThread, Choose, ShutdownAndClose, MainUses
  <2>2. MainStep /\ pc[Main] # "start"
    BY <1>4, <2>1 DEF MainStep, MainUses
  <2> QED
    BY <1>3, <2>1, <2>2
<1>5. CASE \/ AssignSocket \/ MutexLock(Main, "fin_lock", "fin_take") \/ FinTake(Main) \/ FinClear(Main)
           \/ FinClose(Main)
  <2>1. /\ UNCHANGED <<buf, heap, slot, cur>> /\ pc[Main] \in MainUses \ {"start"} /\ pc'[Main] \in MainUses
    BY <1>0, <1>5 DEF Context, AssignSocket, MutexLock, FinTake, FinClear, FinClose, ShutdownAndClose, MainUses
  <2>2. MainStep /\ pc[Main] # "start"
    BY <1>5, <2>1 DEF MainStep, Finalize
  <2> QED
    BY <1>3, <2>1, <2>2
<1>6. CASE MutexLock(Main, "rel_lock", "rel") \/ Release(Main)
  <2>1. /\ UNCHANGED <<buf, heap>> /\ pc[Main] \notin MainUses /\ pc'[Main] \notin MainUses
    BY <1>0, <1>6 DEF Context, MutexLock, Release, MainUses
  <2>2. MainStep /\ pc[Main] # "start"
    BY <1>6, <2>1 DEF MainStep, Finalize, MainUses
  <2> QED
    BY <1>3, <2>1, <2>2
<1>7. CASE Finalize(Main)
  BY <1>0, <1>5, <1>6, <1>7, BufFree DEF Finalize
<1>8. CASE InitializeClient
  <2>1. /\ pc[Main] = "init" /\ cur \in Conns /\ pc[cur] = "none"
        /\ \A c \in Conns : Uses(c) => slot[c] # slot[Main] /\ c # cur
    BY <1>0, <1>8 DEF InitializeClient, Context, Emptied, Uses, Live
  <2>2. \A c \in Conns : (Uses(c)' <=> Uses(c)) /\ slot'[c] = slot[c]
    BY <1>2, <1>8, <2>1 DEF MainStep
  <2>3. buf[slot[Main]] = Nobody
    BY <1>0, <2>1 DEF BufInv, MainUses
  <2>4. UNCHANGED <<slot, cur>>
    BY <1>8 DEF InitializeClient
  <2>5. CASE /\ buf' = [buf EXCEPT ![slot[Main]] = cur] /\ heap' = heap \cup {cur}
             /\ pc' = [pc EXCEPT ![Main] = "assign"]
    <3>1. /\ pc'[Main] = "assign"
          /\ \A i \in Slots : buf'[i] = IF i = slot[Main] THEN cur ELSE buf[i]
      BY <1>0, <2>5 DEF Context
    <3>2. \A c \in Conns : Uses(c)' => buf'[slot'[c]] = c /\ c \in heap'
      BY <1>0, <2>1, <2>2, <2>5, <3>1 DEF BufInv, Context
    <3>3. \A c \in heap' : \E i \in Slots : buf'[i] = c
      BY <1>0, <2>3, <2>5, <3>1 DEF BufInv, Context, IndInv, Typed, TypeOK
    <3>4. \A i \in Slots : buf'[i] # Nobody =>
            \/ \E c \in Conns : Uses(c)' /\ slot'[c] = i
            \/ pc'[Main] \in MainUses /\ slot'[Main] = i
      BY <2>1, <2>2, <2>4, <3>1 DEF BufInv, MainUses
    <3> QED
      BY <1>0, <2>4, <2>5, <3>1, <3>2, <3>3, <3>4 DEF BufInv
  <2>6. CASE /\ buf' = [buf EXCEPT ![slot[Main]] = Nobody] /\ heap' = heap
             /\ pc' = [pc EXCEPT ![Main] = "fail_lock"]
    <3>1. buf' = buf /\ pc'[Main] = "fail_lock"
      BY <1>0, <2>3, <2>6 DEF Context
    <3> QED
      BY <2>1, <2>2, <2>4, <2>6, <3>1, BufQuiet DEF MainUses
  <2> QED
    BY <1>8, <2>5, <2>6 DEF InitializeClient
<1>9. CASE StartThread
  <2>1. /\ pc[Main] = "start" /\ cur \in Conns /\ pc[cur] = "none" /\ cur # Main
        /\ UNCHANGED <<buf, heap, cur>>
    BY <1>0, <1>9 DEF StartThread, Context
  <2>2. CASE pc' = [pc EXCEPT ![Main] = "fin_lock"] /\ UNCHANGED slot
    <3>1. pc'[Main] = "fin_lock" /\ \A c \in Conns : Uses(c)' <=> Uses(c)
      BY <1>0, <2>2 DEF Context, Uses, Live
    <3> QED
      BY <2>1, <2>2, <3>1, BufQuiet DEF MainUses
  <2>3. CASE /\ pc' = [pc EXCEPT ![Main] = "mark", ![cur] = "load_cmd"]
             /\ slot' = [slot EXCEPT ![cur] = slot[Main]]
    <3>1. /\ pc'[Main] = "mark" /\ Uses(cur)' /\ slot'[cur] = slot[Main] /\ slot'[Main] = slot[Main]
          /\ \A c \in Conns : c # cur => (Uses(c)' <=> Uses(c)) /\ slot'[c] = slot[c]
          /\ ~Uses(cur)
      BY <1>0, <2>1, <2>3 DEF Context, Uses, Live
    <3>2. buf[slot[Main]] = cur /\ cur \in heap
      BY <2>1 DEF BufInv, MainUses
    <3>3. \A i \in Slots : buf'[i] # Nobody => \E c \in Conns : Uses(c)' /\ slot'[c] = i
      BY <2>1, <3>1 DEF BufInv
    <3> QED
      BY <2>1, <3>1, <3>2, <3>3 DEF BufInv, MainUses
  <2> QED
    BY <1>9, <2>2, <2>3 DEF StartThread
<1>10. CASE MainStep
  BY <1>4, <1>5, <1>7, <1>8, <1>9, <1>10 DEF MainStep
<1>11. CASE AcceptError
  <2>1. /\ pc[Main] = "accept" /\ pc'[Main] = "exited" /\ UNCHANGED <<buf, heap, slot>>
        /\ \A c \in Conns : Uses(c)' <=> Uses(c)
    BY <1>0, <1>11 DEF AcceptError, Context, Uses, Live
  <2> QED
    BY <2>1, BufQuiet DEF MainUses
<1>12. ASSUME NEW c \in Conns, Accept(c) PROVE BufInv'
  <2>1. /\ pc[Main] = "accept" /\ pc'[Main] = "lock" /\ UNCHANGED <<buf, heap, slot>>
        /\ \A d \in Conns : Uses(d)' <=> Uses(d)
    BY <1>0, <1>12 DEF Accept, Context, Uses, Live
  <2> QED
    BY <2>1, BufQuiet DEF MainUses
<1>13. CASE UNCHANGED <<buf, heap, slot, pc, cur>>
  BY <1>13, BufQuiet DEF Uses, Live
<1> QED
  BY <1>1, <1>10, <1>11, <1>12, <1>13 DEF Next, HangUp, Idle, vars

LEMMA BufInit == Init => BufInv
BY IdAssumption DEF Init, BufInv, Uses, Live, MainUses, Procs

\* Every client->buf that initialize_client() allocates is the one its thread
\* finds in its slot, until finalize_client() frees it, and the memset() of
\* the next initialize_client() loses none.
THEOREM BuffersAreOwned == Spec => []BuffersOwned
<1>1. BufInv => BuffersOwned
  BY DEF BufInv, BuffersOwned, Uses
<1> QED
  BY <1>1, BufInit, BufStep, IndInvAlways, PTL DEF Spec
-----------------------------------------------------------------------------
(* Files *)

\* Every open file is referred to from a slot, and a slot that refers to a
\* file has a thread that will close it: initialize_client() finds none.
FileHeld ==
    /\ \A fd \in FD : files[fd] # Nobody => \E i \in Slots : ro_file[i] = fd
    /\ \A i \in Slots : ro_file[i] # NoFile => \E c \in Conns : Uses(c) /\ slot[c] = i

\* A step that opens no file and changes no slot's file.
LEMMA FileQuiet ==
    ASSUME FileHeld, UNCHANGED ro_file,
           \A fd \in FD : files'[fd] # Nobody => files[fd] # Nobody,
           \A c \in Conns : Uses(c) => Uses(c)' /\ slot'[c] = slot[c]
    PROVE  FileHeld'
BY DEF FileHeld

\* close() opens nothing.
LEMMA CloseShrinks ==
    ASSUME Context, NEW fd \in FD \cup {NO_SOCKET}, CloseFd(fd)
    PROVE  \A n \in FD : /\ files'[n] = IF n = fd THEN Nobody ELSE files[n]
                         /\ sockets'[n] = IF n = fd THEN Nobody ELSE sockets[n]
BY DEF CloseFd, Context

\* finalize_client() deletes the file of the slot it works on.
LEMMA FileFree ==
    ASSUME IndInv, FileHeld, SlotFile, NEW p \in Procs, FinFree(p)
    PROVE  FileHeld'
<1> USE IdAssumption
<1>0. Context /\ slot[p] \in Slots
  BY ContextHolds DEF Context
<1>1. /\ pc[p] = "fin_free" /\ CloseFd(ro_file[slot[p]])
      /\ ro_file' = [ro_file EXCEPT ![slot[p]] = NoFile] /\ slot' = slot
      /\ pc' = [pc EXCEPT ![p] = "rel_lock"]
  BY DEF FinFree, Goto
<1>2. /\ \A i \in Slots : ro_file'[i] = IF i = slot[p] THEN NoFile ELSE ro_file[i]
      /\ \A q \in Procs : q # p => pc'[q] = pc[q]
      /\ \A fd \in FD : files'[fd] = IF fd = ro_file[slot[p]] THEN Nobody ELSE files[fd]
  BY <1>0, <1>1, CloseShrinks DEF Context
<1>3. \A fd \in FD : files'[fd] # Nobody => \E i \in Slots : ro_file'[i] = fd
  BY <1>2 DEF FileHeld
<1>4. ASSUME NEW i \in Slots, ro_file'[i] # NoFile PROVE \E c \in Conns : Uses(c)' /\ slot'[c] = i
  <2>1. i # slot[p] /\ ro_file[i] # NoFile
    BY <1>2, <1>4
  <2>2. PICK c \in Conns : Uses(c) /\ slot[c] = i
    BY <2>1 DEF FileHeld
  <2>3. c # p /\ pc'[c] = pc[c]
    BY <1>0, <1>2, <2>1, <2>2 DEF Context
  <2> QED
    BY <1>1, <2>2, <2>3 DEF Uses, Live
<1> QED
  BY <1>3, <1>4 DEF FileHeld

LEMMA FileOpen ==
    ASSUME IndInv, FileHeld, NEW c \in Conns, HandleOpen(c)
    PROVE  FileHeld'
<1> USE IdAssumption
<1>0. Context /\ slot[c] \in Slots /\ c \in Procs
  BY ContextHolds DEF Context
<1>1. pc[c] = "handle" /\ pc' = [pc EXCEPT ![c] = "load_reply"] /\ slot' = slot
  BY DEF HandleOpen, Goto
<1>2. \A d \in Conns : Uses(d)' <=> Uses(d)
  BY <1>0, <1>1 DEF Context, Uses, Live
<1>3. Uses(c)
  BY <1>1 DEF Uses, Live
<1> DEFINE left == IF ro_file[slot[c]] = NoFile THEN files ELSE [files EXCEPT ![ro_file[slot[c]]] = Nobody]
<1>4. \A fd \in FD : left[fd] # Nobody => files[fd] # Nobody /\ fd # ro_file[slot[c]]
  BY <1>0 DEF Context
<1>5. left \in [FD -> Conns \cup {Nobody}]
  BY <1>0 DEF Context
<1>6. PICK fd \in FD \cup {NoFile} :
         /\ ro_file' = [ro_file EXCEPT ![slot[c]] = fd]
         /\ files' = IF fd = NoFile THEN left ELSE [left EXCEPT ![fd] = c]
  BY <1>0 DEF HandleOpen, Context
<1>7. \A i \in Slots : ro_file'[i] = IF i = slot[c] THEN fd ELSE ro_file[i]
  BY <1>0, <1>6 DEF Context
<1>8. \A n \in FD : files'[n] = IF n = fd THEN c ELSE left[n]
  BY <1>0, <1>5, <1>6 DEF Context
<1>9. \A n \in FD : files'[n] # Nobody => \E i \in Slots : ro_file'[i] = n
  <2> SUFFICES ASSUME NEW n \in FD, files'[n] # Nobody PROVE \E i \in Slots : ro_file'[i] = n
    OBVIOUS
  <2> HIDE DEF left
  <2>1. CASE n = fd
    BY <1>0, <1>7, <2>1
  <2>2. CASE n # fd
    <3>1. files[n] # Nobody /\ n # ro_file[slot[c]]
      BY <1>4, <1>8, <2>2
    <3>2. PICK i \in Slots : ro_file[i] = n
      BY <3>1 DEF FileHeld
    <3> QED
      BY <1>7, <3>1, <3>2
  <2> QED
    BY <2>1, <2>2
<1>10. \A i \in Slots : ro_file'[i] # NoFile => \E d \in Conns : Uses(d)' /\ slot'[d] = i
  BY <1>1, <1>2, <1>3, <1>7 DEF FileHeld
<1> QED
  BY <1>9, <1>10 DEF FileHeld

\* The steps of a client thread that open or close a number or change what
\* its slot refers to; the others only move it on.
LEMMA ThreadKeeps ==
    ASSUME Context, NEW c \in Conns, ThreadStep(c) \/ RecvOk(c) \/ SendOk(c)
    PROVE  \/ HandleOpen(c) \/ FinClear(c) \/ FinClose(c) \/ FinFree(c) \/ Release(c)
           \/ /\ UNCHANGED <<s, sockets, files, ro_file, shut>>
              /\ pc[c] # "fin_close" /\ Live(c)'
              /\ \A p \in Procs : p # c => reg'[p] = reg[p]
<1> USE IdAssumption DEF Goto, slotVars, kernelVars, netVars, procVars, mainVars, Context
<1>0. c \in Procs
  OBVIOUS
<1> DEFINE Moves == /\ UNCHANGED <<s, sockets, files, ro_file, shut>>
                    /\ pc[c] # "fin_close"
                    /\ \E l : pc' = [pc EXCEPT ![c] = l] /\ l \notin {"none", "done"}
                    /\ \E n : reg' = [reg EXCEPT ![c] = n] \/ reg' = reg
<1>1. ASSUME NEW from \in {"load_cmd", "load_reply"}, NEW to \in {"recv", "send"},
             LoadSocket(c, from, to) PROVE Moves
  BY <1>1 DEF LoadSocket
<1>2. ASSUME NEW from \in {"recv", "send"}, NEW to \in {"in_recv", "in_send"},
             EnterCall(c, from, to) PROVE Moves
  <2>1. PICK l \in {"in_recv", "in_send", "fin_lock"} : pc' = [pc EXCEPT ![c] = l]
    BY <1>2 DEF EnterCall
  <2> QED
    BY <1>2, <2>1 DEF EnterCall
<1>3. ASSUME NEW from \in {"in_recv", "in_send"}, NEW to \in {"handle", "load_cmd", "fin_lock"},
             LeaveCall(c, from, to) PROVE Moves
  BY <1>3 DEF LeaveCall
<1>4. ASSUME HandleOther(c) PROVE Moves
  BY <1>4 DEF HandleOther
<1>5. ASSUME MutexLock(c, "fin_lock", "fin_take") \/ MutexLock(c, "rel_lock", "rel") PROVE Moves
  BY <1>5 DEF MutexLock
<1>6. ASSUME FinTake(c) PROVE Moves
  <2>1. reg' = [reg EXCEPT ![c] = s[slot[c]]] /\ pc' = [pc EXCEPT ![c] = "fin_clear"]
    BY <1>6 DEF FinTake
  <2> QED
    BY <1>6, <2>1 DEF FinTake
<1>7. ASSUME Moves PROVE Live(c)' /\ pc[c] # "fin_close" /\ \A p \in Procs : p # c => reg'[p] = reg[p]
  BY <1>0, <1>7 DEF Live
<1>8. \/ HandleOpen(c) \/ FinClear(c) \/ FinClose(c) \/ FinFree(c) \/ Release(c) \/ Moves
  BY <1>1, <1>2, <1>3, <1>4, <1>5, <1>6
     DEF ThreadStep, RecvOk, SendOk, RecvFail, SendFail, Finalize
<1> QED
  BY <1>7, <1>8

\* The same for the accept loop and the files.
LEMMA MainFiles ==
    ASSUME Context, MainStep
    PROVE  \/ FinFree(Main) \/ InitializeClient
           \/ UNCHANGED ro_file /\ \A fd \in FD : files'[fd] # Nobody => files[fd] # Nobody
<1> USE IdAssumption DEF Goto, slotVars, kernelVars, netVars, procVars, mainVars
<1>1. CASE \/ MutexLock(Main, "lock", "select") \/ MutexLock(Main, "fail_lock", "fail_release")
           \/ Reconnect \/ TakeSocket \/ TakeFreeSlot \/ Reject \/ Reserve \/ ReleaseFailed
           \/ JoinOld \/ MarkThread \/ AssignSocket \/ StartThread
  BY <1>1 DEF MutexLock, Reconnect, TakeSocket, TakeFreeSlot, Reject, Reserve, ReleaseFailed, JoinOld,
     MarkThread, AssignSocket, StartThread, Choose
<1>2. CASE MutexLock(Main, "fin_lock", "fin_take") \/ FinTake(Main) \/ FinClear(Main)
           \/ MutexLock(Main, "rel_lock", "rel") \/ Release(Main)
  BY <1>2 DEF MutexLock, FinTake, FinClear, Release
<1>3. CASE CloseCs \/ CloseOld \/ FinClose(Main)
  <2>1. UNCHANGED ro_file /\ \E fd \in FD \cup {NO_SOCKET} : CloseFd(fd)
    BY <1>3 DEF CloseCs, CloseOld, FinClose, ShutdownAndClose, Context
  <2> QED
    BY <2>1, CloseShrinks
<1> QED
  BY <1>1, <1>2, <1>3 DEF MainStep, Finalize

LEMMA FileStep == IndInv /\ FdInv /\ FileHeld /\ [Next]_vars => FileHeld'
<1> SUFFICES ASSUME IndInv, FdInv, FileHeld, [Next]_vars PROVE FileHeld'
  OBVIOUS
<1> USE IdAssumption
<1> USE DEF Goto, slotVars, kernelVars, netVars, procVars, mainVars
<1>0. Context /\ Main \in Procs /\ slot[Main] \in Slots /\ SlotFile
  BY ContextHolds DEF Context, FdInv
<1>1. ASSUME NEW c \in Conns, ThreadStep(c) \/ RecvOk(c) \/ SendOk(c) PROVE FileHeld'
  <2>0. c \in Procs /\ c # Main
    BY <1>0 DEF Context
  <2>1. CASE HandleOpen(c) \/ FinFree(c)
    BY <1>0, <2>0, <2>1, FileOpen, FileFree
  <2>2. CASE ~HandleOpen(c) /\ ~FinFree(c)
    <3>1. /\ UNCHANGED slot /\ \A d \in Conns : Uses(d)' <=> Uses(d)
      BY <1>0, <1>1, <2>2, ThreadFrame DEF Context, Uses, Live
    <3>2. CASE FinClose(c)
      <4>1. UNCHANGED ro_file /\ \E fd \in FD \cup {NO_SOCKET} : CloseFd(fd)
        BY <1>0, <2>0, <3>2 DEF FinClose, ShutdownAndClose, Context
      <4>2. \A fd \in FD : files'[fd] # Nobody => files[fd] # Nobody
        BY <1>0, <4>1, CloseShrinks
      <4> QED
        BY <3>1, <4>1, <4>2, FileQuiet
    <3>3. CASE ~FinClose(c)
      <4>1. UNCHANGED <<files, ro_file>>
        BY <1>0, <1>1, <2>2, <3>3, ThreadKeeps DEF FinClear, Release
      <4> QED
        BY <3>1, <4>1, FileQuiet
    <3> QED
      BY <3>2, <3>3
  <2> QED
    BY <2>1, <2>2
<1>2. CASE MainStep
  <2>1. CASE FinFree(Main)
    BY <1>0, <2>1, FileFree
  <2>2. CASE InitializeClient
    <3>1. pc[Main] = "init" /\ files' = files /\ ro_file' = [ro_file EXCEPT ![slot[Main]] = NoFile]
      BY <2>2 DEF InitializeClient
    <3>2. ~\E c \in Conns : Uses(c) /\ slot[c] = slot[Main]
      BY <1>0, <3>1 DEF Context, Emptied, Uses
    <3>3. ro_file[slot[Main]] = NoFile
      BY <1>0, <3>2 DEF FileHeld
    <3>4. UNCHANGED ro_file
      BY <1>0, <3>1, <3>3 DEF Context
    <3>5. \A c \in Conns : Uses(c) => Uses(c)' /\ slot'[c] = slot[c]
      BY <1>0, <1>2, <3>1, MainFrame DEF Uses, Live
    <3> QED
      BY <3>1, <3>4, <3>5, FileQuiet
  <2>3. CASE ~FinFree(Main) /\ ~InitializeClient
    <3>1. UNCHANGED ro_file /\ \A fd \in FD : files'[fd] # Nobody => files[fd] # Nobody
      BY <1>0, <1>2, <2>3, MainFiles
    <3>2. \A c \in Conns : Uses(c) => Uses(c)' /\ slot'[c] = slot[c]
      <4>1. CASE pc[Main] # "start"
        BY <1>0, <1>2, <4>1, MainFrame DEF Uses, Live
      <4>2. CASE pc[Main] = "start"
        <5>1. StartThread
          BY <1>0, <1>2, <4>2 DEF MainStep, MutexLock, Reconnect, TakeSocket, TakeFreeSlot, Reject,
             Reserve, CloseCs, CloseOld, JoinOld, InitializeClient, ReleaseFailed, AssignSocket,
             MarkThread, Finalize, FinTake, FinClear, FinClose, FinFree, Release
        <5>2. \A c \in Conns : Uses(c) => c # cur
          BY <1>0, <4>2 DEF Context, Uses, Live
        <5> QED
          BY <1>0, <5>1, <5>2 DEF StartThread, Context, Uses, Live
      <4> QED
        BY <4>1, <4>2
    <3> QED
      BY <3>1, <3>2, FileQuiet
  <2> QED
    BY <2>1, <2>2, <2>3
<1>3. CASE AcceptError \/ \E c \in Conns : Accept(c)
  <2>1. UNCHANGED <<files, ro_file, slot>> /\ \A c \in Conns : Uses(c)' <=> Uses(c)
    BY <1>0, <1>3 DEF AcceptError, Accept, Context, Uses, Live
  <2> QED
    BY <2>1, FileQuiet
<1>4. CASE UNCHANGED <<files, ro_file, slot, pc>>
  BY <1>4, FileQuiet DEF Uses, Live
<1> QED
  BY <1>1, <1>2, <1>3, <1>4 DEF Next, HangUp, Idle, vars

LEMMA FileInit == Init => FileHeld
BY DEF Init, FileHeld
-----------------------------------------------------------------------------
(* Sockets *)

Ending == {"start", "fin_lock", "fin_take", "fin_clear"}

\* Somebody will still close socket number fd: the thread on the slot that
\* holds it, or the accept loop in its place, a thread that has taken it out of
\* its slot, or the accept loop with the socket of an old or a new connection.
Held(fd) ==
    \/ \E c \in Conns : Live(c) /\ s[slot[c]] = fd
    \/ pc[Main] \in Ending /\ s[slot[Main]] = fd
    \/ \E p \in Procs : pc[p] = "fin_close" /\ reg[p] = fd
    \/ pc[Main] \in {"reserve", "close_old"} /\ old_s = fd
    \/ pc[Main] \in Holding /\ cs = fd

SocketHeld == \A fd \in FD : sockets[fd] # Nobody => Held(fd)

\* A step that opens no socket and leaves every reference where it was.
LEMMA SocketQuiet ==
    ASSUME SocketHeld, UNCHANGED s,
           \A fd \in FD : sockets'[fd] # Nobody => sockets[fd] # Nobody,
           \A c \in Conns : Live(c) => Live(c)' /\ slot'[c] = slot[c],
           \A p \in Procs : pc[p] = "fin_close" => pc'[p] = "fin_close" /\ reg'[p] = reg[p],
           pc[Main] \in Ending => pc'[Main] \in Ending /\ slot'[Main] = slot[Main],
           pc[Main] \in {"reserve", "close_old"} => pc'[Main] \in {"reserve", "close_old"} /\ old_s' = old_s,
           pc[Main] \in Holding => pc'[Main] \in Holding /\ cs' = cs
    PROVE  SocketHeld'
BY DEF SocketHeld, Held

\* finalize_client() takes the socket out of the slot under the lock.
LEMMA SocketFinClear ==
    ASSUME IndInv, FdInv, SocketHeld, NEW p \in Procs, FinClear(p)
    PROVE  SocketHeld'
<1> USE IdAssumption
<1>0. Context /\ slot[p] \in Slots
  BY ContextHolds DEF Context
<1>1. /\ pc[p] = "fin_clear" /\ pc' = [pc EXCEPT ![p] = "fin_close"]
      /\ s' = [s EXCEPT ![slot[p]] = NO_SOCKET]
      /\ UNCHANGED <<sockets, slot, reg, cs, old_s>>
  BY DEF FinClear, Goto, mainVars, kernelVars
<1>2. /\ \A i \in Slots : i # slot[p] => s'[i] = s[i]
      /\ \A q \in Procs : pc'[q] = IF q = p THEN "fin_close" ELSE pc[q]
      /\ reg[p] = s[slot[p]]
  BY <1>0, <1>1 DEF Context, FdInv, Finalizing
<1>3. \A c \in Conns : Live(c) => Live(c)'
  BY <1>0, <1>2 DEF Live, Context
<1> SUFFICES ASSUME NEW fd \in FD, sockets'[fd] # Nobody PROVE Held(fd)'
  BY DEF SocketHeld
<1>4. CASE s[slot[p]] = fd
  BY <1>1, <1>2, <1>4 DEF Held
<1>5. CASE s[slot[p]] # fd
  <2>1. sockets[fd] # Nobody
    BY <1>1
  <2>2. Held(fd)
    BY <2>1 DEF SocketHeld
  <2>3. CASE \E c \in Conns : Live(c) /\ s[slot[c]] = fd
    <3>1. PICK c \in Conns : Live(c) /\ s[slot[c]] = fd
      BY <2>3
    <3>2. slot[c] # slot[p] /\ slot[c] \in Slots
      BY <1>0, <1>5, <3>1 DEF Context
    <3>3. Live(c)' /\ s'[slot'[c]] = fd
      BY <1>1, <1>2, <1>3, <3>1, <3>2
    <3> QED
      BY <3>3 DEF Held
  <2>4. CASE pc[Main] \in Ending /\ s[slot[Main]] = fd
    <3>1. slot[Main] # slot[p] /\ p # Main /\ slot[Main] \in Slots
      BY <1>0, <1>5, <2>4 DEF Context
    <3> QED
      BY <1>0, <1>1, <1>2, <2>4, <3>1 DEF Held, Context
  <2>5. CASE \E q \in Procs : pc[q] = "fin_close" /\ reg[q] = fd
    BY <1>1, <1>2, <2>5 DEF Held
  <2>6. CASE \/ pc[Main] \in {"reserve", "close_old"} /\ old_s = fd
             \/ pc[Main] \in Holding /\ cs = fd
    <3>1. p # Main
      BY <1>1, <2>6 DEF Holding
    <3> QED
      BY <1>0, <1>1, <1>2, <2>6, <3>1 DEF Held, Context
  <2> QED
    BY <2>2, <2>3, <2>4, <2>5, <2>6 DEF Held
<1> QED
  BY <1>4, <1>5

\* It then closes the socket.
LEMMA SocketFinClose ==
    ASSUME IndInv, SocketHeld, NEW p \in Procs, FinClose(p)
    PROVE  SocketHeld'
<1> USE IdAssumption
<1>0. Context /\ reg[p] \in FD \cup {NO_SOCKET}
  BY ContextHolds DEF Context
<1>1. /\ pc[p] = "fin_close" /\ pc' = [pc EXCEPT ![p] = "fin_free"]
      /\ CloseFd(reg[p]) /\ reg' = [reg EXCEPT ![p] = NO_SOCKET]
      /\ UNCHANGED <<s, slot, cs, old_s>>
  BY DEF FinClose, Goto, mainVars, slotVars, ShutdownAndClose
<1>2. /\ \A q \in Procs : q # p => pc'[q] = pc[q] /\ reg'[q] = reg[q]
      /\ pc'[p] = "fin_free"
      /\ \A fd \in FD : sockets'[fd] = IF fd = reg[p] THEN Nobody ELSE sockets[fd]
  BY <1>0, <1>1, CloseShrinks DEF Context
<1>3. \A c \in Conns : Live(c) => Live(c)'
  BY <1>0, <1>2 DEF Live, Context
<1> SUFFICES ASSUME NEW fd \in FD, sockets'[fd] # Nobody PROVE Held(fd)'
  BY DEF SocketHeld
<1>4. fd # reg[p] /\ Held(fd)
  BY <1>2 DEF SocketHeld
<1>5. CASE p = Main
  BY <1>0, <1>1, <1>2, <1>3, <1>4, <1>5 DEF Held, Ending, Holding, Context
<1>6. CASE p # Main
  BY <1>0, <1>1, <1>2, <1>3, <1>4, <1>6 DEF Held, Context
<1> QED
  BY <1>5, <1>6

LEMMA SocketThreadSteps ==
    ASSUME IndInv, FdInv, SocketHeld, NEW c \in Conns, ThreadStep(c) \/ RecvOk(c) \/ SendOk(c)
    PROVE  SocketHeld'
<1> USE IdAssumption
<1>0. Context /\ c \in Procs /\ c # Main
  BY ContextHolds DEF Context
<1>1. /\ UNCHANGED <<slot, cs, old_s>> /\ pc'[Main] = pc[Main]
      /\ \A p \in Procs : p # c => pc'[p] = pc[p]
      /\ \A d \in Conns : d # c => (Live(d)' <=> Live(d))
  BY <1>0, ThreadFrame DEF Context, mainVars, Live
<1>2. ASSUME UNCHANGED s, pc[c] # "fin_close", Live(c)',
             \A fd \in FD : sockets'[fd] # Nobody => sockets[fd] # Nobody,
             \A p \in Procs : p # c => reg'[p] = reg[p]
      PROVE  SocketHeld'
  <2>1. \A d \in Conns : Live(d) => Live(d)'
    BY <1>1, <1>2
  <2>2. \A p \in Procs : pc[p] = "fin_close" => pc'[p] = "fin_close" /\ reg'[p] = reg[p]
    BY <1>1, <1>2
  <2> QED
    BY <1>1, <1>2, <2>1, <2>2, SocketQuiet
<1>3. CASE FinClear(c) \/ FinClose(c)
  BY <1>0, <1>3, SocketFinClear, SocketFinClose
<1>4. CASE HandleOpen(c)
  <2>1. UNCHANGED <<s, sockets, reg>> /\ pc[c] = "handle" /\ pc' = [pc EXCEPT ![c] = "load_reply"]
    BY <1>4 DEF HandleOpen, Goto
  <2>2. Live(c)'
    BY <1>0, <2>1 DEF Context, Live
  <2> QED
    BY <1>2, <2>1, <2>2
<1>5. CASE FinFree(c)
  <2>1. /\ UNCHANGED <<s, reg>> /\ pc[c] = "fin_free" /\ pc' = [pc EXCEPT ![c] = "rel_lock"]
        /\ CloseFd(ro_file[slot[c]]) /\ ro_file[slot[c]] \in FD \cup {NO_SOCKET}
    BY <1>0, <1>5 DEF FinFree, Goto, Context
  <2>2. Live(c)' /\ \A fd \in FD : sockets'[fd] # Nobody => sockets[fd] # Nobody
    BY <1>0, <2>1, CloseShrinks DEF Context, Live
  <2> QED
    BY <1>2, <2>1, <2>2
<1>6. CASE Release(c)
  <2>1. /\ UNCHANGED <<s, sockets, reg>> /\ pc[c] = "rel" /\ s[slot[c]] = NO_SOCKET
    BY <1>6 DEF Release, kernelVars, FdInv, Cleared
  <2> SUFFICES ASSUME NEW fd \in FD, sockets'[fd] # Nobody PROVE Held(fd)'
    BY DEF SocketHeld
  <2>2. Held(fd) /\ fd # NO_SOCKET
    BY <1>0, <2>1 DEF SocketHeld, Context
  <2> QED
    BY <1>0, <1>1, <2>1, <2>2 DEF Held, Context
<1>7. CASE /\ UNCHANGED <<s, sockets>> /\ pc[c] # "fin_close" /\ Live(c)'
           /\ \A p \in Procs : p # c => reg'[p] = reg[p]
  BY <1>2, <1>7
<1> QED
  BY <1>0, <1>3, <1>4, <1>5, <1>6, <1>7, ThreadKeeps

LEMMA SocketMainSteps ==
    ASSUME IndInv, TakenFrom, FdInv, SocketHeld, MainStep
    PROVE  SocketHeld'
<1> USE IdAssumption
<1> USE DEF Goto, slotVars, kernelVars, netVars, procVars, mainVars
<1>0. Context /\ Main \in Procs /\ slot[Main] \in Slots
  BY ContextHolds DEF Context
<1>1. /\ \A c \in Conns : Live(c) => Live(c)' /\ slot'[c] = slot[c]
      /\ \A c \in Conns : pc[c] = "fin_close" => pc'[c] = "fin_close"
  <2>1. CASE pc[Main] # "start"
    BY <1>0, <2>1, MainFrame
  <2>2. CASE pc[Main] = "start"
    <3>1. StartThread
      BY <1>0, <2>2 DEF MainStep, MutexLock, Reconnect, TakeSocket, TakeFreeSlot, Reject,
         Reserve, CloseCs, CloseOld, JoinOld, InitializeClient, ReleaseFailed, AssignSocket,
         MarkThread, Finalize, FinTake, FinClear, FinClose, FinFree, Release
    <3>2. pc[cur] = "none"
      BY <1>0, <2>2 DEF Context
    <3> QED
      BY <1>0, <3>1, <3>2 DEF StartThread, Context, Live
  <2> QED
    BY <2>1, <2>2
<1>2. ASSUME UNCHANGED s, pc[Main] # "fin_close",
             \A fd \in FD : sockets'[fd] # Nobody => sockets[fd] # Nobody,
             \A p \in Procs : p # Main => reg'[p] = reg[p],
             pc[Main] \in Ending => pc'[Main] \in Ending /\ slot'[Main] = slot[Main],
             pc[Main] \in {"reserve", "close_old"} =>
                pc'[Main] \in {"reserve", "close_old"} /\ old_s' = old_s,
             pc[Main] \in Holding => pc'[Main] \in Holding /\ cs' = cs
      PROVE  SocketHeld'
  <2>1. \A p \in Procs : pc[p] = "fin_close" => pc'[p] = "fin_close" /\ reg'[p] = reg[p]
    BY <1>0, <1>1, <1>2 DEF Context
  <2> QED
    BY <1>1, <1>2, <2>1, SocketQuiet
<1>3. CASE MutexLock(Main, "lock", "select") \/ MutexLock(Main, "fail_lock", "fail_release")
           \/ MutexLock(Main, "fin_lock", "fin_take") \/ MutexLock(Main, "rel_lock", "rel")
  BY <1>0, <1>2, <1>3 DEF MutexLock, Context, Ending, Holding
<1>4. CASE Reconnect \/ TakeFreeSlot \/ Reject
  BY <1>0, <1>2, <1>4 DEF Reconnect, TakeFreeSlot, Reject, Choose, Context, Ending, Holding
<1>5. CASE Reserve \/ JoinOld \/ ReleaseFailed
  BY <1>0, <1>2, <1>5 DEF Reserve, JoinOld, ReleaseFailed, Context, Ending, Holding
<1>6. CASE MarkThread \/ Release(Main)
  BY <1>0, <1>2, <1>6 DEF MarkThread, Release, Context, Ending, Holding
<1>7. CASE FinTake(Main)
  BY <1>0, <1>2, <1>7 DEF FinTake, Context, Ending, Holding
<1>8. CASE FinClear(Main) \/ FinClose(Main)
  BY <1>0, <1>8, SocketFinClear, SocketFinClose
<1>9. CASE FinFree(Main)
  <2>1. /\ UNCHANGED <<s, reg>> /\ pc[Main] = "fin_free"
        /\ CloseFd(ro_file[slot[Main]]) /\ ro_file[slot[Main]] \in FD \cup {NO_SOCKET}
    BY <1>0, <1>9 DEF FinFree, Context
  <2>2. \A fd \in FD : sockets'[fd] # Nobody => sockets[fd] # Nobody
    BY <1>0, <2>1, CloseShrinks
  <2> QED
    BY <1>2, <2>1, <2>2 DEF Ending, Holding
<1>10. CASE TakeSocket
  <2>1. /\ pc[Main] = "take" /\ pc'[Main] = "reserve" /\ UNCHANGED <<sockets, slot, reg, cs, old_s>>
        /\ old_s = s[slot[Main]] /\ \A i \in Slots : i # slot[Main] => s'[i] = s[i]
    BY <1>0, <1>10 DEF TakeSocket, Context, FdInv, OldSocket
  <2> SUFFICES ASSUME NEW fd \in FD, sockets'[fd] # Nobody PROVE Held(fd)'
    BY DEF SocketHeld
  <2>2. Held(fd)
    BY <2>1 DEF SocketHeld
  <2>3. CASE fd = old_s
    BY <2>1, <2>3 DEF Held
  <2>4. CASE fd # old_s
    <3>1. \A c \in Conns : Live(c) /\ s[slot[c]] = fd => Live(c)' /\ s'[slot'[c]] = fd
      BY <1>0, <1>1, <2>1, <2>4 DEF Context
    <3> QED
      BY <1>0, <1>1, <2>1, <2>2, <2>4, <3>1 DEF Held, Ending, Holding, Context
  <2> QED
    BY <2>3, <2>4
<1>11. CASE CloseCs
  <2>1. /\ pc[Main] = "close_cs" /\ pc'[Main] = "accept" /\ UNCHANGED <<s, reg>>
        /\ cs \in FD \cup {NO_SOCKET} /\ CloseFd(cs)
    BY <1>0, <1>11 DEF CloseCs, Context
  <2>2. \A fd \in FD : sockets'[fd] = IF fd = cs THEN Nobody ELSE sockets[fd]
    BY <1>0, <2>1, CloseShrinks
  <2> SUFFICES ASSUME NEW fd \in FD, sockets'[fd] # Nobody PROVE Held(fd)'
    BY DEF SocketHeld
  <2>3. Held(fd) /\ fd # cs
    BY <2>2 DEF SocketHeld
  <2> QED
    BY <1>0, <1>1, <2>1, <2>3 DEF Held, Ending, Context
<1>12. CASE CloseOld
  <2>1. /\ pc[Main] = "close_old" /\ pc'[Main] = "join" /\ UNCHANGED <<s, reg, cs>>
        /\ old_s \in FD \cup {NO_SOCKET} /\ CloseFd(old_s)
    BY <1>0, <1>12 DEF CloseOld, ShutdownAndClose, Context
  <2>2. \A fd \in FD : sockets'[fd] = IF fd = old_s THEN Nobody ELSE sockets[fd]
    BY <1>0, <2>1, CloseShrinks
  <2> SUFFICES ASSUME NEW fd \in FD, sockets'[fd] # Nobody PROVE Held(fd)'
    BY DEF SocketHeld
  <2>3. Held(fd) /\ fd # old_s
    BY <2>2 DEF SocketHeld
  <2> QED
    BY <1>0, <1>1, <2>1, <2>3 DEF Held, Ending, Holding, Context
<1>13. CASE InitializeClient \/ AssignSocket
  <2>1. /\ pc[Main] \in {"init", "assign"}
        /\ pc[Main] = "init" => pc'[Main] \in {"assign", "fail_lock"}
        /\ pc[Main] = "assign" => pc'[Main] = "start" /\ s'[slot[Main]] = cs
        /\ UNCHANGED <<sockets, slot, reg, cs>>
        /\ \A i \in Slots : i # slot[Main] => s'[i] = s[i]
    BY <1>0, <1>13 DEF InitializeClient, AssignSocket, Context
  <2>2. \A c \in Conns : Live(c) => slot[c] # slot[Main]
    BY <1>0, <2>1 DEF Context, Emptied
  <2> SUFFICES ASSUME NEW fd \in FD, sockets'[fd] # Nobody PROVE Held(fd)'
    BY DEF SocketHeld
  <2>3. Held(fd)
    BY <2>1 DEF SocketHeld
  <2>4. \A c \in Conns : Live(c) /\ s[slot[c]] = fd => Live(c)' /\ s'[slot'[c]] = fd
    BY <1>0, <1>1, <2>1, <2>2 DEF Context
  <2> QED
    BY <1>0, <1>1, <2>1, <2>3, <2>4 DEF Held, Ending, Holding, Context
<1>14. CASE StartThread
  <2>1. pc[Main] = "start" /\ UNCHANGED <<s, sockets, reg, cur>> /\ cur \in Conns /\ cur # Main
    BY <1>0, <1>14 DEF StartThread, Context
  <2>2. CASE pc' = [pc EXCEPT ![Main] = "fin_lock"] /\ UNCHANGED slot
    <3>1. pc'[Main] = "fin_lock"
      BY <1>0, <2>2 DEF Context
    <3> QED
      BY <1>2, <2>1, <2>2, <3>1 DEF Ending, Holding
  <2>3. CASE /\ pc' = [pc EXCEPT ![Main] = "mark", ![cur] = "load_cmd"]
             /\ slot' = [slot EXCEPT ![cur] = slot[Main]]
    <3>1. Live(cur)' /\ slot'[cur] = slot[Main]
      BY <1>0, <2>1, <2>3 DEF Context, Live
    <3> SUFFICES ASSUME NEW fd \in FD, sockets'[fd] # Nobody PROVE Held(fd)'
      BY DEF SocketHeld
    <3>2. Held(fd)
      BY <2>1 DEF SocketHeld
    <3>3. CASE s[slot[Main]] = fd
      BY <2>1, <3>1, <3>3 DEF Held
    <3>4. CASE \E c \in Conns : Live(c) /\ s[slot[c]] = fd
      BY <1>1, <2>1, <3>4 DEF Held
    <3>5. CASE \E p \in Procs : pc[p] = "fin_close" /\ reg[p] = fd
      BY <1>0, <1>1, <2>1, <3>5 DEF Held, Context
    <3> QED
      BY <2>1, <3>2, <3>3, <3>4, <3>5 DEF Held, Holding
  <2> QED
    BY <1>14, <2>2, <2>3 DEF StartThread
<1> QED
  BY <1>3, <1>4, <1>5, <1>6, <1>7, <1>8, <1>9, <1>10, <1>11, <1>12, <1>13, <1>14 DEF MainStep, Finalize

LEMMA SocketStep == IndInv /\ TakenFrom /\ FdInv /\ SocketHeld /\ [Next]_vars => SocketHeld'
<1> SUFFICES ASSUME IndInv, TakenFrom, FdInv, SocketHeld, [Next]_vars PROVE SocketHeld'
  OBVIOUS
<1> USE IdAssumption
<1> USE DEF Goto, slotVars, kernelVars, netVars, procVars, mainVars
<1>0. Context /\ Main \in Procs
  BY ContextHolds DEF Context
<1>1. ASSUME NEW c \in Conns, Accept(c) PROVE SocketHeld'
  <2>1. /\ pc[Main] = "accept" /\ pc' = [pc EXCEPT ![Main] = "lock"] /\ UNCHANGED <<s, slot, reg>>
        /\ \E fd \in FD : sockets' = [sockets EXCEPT ![fd] = c] /\ cs' = fd
    BY <1>1 DEF Accept
  <2>2. /\ pc'[Main] = "lock" /\ \A d \in Conns : pc'[d] = pc[d] /\ (Live(d)' <=> Live(d))
    BY <1>0, <2>1 DEF Context, Live
  <2> SUFFICES ASSUME NEW fd \in FD, sockets'[fd] # Nobody PROVE Held(fd)'
    BY DEF SocketHeld
  <2>3. fd = cs' \/ (fd # cs' /\ sockets[fd] # Nobody)
    BY <1>0, <2>1 DEF Context
  <2> QED
    BY <1>0, <2>1, <2>2, <2>3 DEF SocketHeld, Held, Ending, Holding, Context
<1>2. CASE AcceptError
  <2>1. /\ pc[Main] = "accept" /\ pc'[Main] = "exited" /\ UNCHANGED <<s, sockets, slot, reg>>
        /\ \A p \in Procs : p # Main => pc'[p] = pc[p]
    BY <1>0, <1>2 DEF AcceptError, Context
  <2>2. \A c \in Conns : pc'[c] = pc[c] /\ (Live(c)' <=> Live(c))
    BY <1>0, <2>1 DEF Context, Live
  <2> QED
    BY <2>1, <2>2, SocketQuiet DEF Ending, Holding
<1>3. CASE UNCHANGED <<s, sockets, slot, reg, pc, cs, old_s>>
  BY <1>3, SocketQuiet DEF Live
<1> QED
  BY <1>0, <1>1, <1>2, <1>3, SocketThreadSteps, SocketMainSteps DEF Next, HangUp, Idle, vars

LEMMA SocketInit == Init => SocketHeld
BY DEF Init, SocketHeld

\* At most one of them will: the parts of FdInv tell whose socket each one
\* holds, and where that connection's thread is.
LEMMA OneHolder ==
    ASSUME IndInv, FdInv, NEW fd \in FD, sockets[fd] # Nobody,
           NEW h \in SocketHolders(fd), NEW k \in SocketHolders(fd)
    PROVE  h = k
<1> USE IdAssumption
<1>0. Context
  BY ContextHolds
<1> DEFINE d == sockets[fd]
           InSlot(x) == \E i \in Slots : s[i] = fd /\ InUse(i) /\ x = <<"slot", i>>
           InFin(x) == \E p \in Procs : pc[p] = "fin_close" /\ reg[p] = fd /\ x = <<"fin", p>>
           InOld(x) == pc[Main] \in {"reserve", "close_old"} /\ old_s = fd /\ x = <<"old", Main>>
           InCs(x) == pc[Main] \in Holding /\ cs = fd /\ x = <<"cs", Main>>
<1>1. d \in Conns /\ fd # NO_SOCKET /\ (pc[Main] \notin {"accept", "mark", "exited"} => pc[cur] = "none")
  BY <1>0 DEF Context
<1>2. ASSUME NEW x \in SocketHolders(fd) PROVE InSlot(x) \/ InFin(x) \/ InOld(x) \/ InCs(x)
  <2>1. CASE x \in {<<"slot", i>> : i \in {j \in Slots : s[j] = fd /\ InUse(j)}}
    BY <2>1
  <2>2. CASE x \in {<<"fin", p>> : p \in {q \in Procs : pc[q] = "fin_close" /\ reg[q] = fd}}
    BY <2>2
  <2>3. CASE x \in (IF pc[Main] \in {"reserve", "close_old"} /\ old_s = fd THEN {<<"old", Main>>} ELSE {})
    BY <2>3
  <2>4. CASE x \in (IF cs = fd /\ pc[Main] \in Holding THEN {<<"cs", Main>>} ELSE {})
    BY <2>4
  <2> QED
    BY <1>2, <2>1, <2>2, <2>3, <2>4 DEF SocketHolders, Holding
<1>3. ASSUME NEW i \in Slots, s[i] = fd, InUse(i)
      PROVE  \/ Live(d) /\ slot[d] = i
             \/ d = cur /\ pc[Main] \in Ending /\ slot[Main] = i
  BY <1>1, <1>3 DEF InUse, FdInv, SlotSocket, Ending
<1>4. ASSUME NEW p \in Procs, pc[p] = "fin_close", reg[p] = fd
      PROVE  \/ p = d /\ pc[d] = "fin_close" /\ s[slot[d]] = NO_SOCKET
             \/ p = Main /\ d = cur /\ pc[Main] = "fin_close"
  BY <1>0, <1>1, <1>4 DEF FdInv, Finalizing, Served, Cleared, Context
<1>5. ASSUME pc[Main] \in {"reserve", "close_old"}, old_s = fd
      PROVE  pc[d] # "none" /\ (Live(d) => s[slot[d]] = NO_SOCKET
                                   /\ (pc[d] \in {"fin_clear", "fin_close"} => reg[d] = NO_SOCKET))
  BY <1>1, <1>5 DEF FdInv, OldSocket
<1>6. ASSUME pc[Main] \in Holding, cs = fd PROVE d = cur /\ pc[d] = "none"
  BY <1>1, <1>6 DEF FdInv, CsOpen, Holding
<1> HIDE DEF d
<1>7. ASSUME InSlot(h) PROVE ~InFin(k) /\ ~InOld(k) /\ ~InCs(k) /\ (InSlot(k) => h = k)
  <2>1. PICK i \in Slots : s[i] = fd /\ InUse(i) /\ h = <<"slot", i>>
    BY <1>7
  <2>2. \/ Live(d) /\ slot[d] = i
        \/ d = cur /\ pc[Main] \in Ending /\ slot[Main] = i
    BY <1>3, <2>1
  <2>3. ~InFin(k)
    BY <1>1, <1>4, <2>1, <2>2 DEF Ending, Live
  <2>4. ~InOld(k)
    BY <1>1, <1>5, <2>1, <2>2 DEF Ending
  <2>5. ~InCs(k)
    BY <1>1, <1>6, <2>1, <2>2 DEF Ending, Live, Holding
  <2>6. ASSUME NEW j \in Slots, s[j] = fd, InUse(j) PROVE i = j
    BY <1>1, <1>3, <2>2, <2>6 DEF Ending, Live
  <2> QED
    BY <2>1, <2>3, <2>4, <2>5, <2>6
<1>8. ASSUME InFin(h) PROVE ~InSlot(k) /\ ~InOld(k) /\ ~InCs(k) /\ (InFin(k) => h = k)
  <2>1. PICK p \in Procs : pc[p] = "fin_close" /\ reg[p] = fd /\ h = <<"fin", p>>
    BY <1>8
  <2>2. \/ p = d /\ pc[d] = "fin_close" /\ s[slot[d]] = NO_SOCKET
        \/ p = Main /\ d = cur /\ pc[Main] = "fin_close"
    BY <1>4, <2>1
  <2>3. ~InSlot(k)
    BY <1>1, <1>3, <2>1, <2>2 DEF Ending, Live
  <2>4. ~InOld(k)
    BY <1>1, <1>5, <2>1, <2>2 DEF Live
  <2>5. ~InCs(k)
    BY <1>1, <1>6, <2>1, <2>2 DEF Holding
  <2>6. ASSUME NEW q \in Procs, pc[q] = "fin_close", reg[q] = fd PROVE p = q
    BY <1>1, <1>4, <2>2, <2>6
  <2> QED
    BY <2>1, <2>3, <2>4, <2>5, <2>6
<1>9. ASSUME InOld(h) PROVE ~InSlot(k) /\ ~InFin(k) /\ ~InCs(k)
  <2>1. /\ pc[Main] \in {"reserve", "close_old"} /\ pc[d] # "none"
        /\ Live(d) => s[slot[d]] = NO_SOCKET /\ (pc[d] \in {"fin_clear", "fin_close"} => reg[d] = NO_SOCKET)
    BY <1>5, <1>9
  <2>2. ~InSlot(k)
    BY <1>1, <1>3, <2>1 DEF Ending
  <2>3. ~InFin(k)
    BY <1>1, <1>4, <2>1 DEF Live
  <2>4. ~InCs(k)
    BY <1>6, <2>1
  <2> QED
    BY <2>2, <2>3, <2>4
<1>10. ASSUME InCs(h) PROVE ~InSlot(k) /\ ~InFin(k) /\ ~InOld(k)
  <2>1. pc[Main] \in Holding /\ d = cur /\ pc[d] = "none"
    BY <1>6, <1>10
  <2>2. ~InSlot(k)
    BY <1>1, <1>3, <2>1 DEF Ending, Live, Holding
  <2>3. ~InFin(k)
    BY <1>1, <1>4, <2>1 DEF Holding
  <2>4. ~InOld(k)
    BY <1>5, <2>1
  <2> QED
    BY <2>2, <2>3, <2>4
<1> QED
  BY <1>2, <1>7, <1>8, <1>9, <1>10

\* No socket and no file is leaked or closed twice over: whoever accepted,
\* opened, took over or gave up a descriptor, exactly one reference to an open
\* socket and at least one to an open file remain, in the table or with a
\* thread about to close it.
THEOREM NoDescriptorIsLeaked == Spec => []NoDescriptorLeak
<1>1. IndInv /\ FdInv /\ SocketHeld /\ FileHeld => NoDescriptorLeak
  <2> SUFFICES ASSUME IndInv, FdInv, SocketHeld, FileHeld PROVE NoDescriptorLeak
    OBVIOUS
  <2>0. Context
    BY ContextHolds
  <2>1. ASSUME NEW fd \in FD, sockets[fd] # Nobody PROVE \E h : h \in SocketHolders(fd)
    <3>1. Held(fd)
      BY <2>1 DEF SocketHeld
    <3>2. CASE \E i \in Slots : s[i] = fd /\ InUse(i)
      BY <3>2 DEF SocketHolders
    <3>3. CASE \E p \in Procs : pc[p] = "fin_close" /\ reg[p] = fd
      BY <3>3 DEF SocketHolders
    <3>4. CASE pc[Main] \in {"reserve", "close_old"} /\ old_s = fd
      BY <3>4 DEF SocketHolders
    <3>5. CASE pc[Main] \in Holding /\ cs = fd
      BY <3>5 DEF SocketHolders, Holding
    <3>6. CASE \E c \in Conns : Live(c) /\ s[slot[c]] = fd
      BY <2>0, <3>2, <3>6 DEF InUse, Context
    <3>7. CASE pc[Main] \in Ending /\ s[slot[Main]] = fd
      BY <2>0, <3>2, <3>7 DEF InUse, Context, Ending
    <3> QED
      BY <3>1, <3>3, <3>4, <3>5, <3>6, <3>7 DEF Held
  <2>2. ASSUME NEW fd \in FD, sockets[fd] # Nobody
        PROVE  \E h \in SocketHolders(fd) : SocketHolders(fd) = {h}
    <3>1. PICK h : h \in SocketHolders(fd)
      BY <2>1, <2>2
    <3>2. \A k \in SocketHolders(fd) : h = k
      BY <2>2, <3>1, OneHolder
    <3> QED
      BY <3>1, <3>2
  <2> QED
    BY <2>2 DEF NoDescriptorLeak, FileHeld
<1> QED
  BY <1>1, FileInit, FileStep, SocketInit, SocketStep, FdInvAlways, PTL DEF Spec
-----------------------------------------------------------------------------
(* Who shuts a connection down *)

\* The connection whose socket the accept loop takes comes from the address
\* of the connection it takes it for.
Successor ==
    /\ pc[Main] = "take" => ip_addr[slot[Main]] = IpOf[cur]
    /\ pc[Main] \in {"reserve", "close_old"} /\ old_s # NO_SOCKET => IpOf[sockets[old_s]] = IpOf[cur]

LEMMA SuccessorStep == IndInv /\ TakenFrom /\ FdInv /\ Successor /\ [Next]_vars => Successor'
<1> SUFFICES ASSUME IndInv, TakenFrom, FdInv, Successor, [Next]_vars PROVE Successor'
  OBVIOUS
<1> USE IdAssumption
<1> USE DEF Goto, slotVars, kernelVars, netVars, procVars, mainVars
<1>0. Context /\ Main \in Procs /\ FdInv'
  BY ContextHolds, FdStep DEF Context
<1>1. ASSUME NEW c \in Conns, ThreadStep(c) \/ RecvOk(c) \/ SendOk(c) PROVE Successor'
  <2>1. UNCHANGED <<slot, ip_addr, thread, cur, old_s, old_thread>> /\ pc'[Main] = pc[Main]
    BY <1>0, <1>1, ThreadFrame DEF Context
  <2>2. ASSUME pc[Main] \in {"reserve", "close_old"}, old_s # NO_SOCKET
        PROVE  sockets'[old_s] = sockets[old_s]
    BY <1>0, <2>1, <2>2 DEF FdInv, OldSocket
  <2> QED
    BY <2>1, <2>2 DEF Successor
<1>2. CASE Reconnect
  BY <1>0, <1>2 DEF Reconnect, Choose, First, SameClient, Successor, Context
<1>3. CASE TakeFreeSlot
  BY <1>0, <1>3 DEF TakeFreeSlot, Choose, Successor, Context
<1>4. CASE TakeSocket
  <2>1. /\ pc[Main] = "take" /\ pc'[Main] = "reserve" /\ UNCHANGED <<sockets, old_s, cur>>
        /\ old_s = s[slot[Main]]
    BY <1>0, <1>4 DEF TakeSocket, Context, FdInv, OldSocket
  <2>2. PICK c \in Conns : Live(c) /\ slot[c] = slot[Main]
    BY <2>1 DEF TakenFrom
  <2>3. ip_addr[slot[Main]] = IpOf[c] /\ (old_s # NO_SOCKET => sockets[old_s] = c)
    BY <2>1, <2>2 DEF IndInv, SlotInv, Owns, FdInv, SlotSocket
  <2> QED
    BY <2>1, <2>3 DEF Successor
<1>5. CASE Reserve
  BY <1>0, <1>5 DEF Reserve, Successor, Context
<1>6. CASE StartThread
  <2>1. pc'[Main] \in {"mark", "fin_lock"}
    BY <1>0, <1>6 DEF StartThread, Context
  <2> QED
    BY <2>1 DEF Successor
<1>7. CASE Finalize(Main)
  BY <1>0, <1>7 DEF Finalize, MutexLock, FinTake, FinClear, FinClose, FinFree, Release, Successor, Context
<1>8. CASE \/ MutexLock(Main, "lock", "select") \/ MutexLock(Main, "fail_lock", "fail_release")
           \/ Reject \/ CloseCs \/ CloseOld \/ JoinOld
  BY <1>0, <1>8 DEF MutexLock, Reject, CloseCs, CloseOld, JoinOld, Successor, Context
<1>9. CASE InitializeClient \/ ReleaseFailed \/ AssignSocket \/ MarkThread
  BY <1>0, <1>9 DEF InitializeClient, ReleaseFailed, AssignSocket, MarkThread, Successor, Context
<1>10. CASE AcceptError \/ \E c \in Conns : Accept(c)
  BY <1>0, <1>10 DEF AcceptError, Accept, Successor, Context
<1>11. CASE UNCHANGED <<pc, slot, ip_addr, cur, old_s, sockets>>
  BY <1>11 DEF Successor
<1> QED
  BY <1>1, <1>2, <1>3, <1>4, <1>5, <1>6, <1>7, <1>8, <1>9, <1>10, <1>11
     DEF Next, MainStep, HangUp, Idle, vars

LEMMA SuccessorInit == Init => Successor
BY DEF Init, Successor, Procs

\* shutdown() is called by finalize_client() on the connection of the thread
\* that runs it, or of the thread that could not be started, and by the accept
\* loop on the connection that a newer one from the same address replaces.
LEMMA ShutdownStep ==
    ASSUME IndInv, FdInv, Successor, Next, NEW c \in shut' \ shut
    PROVE  \/ pc[c] = "fin_close"
           \/ cur # c /\ IpOf[cur] = IpOf[c]
           \/ cur = c /\ ~Live(c)
<1> USE IdAssumption
<1> USE DEF slotVars, kernelVars, netVars, procVars, mainVars
<1>0. Context
  BY ContextHolds
<1>1. ASSUME NEW p \in Procs, FinClose(p) PROVE c = Served(p) /\ pc[p] = "fin_close"
  BY <1>1 DEF FinClose, ShutdownAndClose, FdInv, Finalizing
<1>2. ASSUME CloseOld PROVE cur # c /\ IpOf[cur] = IpOf[c]
  <2>1. pc[Main] = "close_old" /\ old_s # NO_SOCKET /\ c = sockets[old_s]
    BY <1>2 DEF CloseOld, ShutdownAndClose
  <2> QED
    BY <1>0, <2>1 DEF Context, FdInv, OldSocket, Successor
<1>3. CASE \E p \in Procs : FinClose(p)
  <2>1. PICK p \in Procs : FinClose(p)
    BY <1>3
  <2>2. CASE p = Main
    BY <1>0, <1>1, <2>1, <2>2 DEF Served, Live, Context
  <2>3. CASE p # Main
    BY <1>1, <2>1, <2>3 DEF Served
  <2> QED
    BY <2>2, <2>3
<1>4. ASSUME NEW d \in Conns, ThreadStep(d) \/ RecvOk(d) \/ SendOk(d) PROVE FinClose(d)
  BY <1>0, <1>4, ThreadKeeps DEF HandleOpen, FinClear, FinFree, Release
<1>5. ASSUME MainStep PROVE FinClose(Main) \/ CloseOld
  BY <1>5 DEF MainStep, MutexLock, Reconnect, TakeSocket, TakeFreeSlot, Reject, Choose,
     Reserve, CloseCs, JoinOld, InitializeClient, ReleaseFailed, AssignSocket, StartThread,
     MarkThread, Finalize, FinTake, FinClear, FinFree, Release
<1>6. ~(AcceptError \/ Idle \/ \E d \in Conns : Accept(d) \/ HangUp(d))
  BY DEF AcceptError, Idle, Accept, HangUp, vars
<1> QED
  BY <1>0, <1>2, <1>3, <1>4, <1>5, <1>6 DEF Next, Context

\* No step of any thread ends a bystander's session: descriptor numbers are
\* never recycled between the decision to shut a connection down and the call.
THEOREM OnlySelfOrSuccessorShutsDown == Spec => ShutDownBySelfOrSuccessor
<1>1. IndInv /\ FdInv /\ Successor /\ [Next]_vars =>
        [\A c \in shut' \ shut :
            \/ pc[c] = "fin_close"
            \/ cur # c /\ IpOf[cur] = IpOf[c]
            \/ cur = c /\ ~Live(c)]_vars
  BY ShutdownStep
<1>2. Spec => []Successor
  BY SuccessorInit, SuccessorStep, FdInvAlways, PTL DEF Spec
<1> QED
  BY <1>1, <1>2, FdInvAlways, PTL DEF Spec, ShutDownBySelfOrSuccessor
=============================================================================
