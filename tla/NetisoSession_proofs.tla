----------------------- MODULE NetisoSession_proofs -----------------------
(***************************************************************************)
(* Proofs about NetisoSession, for any paths, buffer size and bounds.      *)
(***************************************************************************)
EXTENDS NetisoSession, TLAPS

\* Every object made for a field of client_t is in that field.
Owned ==
    /\ live \in [Fields -> Int]
    /\ live["ro_file"] = Del(ro_file) /\ live["wo_file"] = Del(wo_file)
    /\ live["dir"] = DelDir /\ live["dirpath"] = Del(dirpath)
    /\ dir \in Int
    /\ dir # NONE => dirpath # Null /\ dir >= 0
    /\ phase = "ended" => ro_file = Null /\ wo_file = Null /\ dir = NONE /\ dirpath = Null

LEMMA OwnedInit == Init => Owned
BY DEF Init, Owned, Del, DelDir, NONE, Fields

LEMMA OwnedStep == Owned /\ [Next]_vars => Owned'
<1> SUFFICES ASSUME Owned, [Next]_vars PROVE Owned'
  OBVIOUS
<1> USE PathAssumption, BufferAssumption
<1> USE DEF Owned, fileVars, dirVars, Del, DelDir, NONE, Fields
<1>1. ASSUME phase' # "ended", UNCHANGED <<fileVars, dirVars, live>> PROVE Owned'
  BY <1>1
<1>2. ASSUME NEW a, NEW r, Finish(a, r) PROVE phase' # "ended"
  BY <1>2 DEF Finish
<1>3. ASSUME Drop PROVE phase' # "ended"
  BY <1>3 DEF Drop
<1>4. CASE Open
  BY <1>1, <1>2, <1>4 DEF Open, Consume
<1>5. CASE Create
  BY <1>1, <1>2, <1>3, <1>5 DEF Create, Consume
<1>6. CASE OpenDir
  BY <1>1, <1>2, <1>3, <1>6 DEF OpenDir, Consume
<1>7. CASE ReadDirEntry
  BY <1>1, <1>2, <1>7 DEF ReadDirEntry, Consume
<1>8. CASE ReadDir
  BY <1>1, <1>2, <1>8 DEF ReadDir, Consume
<1>9. CASE ReadFileCritical \/ ReadCd2048Critical \/ ReadFile \/ WriteFile \/ Unknown
  BY <1>1, <1>2, <1>3, <1>9 DEF ReadFileCritical, ReadCd2048Critical, ReadFile, WriteFile, Unknown
<1>10. ASSUME NEW op, PathCommand(op) PROVE Owned'
  BY <1>1, <1>2, <1>3, <1>10 DEF PathCommand
<1>11. CASE FinalizeClient
  BY <1>11 DEF FinalizeClient
<1>12. ASSUME NEW r \in Requests, Request(r) PROVE Owned'
  BY <1>1, <1>12 DEF Request
<1>13. CASE HangUp \/ Receive \/ EndOfStream
  BY <1>1, <1>13 DEF HangUp, Receive, EndOfStream
<1>14. CASE Ended \/ UNCHANGED vars
  BY <1>14 DEF Ended, vars
<1> QED
  BY <1>4, <1>5, <1>6, <1>7, <1>8, <1>9, <1>10, <1>11, <1>12, <1>13, <1>14
     DEF Next, Handle, DeleteFile, Mkdir, Rmdir, Stat, GetDirSize

\* Whatever fails in a handler, no file, directory stream or path is leaked,
\* deleted twice or left behind by finalize_client().
THEOREM ObjectsAreOwned == Spec => []ObjectsOwned
<1>1. Owned => ObjectsOwned
  BY DEF Owned, ObjectsOwned, Del, DelDir, Fields
<1> QED
  BY <1>1, OwnedInit, OwnedStep, PTL DEF Spec

-----------------------------------------------------------------------------
\* What is on the wire in each phase.
Wire ==
    /\ req \in Requests /\ hungup \in BOOLEAN
    /\ inbox \in Int
    /\ phase = "idle" => inbox = 0
    /\ phase = "request" => inbox = 1 + (IF hungup THEN 0 ELSE Payload(req))
    /\ phase = "request" /\ hungup => Payload(req) > 0
    /\ WireAligned

LEMMA PayloadFacts ==
    ASSUME NEW r \in Requests
    PROVE  /\ Payload(r) \in Nat
           /\ r.op \in PathOps => Payload(r) = IF r.path = NoPath THEN 0 ELSE 1
           /\ r.op = "write" => Payload(r) = r.len
           /\ r.op \notin PathOps \cup {"write"} => Payload(r) = 0
           /\ r.len \in Nat
BY BufferAssumption DEF Requests, Payload, PathOps, ReadOps, DirOps, MaxLen

\* The console's rule for each answer that may have something behind it.
LEMMA ExpectedFacts ==
    ASSUME NEW r, NEW a
    PROVE  /\ r.op = "read" => Expected(r, a) = IF a.value > 0 THEN a.value ELSE 0
           /\ r.op = "read_dir_entry" =>
                 Expected(r, a) = IF a.value = NONE THEN 0 ELSE a.len
BY DEF Expected

LEMMA WireInit == Init => Wire
<1> SUFFICES ASSUME Init PROVE Wire
  OBVIOUS
<1>1. [op |-> "unknown", path |-> NoPath, len |-> 0]
         \in [op : DirOps \cup {"unknown"}, path : {NoPath}, len : {0}]
  OBVIOUS
<1>2. req \in Requests
  BY <1>1 DEF Init, Requests
<1>3. hungup \in BOOLEAN /\ ~hungup /\ phase = "idle"
  BY DEF Init
<1>4. inbox \in Int /\ inbox = 0
  BY DEF Init
<1> QED
  BY <1>2, <1>3, <1>4 DEF Wire, WireAligned

LEMMA WireStep == Wire /\ [Next]_vars => Wire'
<1> SUFFICES ASSUME Wire, [Next]_vars PROVE Wire'
  OBVIOUS
<1> USE PathAssumption, NamesAssumption, BufferAssumption
<1> DEFINE Aligned(answer) ==
              /\ inbox' = 0
              /\ answer.head = (req.op \notin {"read_critical", "read_cd"})
              /\ answer.body = Expected(req, answer) \/ NamelessEntry(req, answer)
<1>1. ASSUME UNCHANGED <<req, hungup>>, inbox' \in Int, phase' \in {"reply", "failed", "ended"},
             phase' = "reply" => Aligned(reply')
      PROVE  Wire'
  BY <1>1 DEF Wire, WireAligned
<1>2. ASSUME NEW a, NEW r \in {SUCCEEDED, FAILED}, Finish(a, r), UNCHANGED <<req, hungup>>,
             inbox' \in Int, r = SUCCEEDED => Aligned(a)
      PROVE  Wire'
  BY <1>1, <1>2 DEF Finish, SUCCEEDED, FAILED
<1>3. ASSUME Drop, UNCHANGED <<req, hungup>>, inbox' \in Int PROVE Wire'
  BY <1>1, <1>3 DEF Drop
<1>4. /\ Payload(req) \in Nat /\ req.len \in Nat
      /\ phase = "request" => inbox = 1 + (IF hungup THEN 0 ELSE Payload(req))
      /\ inbox \in Int
  BY PayloadFacts DEF Wire
<1>5. ASSUME NEW n \in Int, Consume(n) PROVE inbox' \in Int /\ inbox' = inbox - 1 - n
  BY <1>4, <1>5 DEF Consume
<1>6. ASSUME NEW n, req.op \in PathOps PROVE inbox' = 0 => Aligned(Result(n))
  BY <1>6 DEF Result, Answer, Expected, PathOps
<1>7. CASE Open
  <2>1. CASE Consume(0) /\ Finish(Result(NONE), FAILED)
    BY <1>2, <1>5, <1>7, <2>1 DEF Open, SUCCEEDED, FAILED
  <2>2. CASE /\ Consume(1) /\ ~hungup /\ req.path # NoPath
             /\ \E n : Finish(Result(n), SUCCEEDED) \/ Finish(Result(n), FAILED)
    <3>1. inbox' = 0
      BY <1>4, <1>5, <1>7, <2>2, PayloadFacts DEF Open, Handling, PathOps, Wire
    <3> QED
      BY <1>2, <1>6, <1>7, <2>2, <3>1 DEF Open, Handling, PathOps
  <2> QED
    BY <1>7, <2>1, <2>2 DEF Open, NotReceived
<1>8. CASE Create
  <2>1. CASE Consume(0) /\ Finish(Result(NONE), FAILED)
    BY <1>2, <1>5, <1>8, <2>1 DEF Create, SUCCEEDED, FAILED
  <2>2. CASE Consume(Payload(req)) /\ Finish(Result(NONE), FAILED)
    BY <1>2, <1>4, <1>5, <1>8, <2>2 DEF Create, SUCCEEDED, FAILED
  <2>3. CASE /\ Consume(1) /\ ~hungup /\ req.path \in Paths
             /\ \E n : Finish(Result(n), SUCCEEDED) \/ Finish(Result(n), FAILED)
    <3>1. inbox' = 0
      BY <1>4, <1>5, <1>8, <2>3, PayloadFacts DEF Create, Handling, PathOps, Wire
    <3> QED
      BY <1>2, <1>6, <1>8, <2>3, <3>1 DEF Create, Handling, PathOps
  <2>4. CASE Consume(0) /\ Drop
    BY <1>3, <1>5, <1>8, <2>4 DEF Create
  <2> QED
    BY <1>8, <2>1, <2>2, <2>3, <2>4 DEF Create, NotReceived
<1>9. ASSUME NEW op \in PathOps, PathCommand(op) PROVE Wire'
  <2>1. CASE Drop
    BY <1>3, <1>4, <1>5, <1>9, <2>1 DEF PathCommand
  <2>2. CASE /\ Consume(1) /\ ~hungup /\ req.path \in Paths
             /\ \E n : Finish(Result(n), SUCCEEDED)
    <3>1. inbox' = 0
      BY <1>4, <1>5, <1>9, <2>2, PayloadFacts DEF PathCommand, Handling, Wire
    <3> QED
      BY <1>2, <1>6, <1>9, <2>2, <3>1 DEF PathCommand, Handling
  <2> QED
    BY <1>9, <2>1, <2>2 DEF PathCommand, NotReceived
<1>10. CASE OpenDir
  <2>1. CASE Drop
    BY <1>3, <1>4, <1>5, <1>10, <2>1 DEF OpenDir
  <2>2. CASE /\ Consume(1) /\ ~hungup /\ req.path \in Paths
             /\ \E n : Finish(Result(n), SUCCEEDED)
    <3>1. inbox' = 0
      BY <1>4, <1>5, <1>10, <2>2, PayloadFacts DEF OpenDir, Handling, PathOps, Wire
    <3> QED
      BY <1>2, <1>6, <1>10, <2>2, <3>1 DEF OpenDir, Handling, PathOps
  <2> QED
    BY <1>10, <2>1, <2>2 DEF OpenDir, NotReceived
<1>11. CASE WriteFile
  <2>1. CASE Consume(0) /\ Finish(Result(NONE), FAILED)
    BY <1>2, <1>5, <1>11, <2>1 DEF WriteFile, SUCCEEDED, FAILED
  <2>2. CASE /\ Consume(req.len) /\ ~hungup
             /\ \E n : Finish(Result(n), SUCCEEDED) \/ Finish(Result(n), FAILED)
    <3>1. inbox' = 0
      BY <1>4, <1>5, <1>11, <2>2, PayloadFacts DEF WriteFile, Handling, Wire
    <3>2. \A n : Aligned(Result(n))
      BY <1>11, <3>1 DEF WriteFile, Handling, Result, Answer, Expected
    <3> QED
      BY <1>2, <1>11, <2>2, <3>1, <3>2 DEF WriteFile
  <2> QED
    BY <1>11, <2>1, <2>2 DEF WriteFile
<1>12. ASSUME phase = "request", req.op \notin PathOps \cup {"write"}, Consume(0) PROVE inbox' = 0 /\ ~hungup
  BY <1>4, <1>5, <1>12, PayloadFacts DEF Wire
<1>13. CASE ReadFileCritical
  <2>1. inbox' = 0
    BY <1>12, <1>13 DEF ReadFileCritical, Handling, PathOps
  <2>2. phase' = "reply" => reply' = Data(req.len)
    BY <1>13 DEF ReadFileCritical
  <2>3. Aligned(Data(req.len))
    BY <1>13, <2>1 DEF ReadFileCritical, Handling, Data, Expected
  <2> QED
    BY <1>1, <1>13, <2>1, <2>2, <2>3 DEF ReadFileCritical
<1>14. CASE ReadCd2048Critical
  <2>1. inbox' = 0
    BY <1>12, <1>14 DEF ReadCd2048Critical, Handling, PathOps
  <2>2. Aligned(Data(req.len))
    BY <1>14, <2>1 DEF ReadCd2048Critical, Handling, Data, Expected
  <2> QED
    BY <1>2, <1>3, <1>14, <2>1, <2>2 DEF ReadCd2048Critical
<1>15. CASE ReadFile
  <2>1. inbox' = 0
    BY <1>12, <1>15 DEF ReadFile, Handling, PathOps
  <2>2. req.op = "read"
    BY <1>15 DEF ReadFile, Handling
  <2>3. ASSUME NEW value \in Int, NEW n \in Nat, n = IF value > 0 THEN value ELSE 0
        PROVE  Aligned(Answer(value, n, n))
    <3> DEFINE a == Answer(value, n, n)
    <3>1. a.head = (req.op \notin {"read_critical", "read_cd"})
      BY <2>2 DEF Answer
    <3>2. a.value = value /\ a.body = n
      BY DEF Answer
    <3>3. Expected(req, a) = IF a.value > 0 THEN a.value ELSE 0
      BY <2>2, ExpectedFacts
    <3> HIDE DEF a
    <3>4. a.body = Expected(req, a)
      BY <2>3, <3>2, <3>3
    <3> QED
      BY <2>1, <3>1, <3>4 DEF a
  <2>4. Aligned(Result(NONE)) /\ \A n \in 0 .. req.len : Aligned(Answer(n, n, n))
    <3> HIDE DEF Aligned
    <3> QED
      BY <1>4, <2>3 DEF Result, NONE
  <2> QED
    BY <1>2, <1>15, <2>1, <2>4 DEF ReadFile
<1>16. CASE ReadDirEntry
  <2>1. inbox' = 0
    BY <1>12, <1>16 DEF ReadDirEntry, Handling, PathOps
  <2>2. req.op = "read_dir_entry"
    BY <1>16 DEF ReadDirEntry, Handling
  <2>3. ASSUME NEW value \in {0, NONE}, NEW n, value = NONE => n = 0
        PROVE  Aligned(Answer(value, n, n))
    <3> DEFINE a == Answer(value, n, n)
    <3>1. a.head = (req.op \notin {"read_critical", "read_cd"})
      BY <2>2 DEF Answer
    <3>2. a.value = value /\ a.body = n /\ a.len = n
      BY DEF Answer
    <3>3. Expected(req, a) = IF a.value = NONE THEN 0 ELSE a.len
      BY <2>2, ExpectedFacts
    <3> HIDE DEF a
    <3>4. a.body = Expected(req, a)
      BY <2>3, <3>2, <3>3
    <3> QED
      BY <2>1, <3>1, <3>4 DEF a
  <2>4. Aligned(Result(NONE)) /\ \A n : Aligned(Answer(0, n, n))
    <3> HIDE DEF Aligned
    <3> QED
      BY <2>3 DEF Result, NONE
  <2>5. ASSUME MallocMayFail, NEW n PROVE Aligned(Answer(0, 0, n))
    BY <2>1, <2>2, <2>5 DEF Answer, NamelessEntry
  <2> QED
    BY <1>2, <1>16, <2>1, <2>4, <2>5 DEF ReadDirEntry
<1>17. CASE ReadDir
  <2>1. inbox' = 0
    BY <1>12, <1>17 DEF ReadDir, Handling, PathOps
  <2>2. Aligned(Result(0)) /\ \A n \in 0 .. MaxEntries : Aligned(Answer(n, n, n))
    BY <1>17, <2>1 DEF ReadDir, Handling, Result, Answer, Expected
  <2> QED
    BY <1>2, <1>17, <2>1, <2>2 DEF ReadDir
<1>18. CASE Unknown
  BY <1>3, <1>12, <1>18 DEF Unknown, Handling, PathOps
<1>19. ASSUME NEW r \in Requests, Request(r) PROVE Wire'
  <2>1. inbox = 0 /\ Payload(r) \in Nat
    BY <1>19, PayloadFacts DEF Request, Wire
  <2>2. req' \in Requests /\ hungup' \in BOOLEAN /\ phase' = "request"
    BY <1>19 DEF Request
  <2>3. CASE inbox' = inbox + 1 + Payload(r) /\ hungup' = FALSE
    BY <1>19, <2>1, <2>2, <2>3 DEF Request, Wire, WireAligned, Payload
  <2>4. CASE Payload(r) > 0 /\ inbox' = inbox + 1 /\ hungup' = TRUE
    BY <1>19, <2>1, <2>2, <2>4 DEF Request, Wire, WireAligned, Payload
  <2> QED
    BY <1>19, <2>3, <2>4 DEF Request
<1>20. CASE HangUp
  BY <1>20 DEF HangUp, Wire, WireAligned
<1>21. CASE Receive
  BY <1>21 DEF Receive, Wire, WireAligned
<1>22. CASE EndOfStream \/ FinalizeClient
  BY <1>22 DEF EndOfStream, FinalizeClient, Wire, WireAligned
<1>23. CASE Ended \/ UNCHANGED vars
  BY <1>23 DEF Ended, vars, Wire, WireAligned
<1> QED
  BY <1>7, <1>8, <1>9, <1>10, <1>11, <1>13, <1>14, <1>15, <1>16, <1>17, <1>18, <1>19, <1>20, <1>21, <1>22, <1>23
     DEF Next, Handle, DeleteFile, Mkdir, Rmdir, Stat, GetDirSize, PathOps

\* No handler that keeps the connection leaves the two ends of the stream out
\* of step, but for the entry without a name of READ_DIR_ENTRY.
THEOREM WireStaysAligned == Spec => []WireAligned
<1>1. Wire => WireAligned
  BY DEF Wire
<1> QED
  BY <1>1, WireInit, WireStep, PTL DEF Spec

-----------------------------------------------------------------------------
\* What the console will know after an answer is what the session's fields
\* hold already.
Answered ==
    /\ ro_file = IF req.op # "open" THEN view.ro_file
                 ELSE IF reply.value = NONE THEN Null ELSE req.path
    /\ wo_file = IF req.op # "create" THEN view.wo_file
                 ELSE IF reply.value = NONE THEN Null ELSE req.path
    /\ req.op = "open_dir" => (reply.value # NONE => dir # NONE /\ dirpath = req.path)
    /\ \/ req.op \in {"open_dir", "read_dir"}
       \/ req.op = "read_dir_entry" /\ reply.value = NONE
       \/ view.dirpath # Null => dir # NONE /\ dirpath = view.dirpath

Replies == [head : BOOLEAN, value : Int, len : Nat, body : Nat, sent : BOOLEAN]

\* The part of the types that Owned and Wire do not give, and agreement from
\* the moment a handler has decided what to answer.
Agreed ==
    /\ ro_file \in Paths \cup {Null} /\ wo_file \in Paths \cup {Null}
    /\ dir \in -1 .. MaxEntries /\ dirpath \in Paths \cup {Null}
    /\ phase \in {"idle", "request", "reply", "failed", "ended"}
    /\ inbox \in Nat /\ reply \in Replies
    /\ view \in [ro_file : Paths \cup {Null}, wo_file : Paths \cup {Null}, dirpath : Paths \cup {Null}]
    /\ phase \in {"idle", "request"} =>
          /\ view.ro_file = ro_file /\ view.wo_file = wo_file
          /\ view.dirpath # Null => dir # NONE /\ dirpath = view.dirpath
    /\ phase = "reply" => Answered

LEMMA AgreedInit == Init => Agreed
BY BufferAssumption DEF Init, Agreed, Replies, NoReply, NONE

\* The console draws from an answer the conclusion that the fields bear out.
LEMMA AgreedReceive == ASSUME Agreed, Receive PROVE Agreed'
<1>1. /\ phase = "reply" /\ phase' = "idle" /\ Answered
      /\ UNCHANGED <<ro_file, wo_file, dir, dirpath, req, inbox, reply>>
  BY DEF Receive, Agreed, fileVars, dirVars
<1>2. view \in [ro_file : Paths \cup {Null}, wo_file : Paths \cup {Null}, dirpath : Paths \cup {Null}]
  BY DEF Agreed
<1>3. ASSUME view' \in [ro_file : Paths \cup {Null}, wo_file : Paths \cup {Null}, dirpath : Paths \cup {Null}],
             view'.ro_file = ro_file, view'.wo_file = wo_file,
             view'.dirpath # Null => dir # NONE /\ dirpath = view'.dirpath
      PROVE  Agreed'
  BY <1>1, <1>3 DEF Agreed
<1>4. CASE req.op = "open"
  <2>1. view' = [view EXCEPT !.ro_file = IF reply.value = NONE THEN Null ELSE req.path]
    BY <1>4 DEF Receive
  <2> QED
    BY <1>1, <1>2, <1>3, <1>4, <2>1 DEF Answered, Agreed
<1>5. CASE req.op = "create"
  <2>1. view' = [view EXCEPT !.wo_file = IF reply.value = NONE THEN Null ELSE req.path]
    BY <1>5 DEF Receive
  <2> QED
    BY <1>1, <1>2, <1>3, <1>5, <2>1 DEF Answered, Agreed
<1>6. CASE req.op = "open_dir"
  <2>1. view' = [view EXCEPT !.dirpath = IF reply.value = NONE THEN Null ELSE req.path]
    BY <1>6 DEF Receive
  <2> QED
    BY <1>1, <1>2, <1>3, <1>6, <2>1 DEF Answered, Agreed
<1>7. CASE req.op = "read_dir" \/ (req.op = "read_dir_entry" /\ reply.value = NONE)
  <2>1. view' = [view EXCEPT !.dirpath = Null]
    BY <1>7 DEF Receive
  <2> QED
    BY <1>1, <1>2, <1>3, <1>7, <2>1 DEF Answered, Agreed
<1>8. CASE req.op \notin {"open", "create", "open_dir", "read_dir"} /\ ~(req.op = "read_dir_entry" /\ reply.value = NONE)
  <2>1. view' = view
    BY <1>8 DEF Receive
  <2> QED
    BY <1>1, <1>2, <1>3, <1>8, <2>1 DEF Answered, Agreed
<1> QED
  BY <1>4, <1>5, <1>6, <1>7, <1>8

LEMMA AgreedHandle == ASSUME Owned, Wire, Agreed, Handle PROVE Agreed'
<1> USE PathAssumption, NamesAssumption, BufferAssumption
<1> USE DEF fileVars, dirVars
<1>0. /\ phase = "request" /\ req \in Requests /\ Payload(req) \in Nat /\ req.len \in Nat
      /\ inbox = 1 + (IF hungup THEN 0 ELSE Payload(req))
      /\ view.ro_file = ro_file /\ view.wo_file = wo_file
      /\ view.dirpath # Null => dir # NONE /\ dirpath = view.dirpath
  <2>1. phase = "request"
    BY DEF Handle, Open, ReadFileCritical, ReadCd2048Critical, ReadFile, Create, WriteFile, DeleteFile,
       Mkdir, Rmdir, Stat, GetDirSize, PathCommand, OpenDir, ReadDirEntry, ReadDir, Unknown, Handling
  <2> QED
    BY <2>1, PayloadFacts DEF Wire, Agreed
<1>1. ASSUME NEW n \in Nat, Consume(n), n <= IF hungup THEN 0 ELSE Payload(req) PROVE inbox' \in Nat
  BY <1>0, <1>1 DEF Consume
<1>2. ASSUME ro_file' \in Paths \cup {Null}, wo_file' \in Paths \cup {Null},
             dir' \in -1 .. MaxEntries, dirpath' \in Paths \cup {Null},
             inbox' \in Nat, reply' \in Replies, phase' \in {"reply", "failed"}, view' = view,
             phase' = "reply" => Answered'
      PROVE  Agreed'
  BY <1>2 DEF Agreed
<1>3. ASSUME NEW a \in Replies, NEW r, Finish(a, r)
      PROVE  /\ reply' \in Replies /\ phase' \in {"reply", "failed"}
             /\ phase' = "reply" => reply' = a /\ r = SUCCEEDED
  BY <1>3 DEF Finish, Replies
<1>4. ASSUME Drop PROVE reply' \in Replies /\ phase' = "failed"
  BY <1>4 DEF Drop, NoReply, Replies, NONE
<1>5. /\ \A n \in Nat : Answer(n, n, n) \in Replies /\ Answer(n, n, n).value = n
      /\ \A n \in Nat : Answer(0, 0, n) \in Replies /\ Answer(0, 0, n).value = 0
      /\ \A n \in Nat : Answer(0, n, n) \in Replies /\ Answer(0, n, n).value = 0
      /\ \A n \in Nat : Data(n) \in Replies /\ Data(n).value = 0
      /\ \A n \in Nat : Result(n) \in Replies /\ Result(n).value = n
      /\ Result(NONE) \in Replies /\ Result(NONE).value = NONE
      /\ 0 # NONE /\ FAILED # SUCCEEDED
  BY DEF Answer, Data, Result, Replies, NONE, FAILED, SUCCEEDED
\* a command that leaves the fields alone
<1>6. ASSUME UNCHANGED <<fileVars, dirVars, req, view>>, req.op \notin {"open", "create", "open_dir"},
             inbox' \in Nat, reply' \in Replies, phase' \in {"reply", "failed"}
      PROVE  Agreed'
  BY <1>0, <1>2, <1>6 DEF Agreed, Answered
<1>7. CASE Open
  <2>1. UNCHANGED <<wo_file, dir, dirpath, req, hungup, view>> /\ req.op = "open"
    BY <1>7 DEF Open, Handling
  <2>2. CASE Consume(0) /\ Finish(Result(NONE), FAILED) /\ UNCHANGED ro_file
    <3>1. inbox' \in Nat
      BY <1>0, <1>1, <2>2
    <3>2. reply' \in Replies /\ phase' = "failed"
      BY <1>3, <1>5, <2>2
    <3> QED
      BY <1>2, <2>1, <2>2, <3>1, <3>2 DEF Agreed
  <2>3. CASE /\ ~NotReceived /\ req.path # NoPath /\ Consume(1)
             /\ \/ /\ \E r : Finish(Result(NONE), r)
                   /\ ro_file' = Null
                \/ /\ req.path \in Paths /\ Finish(Result(0), SUCCEEDED)
                   /\ ro_file' = req.path
    <3>1. inbox' \in Nat
      BY <1>0, <1>1, <2>1, <2>3, PayloadFacts DEF NotReceived, PathOps
    <3>2. /\ reply' \in Replies /\ phase' \in {"reply", "failed"} /\ ro_file' \in Paths \cup {Null}
          /\ phase' = "reply" => ro_file' = IF reply'.value = NONE THEN Null ELSE req.path
      BY <1>3, <1>5, <2>3
    <3>3. phase' = "reply" => Answered'
      BY <1>0, <2>1, <3>2 DEF Answered
    <3> QED
      BY <1>2, <2>1, <3>1, <3>2, <3>3 DEF Agreed
  <2> QED
    BY <1>7, <2>2, <2>3 DEF Open
<1>8. CASE Create
  <2>1. UNCHANGED <<ro_file, dir, dirpath, req, hungup, view>> /\ req.op = "create"
    BY <1>8 DEF Create, Handling
  <2>2. CASE /\ Consume(0) \/ Consume(IF NotReceived THEN 0 ELSE Payload(req))
             /\ Finish(Result(NONE), FAILED) \/ Drop
             /\ UNCHANGED wo_file
    <3>1. inbox' \in Nat
      BY <1>0, <1>1, <2>2 DEF NotReceived
    <3>2. reply' \in Replies /\ phase' = "failed"
      BY <1>3, <1>4, <1>5, <2>2
    <3> QED
      BY <1>2, <2>1, <2>2, <3>1, <3>2 DEF Agreed
  <2>3. CASE /\ ~NotReceived /\ req.path \in Paths /\ Consume(1)
             /\ \/ /\ Finish(Result(NONE), FAILED)
                   /\ wo_file' = Null
                \/ /\ Finish(Result(0), SUCCEEDED)
                   /\ wo_file' = req.path
    <3>1. inbox' \in Nat
      BY <1>0, <1>1, <2>1, <2>3, PayloadFacts DEF NotReceived, PathOps
    <3>2. /\ reply' \in Replies /\ phase' \in {"reply", "failed"} /\ wo_file' \in Paths \cup {Null}
          /\ phase' = "reply" => wo_file' = IF reply'.value = NONE THEN Null ELSE req.path
      BY <1>3, <1>5, <2>3
    <3>3. phase' = "reply" => Answered'
      BY <1>0, <2>1, <3>2 DEF Answered
    <3> QED
      BY <1>2, <2>1, <3>1, <3>2, <3>3 DEF Agreed
  <2> QED
    BY <1>8, <2>2, <2>3 DEF Create
<1>9. CASE OpenDir
  <2>1. UNCHANGED <<ro_file, wo_file, req, hungup, view>> /\ req.op = "open_dir"
    BY <1>9 DEF OpenDir, Handling
  <2>2. CASE /\ Consume(0) \/ Consume(IF NotReceived THEN 0 ELSE Payload(req))
             /\ Drop /\ UNCHANGED dirVars
    <3>1. inbox' \in Nat
      BY <1>0, <1>1, <2>2 DEF NotReceived
    <3> QED
      BY <1>2, <1>4, <2>1, <2>2, <3>1 DEF Agreed
  <2>3. CASE /\ ~NotReceived /\ req.path \in Paths /\ Consume(1)
             /\ \/ /\ dir' \in 0 .. MaxEntries /\ dirpath' = req.path
                   /\ Finish(Result(0), SUCCEEDED)
                \/ /\ dir' = NONE /\ dirpath' = Null
                   /\ Finish(Result(NONE), SUCCEEDED)
    <3>1. inbox' \in Nat
      BY <1>0, <1>1, <2>1, <2>3, PayloadFacts DEF NotReceived, PathOps
    <3>2. /\ reply' \in Replies /\ phase' \in {"reply", "failed"}
          /\ phase' = "reply" => (reply'.value # NONE => dir' # NONE /\ dirpath' = req.path)
      BY <1>3, <1>5, <2>3 DEF NONE
    <3>3. dir' \in -1 .. MaxEntries /\ dirpath' \in Paths \cup {Null}
      BY <2>3 DEF NONE
    <3>4. phase' = "reply" => Answered'
      BY <1>0, <2>1, <3>2 DEF Answered
    <3> QED
      BY <1>2, <2>1, <3>1, <3>2, <3>3, <3>4 DEF Agreed
  <2> QED
    BY <1>9, <2>2, <2>3 DEF OpenDir
<1>10. CASE ReadDirEntry
  <2>1. UNCHANGED <<ro_file, wo_file, req, hungup, view>> /\ req.op = "read_dir_entry" /\ inbox' \in Nat
    BY <1>0, <1>1, <1>10 DEF ReadDirEntry, Handling
  <2>2. CASE Finish(Result(NONE), SUCCEEDED)
    <3>1. reply' \in Replies /\ phase' \in {"reply", "failed"} /\ (phase' = "reply" => reply'.value = NONE)
      BY <1>3, <1>5, <2>2
    <3>2. dir' \in -1 .. MaxEntries /\ dirpath' \in Paths \cup {Null}
      BY <1>10 DEF ReadDirEntry, Agreed, NONE
    <3> QED
      BY <1>0, <1>2, <2>1, <3>1, <3>2 DEF Agreed, Answered
  <2>3. CASE /\ dir > 0 /\ dirpath # Null /\ dir' = dir - 1 /\ dirpath' = dirpath
             /\ \E n \in 1 .. MaxEntries : \/ Finish(Answer(0, n, n), SUCCEEDED)
                                           \/ Finish(Answer(0, 0, n), SUCCEEDED)
    <3>1. reply' \in Replies /\ phase' \in {"reply", "failed"}
      BY <1>3, <1>5, <2>3
    <3>2. dir' \in -1 .. MaxEntries /\ dir' # NONE /\ dir # NONE
      BY <2>3 DEF Agreed, NONE
    <3>3. phase' = "reply" => Answered'
      BY <1>0, <2>1, <2>3, <3>2 DEF Answered
    <3> QED
      BY <1>2, <2>1, <2>3, <3>1, <3>2, <3>3 DEF Agreed
  <2> QED
    BY <1>10, <2>2, <2>3 DEF ReadDirEntry
<1>11. CASE ReadDir
  <2>1. UNCHANGED <<ro_file, wo_file, dirpath, req, hungup, view>> /\ req.op = "read_dir" /\ inbox' \in Nat
    BY <1>0, <1>1, <1>11 DEF ReadDir, Handling
  <2>2. \E n \in Nat : Finish(Result(n), SUCCEEDED) \/ Finish(Answer(n, n, n), SUCCEEDED)
    BY <1>11 DEF ReadDir
  <2>3. reply' \in Replies /\ phase' \in {"reply", "failed"} /\ dir' \in -1 .. MaxEntries
    BY <1>3, <1>5, <1>11, <2>2 DEF ReadDir, Agreed, NONE
  <2> QED
    BY <1>0, <1>2, <2>1, <2>3 DEF Agreed, Answered
<1>12. CASE ReadFileCritical
  <2>1. ASSUME NEW n \in Nat PROVE [Data(n) EXCEPT !.sent = FALSE] \in Replies
    <3>1. \A a \in Replies : [a EXCEPT !.sent = FALSE] \in Replies
      BY DEF Replies
    <3> QED
      BY <1>5, <3>1
  <2>2. reply' \in Replies /\ phase' \in {"reply", "failed"}
    BY <1>0, <1>5, <1>12, <2>1 DEF ReadFileCritical
  <2> QED
    BY <1>0, <1>1, <1>6, <1>12, <2>2 DEF ReadFileCritical, Handling
<1>13. CASE ReadCd2048Critical \/ ReadFile
  <2>1. reply' \in Replies /\ phase' \in {"reply", "failed"}
    <3>1. Drop \/ \E a \in Replies : Finish(a, SUCCEEDED)
      BY <1>0, <1>5, <1>13 DEF ReadCd2048Critical, ReadFile
    <3> QED
      BY <1>3, <1>4, <3>1
  <2> QED
    BY <1>0, <1>1, <1>6, <1>13, <2>1 DEF ReadCd2048Critical, ReadFile, Handling
<1>14. CASE WriteFile
  <2>1. reply' \in Replies /\ phase' \in {"reply", "failed"}
    <3>1. \E a \in Replies : Finish(a, SUCCEEDED) \/ Finish(a, FAILED)
      BY <1>0, <1>5, <1>14 DEF WriteFile
    <3> QED
      BY <1>3, <3>1
  <2>2. inbox' \in Nat
    BY <1>0, <1>1, <1>14, PayloadFacts DEF WriteFile, Handling
  <2> QED
    BY <1>6, <1>14, <2>1, <2>2 DEF WriteFile, Handling
<1>15. ASSUME NEW op \in PathOps \ {"open", "create", "open_dir"}, PathCommand(op) PROVE Agreed'
  <2>1. reply' \in Replies /\ phase' \in {"reply", "failed"}
    BY <1>3, <1>4, <1>5, <1>15 DEF PathCommand
  <2>2. inbox' \in Nat
    BY <1>0, <1>1, <1>15, PayloadFacts DEF PathCommand, Handling, NotReceived
  <2> QED
    BY <1>6, <1>15, <2>1, <2>2 DEF PathCommand, Handling
<1>16. CASE Unknown
  BY <1>0, <1>1, <1>4, <1>6, <1>16 DEF Unknown, Handling
<1> QED
  BY <1>7, <1>8, <1>9, <1>10, <1>11, <1>12, <1>13, <1>14, <1>15, <1>16
     DEF Handle, DeleteFile, Mkdir, Rmdir, Stat, GetDirSize, PathOps

LEMMA AgreedStep == Owned /\ Wire /\ Agreed /\ [Next]_vars => Agreed'
<1> SUFFICES ASSUME Owned, Wire, Agreed, [Next]_vars PROVE Agreed'
  OBVIOUS
<1> USE DEF fileVars, dirVars
<1>1. ASSUME NEW r \in Requests, Request(r) PROVE Agreed'
  <2>1. Payload(r) \in Nat /\ NoReply \in Replies
    BY <1>1, PayloadFacts DEF NoReply, Replies, NONE
  <2>2. inbox' \in Nat
    BY <1>1, <2>1 DEF Request, Agreed
  <2> QED
    BY <1>1, <2>1, <2>2 DEF Request, Agreed
<1>2. CASE HangUp
  BY <1>2 DEF HangUp, Agreed, Answered
<1>3. CASE EndOfStream
  BY <1>3 DEF EndOfStream, Agreed
<1>4. CASE FinalizeClient
  BY <1>4, BufferAssumption DEF FinalizeClient, Agreed, NONE
<1>5. CASE Ended \/ UNCHANGED vars
  BY <1>5 DEF Ended, vars, Agreed, Answered
<1> QED
  BY <1>1, <1>2, <1>3, <1>4, <1>5, AgreedReceive, AgreedHandle DEF Next

LEMMA AgreedAlways == Spec => [](Owned /\ Wire /\ Agreed)
BY OwnedInit, OwnedStep, WireInit, WireStep, AgreedInit, AgreedStep, PTL DEF Spec

\* The types of the session; in particular every object count is 0 or 1, and
\* the server never consumes more than the console has sent.
THEOREM SessionTyped == Spec => []SessionTypeOK
<1>1. Owned /\ Wire /\ Agreed => SessionTypeOK
  <2> SUFFICES ASSUME Owned, Wire, Agreed PROVE SessionTypeOK
    OBVIOUS
  <2>1. live \in [Fields -> 0 .. 1]
    BY DEF Owned, Del, DelDir, Fields
  <2> QED
    BY <2>1 DEF Wire, Agreed, SessionTypeOK, Replies
<1> QED
  BY <1>1, AgreedAlways, PTL

\* Between commands the session's files are the ones that the answers told the
\* console of, through every error path of the open, create and directory
\* handlers that keeps the connection.
THEOREM SessionStaysAgreed == Spec => []SessionAgrees
<1>1. Agreed => SessionAgrees
  BY DEF Agreed, SessionAgrees
<1> QED
  BY <1>1, AgreedAlways, PTL
=============================================================================
