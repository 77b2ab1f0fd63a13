---------------------------- MODULE MyWebSocket ----------------------------
(***************************************************************************)
(* src/mywebsocket.cpp: the object that OnBeginRequest creates for every   *)
(* upgraded connection, the registry g_ListWebSocket and the counters that *)
(* all objects share, and the three functions that pool threads run on     *)
(* them: OnBeginRequest with continuousReading, the read callback with     *)
(* CleanupStoredContext, and the write callback.                           *)
(***************************************************************************)
EXTENDS WebSocketContext

(***************************************************************************)
(* OnBeginRequest, case WEB_SOCKET, up to the registry.  The upgrade       *)
(* fails, or the object is made; nobody else can reach it yet.             *)
(***************************************************************************)
BeginRefused(c) ==
  /\ "refuse" \in Env /\ obj[c] = "none"
  /\ obj' = [obj EXCEPT ![c] = "refused"]
  /\ UNCHANGED <<threadVars, bufferVars, sharedVars, readVars, writeVars,
                 connectionId, mtx, process, indicated, link, sent>>

\* A bug: the object enters the registry before its connectionId is
\* read from the request.
IdAfterInsert(t, c) ==
  /\ obj[c] = "none"
  /\ Start(t, c, "insert", TRUE, FALSE)
  /\ obj' = [obj EXCEPT ![c] = "live"]
  /\ Count("websockets", 1)
  /\ UNCHANGED <<bufferVars, readVars, writeVars, connectionId, mtx, registry, intact,
                 process, indicated, link, sent>>

OnBeginRequest(t, c) ==
  /\ obj[c] = "none"
  /\ Start(t, c, "insert", TRUE, FALSE)
  /\ obj' = [obj EXCEPT ![c] = "live"]
  /\ connectionId' = [connectionId EXCEPT ![c] = c]
  /\ Count("websockets", 1)
  /\ UNCHANGED <<bufferVars, readVars, writeVars, mtx, registry, intact, process,
                 indicated, link, sent>>

(***************************************************************************)
(* continuousReading: enter the registry and tell every connection in it,  *)
(* the new one included.  The iterator is the key it stands at, 0 before   *)
(* begin().  No lock protects the map: the steps below are what the code   *)
(* does while no access to it meets another; see MapBreaks and Fault for   *)
(* what happens when one does.  Then a loop visits what it finds, in any   *)
(* order and again, or ends.                                               *)
(***************************************************************************)
Insert(t) ==
  /\ Goto(t, "insert", "next")
  /\ registry' = registry \cup {connectionId[On(t)]}
  /\ UNCHANGED <<bufferVars, readVars, writeVars, obj, connectionId, mtx,
                 intact, counter, process, indicated, link, sent>>

StaleIterator(t) == pc[t] = "next" /\ Target(t) \notin registry \cup {0}

\* What an iteration over a corrupt map may find: any object ever made.
Nodes == {c \in Conns : obj[c] \in {"live", "deleted"}}

TextsWritten == Cardinality(UNION {{c} \X (1..Len(accepted[c])) : c \in Conns})

\* A bug: ++ after the end of the loop body and once more at its start.
LaterSkips(c) == {d \in registry : d > c + 1}

\* A bug: lower_bound where upper_bound is meant, so ++ stays where it is.
LaterStays(c) == {d \in registry : d >= c}

Later(c) == {d \in registry : d > c}
NextKey(c) ==
  IF intact THEN {d \in Later(c) : \A e \in Later(c) : d <= e}
            ELSE {d \in Nodes : TextsWritten < MaxTold}

Notify(t) ==
  /\ \E d \in NextKey(Target(t)) : CallWrite(t, "next", d, Enter(On(t)), "next")
  /\ UNCHANGED <<bufferVars, sharedVars, readVars, writeVars, obj,
                 connectionId, mtx, process, indicated, link, sent>>

NotifyEnds(t) ==
  /\ NextKey(Target(t)) = {} \/ StaleIterator(t) \/ ~intact
  /\ pc[t] = "next"
  /\ pc' = [pc EXCEPT ![t] = "checkStatus"]
  /\ frame' = [frame EXCEPT ![t].target = 0]
  /\ UNCHANGED <<bufferVars, sharedVars, readVars, writeVars, obj,
                 connectionId, mtx, process, indicated, link, sent>>

----------------------------------------------------------------------------
(***************************************************************************)
(* Write.  The text is copied into the only write buffer and offered to    *)
(* IIS under the lock; when a write is outstanding, offered once more      *)
(* after 300 ms, with the lock held.                                       *)
(***************************************************************************)
WriteRefused(t) ==
  /\ WriteReturn(t, "writeLock")
  /\ Locking(Target(t)) /\ connectionId[Target(t)] = 0
  /\ UNCHANGED <<bufferVars, sharedVars, readVars, writeVars, obj,
                 connectionId, process, indicated, link, sent>>

\* A bug: the lock is a temporary, released where it was taken.
LockTemporary(t) ==
  /\ Goto(t, "writeLock", "writeSend")
  /\ Locking(Target(t)) /\ connectionId[Target(t)] # 0
  /\ UNCHANGED <<bufferVars, sharedVars, readVars, writeVars, obj,
                 connectionId, process, indicated, link, sent>>

WriteLock(t) ==
  /\ Goto(t, "writeLock", "writeSend")
  /\ Lock(Target(t), t) /\ connectionId[Target(t)] # 0
  /\ UNCHANGED <<bufferVars, sharedVars, readVars, writeVars, obj,
                 connectionId, process, indicated, link, sent>>

WriteSend(t) ==
  /\ pc[t] = "writeSend"
  /\ writeBuffer' = [writeBuffer EXCEPT ![Target(t)] = frame[t].text]
  /\ \E answer \in WriteAnswers(Target(t)) :
       /\ WriteFragment(Target(t), frame[t].text, answer)
       /\ IF answer = "ERROR_IO_PENDING"
            THEN Goto(t, "writeSend", "writeResend") /\ UNCHANGED mtx
            ELSE WriteReturn(t, "writeSend") /\ Unlock(Target(t))
  /\ UNCHANGED <<sharedVars, readVars, data, readBuffer, obj, connectionId,
                 process, indicated, link, posted, sent>>

\* A bug: the second WriteFragment, after the 300 ms, is left out.
NoRetry(t) ==
  /\ WriteReturn(t, "writeResend")
  /\ Unlock(Target(t))
  /\ UNCHANGED <<bufferVars, sharedVars, readVars, writeVars, obj,
                 connectionId, process, indicated, link, sent>>

WriteResend(t) ==
  /\ WriteReturn(t, "writeResend")
  /\ "slowWrite" \in Env \/ writeIO[Target(t)] = "none"
  /\ \E answer \in WriteAnswers(Target(t)) :
       WriteFragment(Target(t), frame[t].text, answer)
  /\ Unlock(Target(t))
  /\ UNCHANGED <<bufferVars, sharedVars, readVars, obj, connectionId,
                 process, indicated, link, posted, sent>>

----------------------------------------------------------------------------
(***************************************************************************)
(* The rest of continuousReading.                                          *)
(***************************************************************************)
CheckStatus(t) ==
  /\ Goto(t, "checkStatus", "firstRead")
  /\ \E ok \in CloseStatus(On(t)) :
       IF ok
         THEN /\ connectionId' = [connectionId EXCEPT ![On(t)] = 0]
              /\ CancelOutstandingIO(On(t))
         ELSE UNCHANGED <<connectionId, readIO, writeIO>>
  /\ readBuffer' = [readBuffer EXCEPT ![On(t)] = <<>>]
  /\ UNCHANGED <<sharedVars, data, writeBuffer, obj, mtx, process, indicated,
                 link, inbox, posted, accepted, sent>>

FirstRead(t) ==
  /\ pc[t] = "firstRead" /\ Locking(On(t))
  /\ \E answer \in ReadAnswers(On(t)) :
       /\ ReadFragment(On(t), answer)
       /\ Goto(t, "firstRead", CASE answer = "sync"   -> "firstAppend"
                                 [] answer = "failed" -> "firstFailed"
                                 [] OTHER             -> "firstReturn")
  /\ UNCHANGED <<sharedVars, writeVars, data, writeBuffer, obj, connectionId,
                 process, indicated, link, sent>>

\* bCompletionExpected is FALSE: the fragment is taken in this call.
FirstAppend(t) ==
  LET c == On(t) IN
  /\ pc[t] = "firstAppend"
  /\ data' = [data EXCEPT ![c] = @ \o readBuffer[c]]
  /\ IF Head(readBuffer[c])[2] = "final"
       THEN CallWrite(t, "firstAppend", c, data'[c], "firstClear")
       ELSE Goto(t, "firstAppend", "firstReturn")
  /\ UNCHANGED <<sharedVars, readVars, writeVars, readBuffer, writeBuffer, obj,
                 connectionId, mtx, process, indicated, link, sent>>

FirstClear(t) ==
  /\ Goto(t, "firstClear", "firstReturn")
  /\ data' = [data EXCEPT ![On(t)] = <<>>]
  /\ UNCHANGED <<sharedVars, readVars, writeVars, readBuffer, writeBuffer, obj,
                 connectionId, mtx, process, indicated, link, sent>>

FirstFailed(t) ==
  /\ Goto(t, "firstFailed", "firstReturn")
  /\ connectionId' = [connectionId EXCEPT ![On(t)] = 0]
  /\ CancelOutstandingIO(On(t))
  /\ UNCHANGED <<bufferVars, sharedVars, obj, mtx, process, indicated, link,
                 inbox, posted, accepted, sent>>

\* A bug: continuousReading goes on in the loop that Reading has.
ReadsInLoop(t) ==
  /\ Goto(t, "firstReturn", "checkStatus")
  /\ UNCHANGED <<bufferVars, sharedVars, readVars, writeVars, obj,
                 connectionId, mtx, process, indicated, link, sent>>

\* The last log line reads the object; then RQ_NOTIFICATION_PENDING.
FirstReturn(t) ==
  /\ Return(t, "firstReturn")
  /\ UNCHANGED <<bufferVars, sharedVars, readVars, writeVars, obj,
                 connectionId, mtx, process, indicated, link, sent>>

----------------------------------------------------------------------------
(***************************************************************************)
(* ContinuousReadAsyncCompletion.                                          *)
(***************************************************************************)
ReadDisconnected(t) ==
  /\ Return(t, "readLock")
  /\ Locking(On(t)) /\ connectionId[On(t)] = 0
  /\ UNCHANGED <<bufferVars, sharedVars, readVars, writeVars, obj,
                 connectionId, process, indicated, link, sent>>

\* A bug: fClose and hrError are not looked at.
CloseIgnored(t) ==
  /\ Goto(t, "readLock", "readLocked")
  /\ Lock(On(t), t) /\ connectionId[On(t)] # 0
  /\ UNCHANGED <<bufferVars, sharedVars, readVars, writeVars, obj,
                 connectionId, process, indicated, link, sent>>

ReadLock(t) ==
  /\ pc[t] = "readLock"
  /\ Lock(On(t), t) /\ connectionId[On(t)] # 0
  /\ IF frame[t].down
       THEN \E ok \in CloseStatus(On(t)) :
              Goto(t, "readLock", IF ok THEN "cleanup" ELSE "readLocked")
       ELSE Goto(t, "readLock", "readLocked")
  /\ UNCHANGED <<bufferVars, sharedVars, readVars, writeVars, obj,
                 connectionId, process, indicated, link, sent>>

\* A bug: lck.unlock() before Write is missing.
LockedWrite(t) ==
  LET c == On(t) IN
  /\ pc[t] = "readLocked" /\ frame[t].final
  /\ data' = [data EXCEPT ![c] = @ \o readBuffer[c]]
  /\ CallWrite(t, "readLocked", c, data'[c], "readClear")
  /\ UNCHANGED <<sharedVars, readVars, writeVars, readBuffer, writeBuffer, obj,
                 connectionId, mtx, process, indicated, link, sent>>

ReadFinal(t) ==
  LET c == On(t) IN
  /\ pc[t] = "readLocked" /\ frame[t].final
  /\ data' = [data EXCEPT ![c] = @ \o readBuffer[c]]
  /\ Unlock(c)
  /\ CallWrite(t, "readLocked", c, data'[c], "readClear")
  /\ UNCHANGED <<sharedVars, readVars, writeVars, readBuffer, writeBuffer, obj,
                 connectionId, process, indicated, link, sent>>

\* Not the final fragment: it is kept, and the lock is not released before
\* the lck.lock() that precedes the next read.  Locking a unique_lock that
\* owns its mutex throws std::system_error, which nothing here catches.
ReadPartial(t) ==
  /\ pc[t] = "readLocked" /\ ~frame[t].final
  /\ Terminate

\* A bug: data.clear() is missing.
NotCleared(t) ==
  /\ Goto(t, "readClear", "reread")
  /\ Count("websocketsRead", 1)
  /\ readBuffer' = [readBuffer EXCEPT ![On(t)] = <<>>]
  /\ UNCHANGED <<readVars, writeVars, data, writeBuffer, obj, connectionId,
                 mtx, registry, intact, process, indicated, link, sent>>

ReadClear(t) ==
  LET c == On(t) IN
  /\ Goto(t, "readClear", "reread")
  /\ Count("websocketsRead", 1)
  /\ data' = [data EXCEPT ![c] = <<>>]
  /\ readBuffer' = [readBuffer EXCEPT ![c] = <<>>]
  /\ UNCHANGED <<readVars, writeVars, writeBuffer, obj, connectionId, mtx,
                 registry, intact, process, indicated, link, sent>>

\* A fragment that arrives in the call ("sync") stays in the buffer: this
\* call does not look at bCompletionExpected.
Reread(t) ==
  /\ pc[t] = "reread" /\ Locking(On(t))
  /\ \E answer \in ReadAnswers(On(t)) :
       /\ ReadFragment(On(t), answer)
       /\ IF answer = "failed" THEN Goto(t, "reread", "rereadFailed")
                               ELSE Return(t, "reread")
  /\ UNCHANGED <<sharedVars, writeVars, data, writeBuffer, obj, connectionId,
                 process, indicated, link, sent>>

RereadFailed(t) ==
  /\ Return(t, "rereadFailed")
  /\ connectionId' = [connectionId EXCEPT ![On(t)] = 0]
  /\ CancelOutstandingIO(On(t))
  /\ UNCHANGED <<bufferVars, sharedVars, obj, mtx, process, indicated, link,
                 inbox, posted, accepted, sent>>

----------------------------------------------------------------------------
(***************************************************************************)
(* CleanupStoredContext, called by the read callback with the lock held.   *)
(* The destructor of the callback's unique_lock then releases the mutex of *)
(* an object that is deleted.                                              *)
(***************************************************************************)
\* A bug: connectionId is reset before it is used as the key.
ResetBeforeErase(t) ==
  /\ Goto(t, "cleanup", "cleanupFinish")
  /\ Count("websockets", -1)
  /\ connectionId' = [connectionId EXCEPT ![On(t)] = 0]
  /\ UNCHANGED <<bufferVars, readVars, writeVars, obj, mtx, registry, intact, process,
                 indicated, link, sent>>

\* A bug: websockets-- is missing.
NotCounted(t) ==
  /\ Goto(t, "cleanup", "cleanupFinish")
  /\ registry' = registry \ {connectionId[On(t)]}
  /\ connectionId' = [connectionId EXCEPT ![On(t)] = 0]
  /\ UNCHANGED <<bufferVars, readVars, writeVars, obj, mtx, intact, counter, process,
                 indicated, link, sent>>

CleanupErase(t) ==
  /\ Goto(t, "cleanup", "cleanupFinish")
  /\ Count("websockets", -1)
  /\ registry' = registry \ {connectionId[On(t)]}
  /\ connectionId' = [connectionId EXCEPT ![On(t)] = 0]
  /\ UNCHANGED <<bufferVars, readVars, writeVars, obj, mtx, intact, process, indicated,
                 link, sent>>

\* A bug: m_WebSocketContext is reset before it is tested.
FinishSkipped(t) ==
  /\ Goto(t, "cleanupFinish", "cleanupDelete")
  /\ UNCHANGED <<bufferVars, sharedVars, readVars, writeVars, obj,
                 connectionId, mtx, process, indicated, link, sent>>

CleanupFinish(t) ==
  /\ Goto(t, "cleanupFinish", "cleanupDelete")
  /\ indicated' = [indicated EXCEPT ![On(t)] = @ + 1]
  /\ UNCHANGED <<bufferVars, sharedVars, readVars, writeVars, obj,
                 connectionId, mtx, process, link, sent>>

CleanupDelete(t) ==
  /\ Goto(t, "cleanupDelete", "cleanupReturn")
  /\ CancelOutstandingIO(On(t))
  /\ link' = [link EXCEPT ![On(t)] = IF Lost(On(t)) THEN @ ELSE "closed"]
  /\ obj' = [obj EXCEPT ![On(t)] = "deleted"]
  /\ UNCHANGED <<bufferVars, sharedVars, connectionId, mtx, process,
                 indicated, inbox, posted, accepted, sent>>

\* A bug: no return after CleanupStoredContext.
CleanupFallsThrough(t) ==
  /\ Goto(t, "cleanupReturn", "readClear")
  /\ Unlock(On(t))
  /\ UNCHANGED <<bufferVars, sharedVars, readVars, writeVars, obj,
                 connectionId, process, indicated, link, sent>>

CleanupReturn(t) ==
  /\ Return(t, "cleanupReturn")
  /\ Unlock(On(t))
  /\ UNCHANGED <<bufferVars, sharedVars, readVars, writeVars, obj,
                 connectionId, process, indicated, link, sent>>

(***************************************************************************)
(* WritAsyncCompletion: it takes no lock, so the object can go away before *)
(* the test and between the test and the counter.                          *)
(***************************************************************************)
WriteDone(t) ==
  /\ pc[t] = "writeCb"
  /\ IF connectionId[On(t)] = 0 THEN Return(t, "writeCb")
                                ELSE Goto(t, "writeCb", "writeCount")
  /\ UNCHANGED <<bufferVars, sharedVars, readVars, writeVars, obj,
                 connectionId, mtx, process, indicated, link, sent>>

WriteCount(t) ==
  /\ Return(t, "writeCount")
  /\ Count("websocketsWrite", 1)
  /\ UNCHANGED <<bufferVars, readVars, writeVars, obj, connectionId, mtx,
                 registry, intact, process, indicated, link, sent>>

----------------------------------------------------------------------------
(***************************************************************************)
(* Undefined behaviour.  A step that uses a deleted object finds its       *)
(* memory as it was (the step above happens) or brings the process down.   *)
(* Two accesses to the map at once, when one of them changes it, and an    *)
(* iterator whose element was erased do no harm, bring the process down,   *)
(* or corrupt the map: an insert is lost, or an erase, and from then on    *)
(* what an iteration finds or misses is left open.                         *)
(***************************************************************************)
TouchesDeleted(t) == pc[t] # "idle" /\ obj[Object(t)] = "deleted"

InRegistry(t) == pc[t] \in {"insert", "cleanup", "next"}

RegistryRace(t, u) ==
  t # u /\ InRegistry(t) /\ InRegistry(u) /\ {pc[t], pc[u]} # {"next"}

RegistryFails(t) ==
  StaleIterator(t) \/ (~intact /\ InRegistry(t)) \/ \E u \in Threads : RegistryRace(t, u)

MapBreaks ==
  /\ intact /\ intact' = FALSE
  /\ \E t \in Threads : RegistryFails(t)
  /\ UNCHANGED <<threadVars, bufferVars, readVars, writeVars, registry, counter, obj,
                 connectionId, mtx, process, indicated, link, sent>>

Fault ==
  /\ \E t \in Threads : TouchesDeleted(t) \/ RegistryFails(t)
  /\ Terminate

Begin(t)   == \/ Insert(t) \/ Notify(t) \/ NotifyEnds(t)
              \/ CheckStatus(t) \/ FirstRead(t) \/ FirstAppend(t)
              \/ FirstClear(t) \/ FirstFailed(t) \/ FirstReturn(t)
Write(t)   == \/ WriteRefused(t) \/ WriteLock(t) \/ WriteSend(t) \/ WriteResend(t)
Read(t)    == \/ ReadDisconnected(t) \/ ReadLock(t) \/ ReadFinal(t)
              \/ ReadPartial(t) \/ ReadClear(t) \/ Reread(t) \/ RereadFailed(t)
Cleanup(t) == \/ CleanupErase(t) \/ CleanupFinish(t)
              \/ CleanupDelete(t) \/ CleanupReturn(t)
Written(t) == WriteDone(t) \/ WriteCount(t)

ThreadStep(t) == Begin(t) \/ Write(t) \/ Read(t) \/ Cleanup(t) \/ Written(t)

Completes(c) == \E t \in Threads : \/ ReadCompletes(t, c) \/ ReadCloses(t, c)
                                   \/ ReadFails(t, c)

Next ==
  /\ process = "up"
  /\ \/ \E t \in Threads : ThreadStep(t)
     \/ \E c \in Conns : \/ PeerSend(c) \/ PeerLeaves(c) \/ BeginRefused(c)
                         \/ Completes(c) \/ WriteEnds(c)
                         \/ \E t \in Threads : \/ OnBeginRequest(t, c)
                                               \/ WriteCompletes(t, c)
     \/ MapBreaks \/ Fault

Spec == Init /\ [][Next]_vars

----------------------------------------------------------------------------
(***************************************************************************)
(* Fairness: the system schedules every pool thread, and IIS completes     *)
(* every operation it accepted and calls its callback.  Clients, broken    *)
(* connections and faults owe nothing.                                     *)
(***************************************************************************)
Fairness ==
  /\ \A t \in Threads : WF_vars(process = "up" /\ ThreadStep(t))
  /\ \A c \in Conns :
       /\ WF_vars(process = "up" /\ Completes(c))
       /\ WF_vars(process = "up" /\ WriteEnds(c))
       /\ WF_vars(process = "up" /\ \E t \in Threads : WriteCompletes(t, c))

FairSpec == Spec /\ Fairness

Dead == process = "terminated"

----------------------------------------------------------------------------
ControlTypeOK ==
  /\ pc \in [Threads -> Pcs]
  /\ frame \in [Threads -> Frame]
  /\ obj \in [Conns -> {"none", "refused", "live", "deleted"}]
  /\ connectionId \in [Conns -> Conns \cup {0}]
  /\ mtx \in [Conns -> Threads \cup {NoThread}]
  /\ registry \subseteq Conns
  /\ intact \in BOOLEAN
  /\ process \in {"up", "terminated"}
  /\ indicated \in [Conns -> Nat]
  /\ link \in [Conns -> {"up", "closing", "closed", "broken", "reset"}]
  /\ readIO \in [Conns -> {"none", "outstanding", "aborted"}]
  /\ writeIO \in [Conns -> {"none", "queued", "aborted"}]

DataTypeOK ==
  /\ data \in [Conns -> Text]
  /\ readBuffer \in [Conns -> Text]
  /\ writeBuffer \in [Conns -> Text]
  /\ counter \in [{"websockets", "websocketsRead", "websocketsWrite"} -> Int]
  /\ inbox \in [Conns -> Text]
  /\ posted \in [Conns -> Nat]
  /\ accepted \in [Conns -> Seq(Text)]
  /\ sent \in [Conns -> Nat]

\* The values every variable takes: what a thread works on is a connection
\* that was set up, and the registry holds ids of connections.
TypeOK == ControlTypeOK /\ DataTypeOK

CleanupPcs == {"cleanup", "cleanupFinish", "cleanupDelete"}

\* A thread in continuousReading or in the read callback of its connection.
UsePcs == Pcs \ {"idle", "writeCb", "writeCount"}

\* data and readBuffer are used outside the lock, but never by two threads at
\* once, and never while IIS has a read outstanding into readBuffer, with one
\* exception: the lines continuousReading logs after its ReadFragment show
\* readBuffer, which IIS fills and the callback zeroes meanwhile.
OneReader ==
  \A t \in Threads : pc[t] \in UsePcs \ {"firstReturn"} =>
    /\ readIO[On(t)] = "none"
    /\ \A u \in Threads \ {t} :
         pc[u] \in UsePcs /\ On(u) = On(t) => pc[u] = "firstReturn"

\* A deleted object is used in five places and no others: by the lines that
\* continuousReading logs last, by the unique_lock of the callback that deleted
\* it, by the Write of a notice up to its test of connectionId, and by the write
\* callback before and after its own.
LateUsesOnly ==
  \A t \in Threads :
    TouchesDeleted(t)
    => pc[t] \in {"firstReturn", "cleanupReturn", "writeLock", "writeCb", "writeCount"}

\* What the registry lists can be used, as long as it is intact: an object
\* leaves it before it dies.
RegistryLive == intact => \A c \in registry : obj[c] = "live"

\* A request is finished at most once, and an object is deleted only when its
\* request is finished and no read can still call back on it.
FinishedOnce ==
  \A c \in Conns :
    /\ indicated[c] <= 1
    /\ obj[c] = "deleted" => indicated[c] = 1 /\ readIO[c] = "none"

\* The websockets counter shows the objects there are, those being cleaned
\* up left out.
WebsocketsCounted ==
  counter.websockets = Cardinality({c \in Conns : obj[c] = "live"})
                     - Cardinality({t \in Threads : pc[t] \in CleanupPcs \ {"cleanup"}})

(***************************************************************************)
(* The session of each connection as EchoSession sees it.  A text that is  *)
(* neither a notice nor a whole message has no counterpart there, unless   *)
(* it is empty.                                                            *)
(***************************************************************************)
Life(c) == IF obj[c] = "none" THEN "new"
           ELSE IF obj[c] = "refused" \/ indicated[c] > 0 THEN "done"
           ELSE IF Lost(c) THEN "lost" ELSE "open"

Says(text) == CASE IsNotice(text)                                  -> <<"enter", text[1][1]>>
                [] text = <<>>                                     -> <<"nothing", 0>>
                [] text \in {Whole(text[1][1]), Split(text[1][1])}     -> <<"echo", text[1][1]>>
                [] OTHER                                           -> <<"garbled", 0>>

Session == INSTANCE EchoSession WITH
  life <- [c \in Conns |-> Life(c)],
  told <- [c \in Conns |-> [i \in 1..Len(accepted[c]) |-> Says(accepted[c][i])]],
  orderly <- intact

\* Whatever the threads, locks and buffers do, what is written to a client is
\* one whole message it sent at a time, in order and none twice, a notice at
\* most once per connection (of one that was made, even if the map is
\* corrupt; then perhaps again), nothing after its request was finished, and
\* an empty text only after the connection broke.
EchoService == Session!Spec

Notified(c) == obj[c] = "live" /\ \A t \in Threads :
  On(t) = c => pc[t] \notin {"insert", "next", "writeLock", "writeSend", "writeResend"}

Told(c, d) == \E i \in 1..Len(accepted[c]) : accepted[c][i] = Enter(d)

\* As long as no client has left, every write is accepted in time and no two
\* threads met in the registry, of two connections that are both established
\* one was told of the other, in whatever order their threads went through it.
\* Two inserts that do meet can lose one, and then neither may be told.
NoticeReachesOne ==
  intact /\ (\A c \in Conns : link[c] = "up") =>
  \A c, d \in Conns : Notified(c) /\ Notified(d) => Told(c, d) \/ Told(d, c)

\* Nothing more is written to a connection whose request is finished.
NoWriteAfterFinish ==
  [][\A c \in Conns : indicated[c] > 0 /\ process' = "up"
                      => accepted'[c] = accepted[c]]_vars

\* A close frame that arrives ends in the object deleted and the request
\* finished.
CloseCompletes ==
  \A c \in Conns : link[c] = "closing" ~> (Dead \/ (obj[c] = "deleted" /\ indicated[c] = 1))

\* Every message a client sends is echoed.
EchoEventually ==
  \A c \in Conns : \A m \in 1..MaxMsgs :
    sent[c] >= m ~> (Dead \/ \E i \in 1..Len(accepted[c]) : accepted[c][i] = Whole(m))

\* Every call into the module returns its thread to the pool.
ThreadsReturn == \A t \in Threads : pc[t] # "idle" ~> (Dead \/ pc[t] = "idle")

\* " FINALIZANDO websocket[": a connection that failed is finalised.
BrokenFinalized ==
  \A c \in Conns : Lost(c) ~> (Dead \/ indicated[c] = 1)

\* "need read more data!": a fragment that is not final is kept and the
\* worker process reads on.
FragmentReadsOn == process = "up"

\* " Disconected websocket[": a write callback, and the Write of a notice to
\* an object taken from the registry, that come after the connection was
\* disconnected find its object, and connectionId 0 in it.
DisconnectedFound ==
  \A t \in Threads : pc[t] \in {"writeCb", "writeLock"} => obj[Object(t)] # "deleted"
=============================================================================
