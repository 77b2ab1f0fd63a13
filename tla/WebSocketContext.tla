---------------------------- MODULE WebSocketContext ----------------------------
(***************************************************************************)
(* What the WebSocket code of the module runs on: the state of its objects *)
(* and of the IIS pool threads, and the part of IIS the code relies on     *)
(* (IWebSocketContext, IndicateCompletion, the network, the clients).      *)
(* MyWebSocket.tla extends this module with the code itself.               *)
(*                                                                         *)
(* A thread is a program counter and a frame.  A step of a thread ends     *)
(* where another thread can observe the difference: at a lock, at an       *)
(* access to state that no lock protects, at a call of IIS.  Releasing a   *)
(* lock is joined to the step before it.                                   *)
(***************************************************************************)
EXTENDS Integers, Sequences, FiniteSets

CONSTANTS
  Conns,     \* the connection ids (HTTP_CONNECTION_ID), numbers other than 0
  Threads,   \* the threads of the IIS pool
  NoThread,  \* the owner of a free mutex
  MaxMsgs,   \* BOUND: messages a client sends on one connection
  MaxBreaks, \* BOUND: connections that break
  MaxTold,   \* BOUND: texts written in all when a loop over a corrupt map goes on
  Env        \* what clients and IIS do besides delivering whole messages

Behaviours == {"fragment",    \* a client splits a message into two fragments
               "syncRead",    \* ReadFragment completes in the call
               "close",       \* a client sends a close frame
               "earlyClose",  \* GetCloseStatus reports it before it is read
               "abort",       \* a connection breaks
               "writeFail",   \* WriteFragment fails on a good connection
               "slowWrite",   \* a write takes longer than the 300 ms of Write
               "refuse"}      \* the upgrade fails and no object is made

ASSUME ConnsAssumption   == Conns \subseteq Nat \ {0} /\ IsFiniteSet(Conns)
ASSUME ThreadsAssumption == NoThread \notin Threads
ASSUME MaxMsgsAssumption == MaxMsgs \in Nat /\ MaxBreaks \in Nat /\ MaxTold \in Nat
ASSUME EnvAssumption     == Env \subseteq Behaviours

VARIABLES
  pc,            \* where each thread is; "idle" is back in the pool
  frame,         \* what its activation records hold
  obj,           \* the MyWebSocket of each connection
  connectionId,  \* remote.connectionId: 0 when disconnected
  mtx,           \* the thread that owns MyWebSocket::mtx
  data,          \* MyWebSocket::data, the fragments gathered so far
  readBuffer,    \* the fragment in readBuffer, or nothing
  writeBuffer,   \* the text in writeBuffer
  registry,      \* the keys inserted into g_ListWebSocket and not erased
  intact,        \* whether the map holds those: no access to it went wrong
  counter,       \* g_IISCounter
  process,       \* the IIS worker process
  indicated,     \* how often IndicateCompletion(FINISH_REQUEST) was called
  link,          \* the TCP connection, as IIS sees it
  inbox,         \* fragments that have arrived and were not read
  readIO,        \* the outstanding ReadFragment
  writeIO,       \* the outstanding WriteFragment
  posted,        \* completed writes whose callback has not started
  accepted,      \* the texts WriteFragment accepted
  sent           \* how many messages the client sent

threadVars == <<pc, frame>>
bufferVars == <<data, readBuffer, writeBuffer>>
sharedVars == <<registry, intact, counter>>
readVars   == <<readIO, inbox>>
writeVars  == <<writeIO, posted, accepted>>
vars == <<pc, frame, obj, connectionId, mtx, data, readBuffer, writeBuffer,
          registry, intact, counter, process, indicated, link, inbox, readIO,
          writeIO, posted, accepted, sent>>

(***************************************************************************)
(* Data.  A fragment is <<message number, kind>>; a text is the sequence   *)
(* of fragments it is made of.  "echo " and the wording of the notice are  *)
(* left out.                                                               *)
(***************************************************************************)
Fragment == Nat \X {"more", "final", "enter"}
Text     == Seq(Fragment)

Whole(m)  == << <<m, "final">> >>
Split(m)  == << <<m, "more">>, <<m, "final">> >>

\* The notice of continuousReading: "ID[..] o socket c se conectou".
Enter(c)  == << <<c, "enter">> >>

IsNotice(text) == Len(text) = 1 /\ text[1][2] = "enter"

(***************************************************************************)
(* The frame of a thread: the object its activation is about, the object   *)
(* Write was called on, where Write returns to, its argument, and the      *)
(* fFinalFragment and fClose || FAILED(hrError) of a read completion.      *)
(***************************************************************************)
Frame == [on : Conns \cup {0}, target : Conns \cup {0},
          ret : {"next", "firstClear", "readClear"},
          text : Text, final : BOOLEAN, down : BOOLEAN]

NoFrame == [on |-> 0, target |-> 0, ret |-> "next", text |-> <<>>,
            final |-> TRUE, down |-> FALSE]

On(t)     == frame[t].on
Target(t) == frame[t].target

Pcs == {"idle", "insert", "next", "writeLock", "writeSend", "writeResend",
        "checkStatus", "firstRead", "firstAppend", "firstClear",
        "firstFailed", "firstReturn", "readLock", "readLocked", "readClear",
        "reread", "rereadFailed", "cleanup", "cleanupFinish", 
        "cleanupDelete", "cleanupReturn", "writeCb", "writeCount"}

WritePcs == {"writeLock", "writeSend", "writeResend"}

\* The object the next step of a thread dereferences.
Object(t) == IF pc[t] \in WritePcs THEN Target(t) ELSE On(t)

Init ==
  /\ process = "up"
  /\ pc = [t \in Threads |-> "idle"]
  /\ frame = [t \in Threads |-> NoFrame]
  /\ obj = [c \in Conns |-> "none"]
  /\ connectionId = [c \in Conns |-> 0]
  /\ mtx = [c \in Conns |-> NoThread]
  /\ data = [c \in Conns |-> <<>>]
  /\ readBuffer = [c \in Conns |-> <<>>]
  /\ writeBuffer = [c \in Conns |-> <<>>]
  /\ registry = {} /\ intact = TRUE
  /\ counter = [websockets |-> 0, websocketsRead |-> 0, websocketsWrite |-> 0]
  /\ indicated = [c \in Conns |-> 0]
  /\ link = [c \in Conns |-> "up"]
  /\ inbox = [c \in Conns |-> <<>>]
  /\ readIO = [c \in Conns |-> "none"]
  /\ writeIO = [c \in Conns |-> "none"]
  /\ posted = [c \in Conns |-> 0]
  /\ accepted = [c \in Conns |-> <<>>]
  /\ sent = [c \in Conns |-> 0]

\* The worker process dies; nothing of the module runs after that.
Terminate ==
  /\ process' = "terminated"
  /\ UNCHANGED <<threadVars, bufferVars, sharedVars, readVars, writeVars, obj,
                 connectionId, mtx, indicated, link, sent>>

----------------------------------------------------------------------------
(***************************************************************************)
(* Steps of threads.                                                       *)
(***************************************************************************)
Goto(t, from, to) ==
  /\ pc[t] = from
  /\ pc' = [pc EXCEPT ![t] = to]
  /\ UNCHANGED frame

\* The function returns to IIS and its thread to the pool.
Return(t, from) ==
  /\ pc[t] = from
  /\ pc' = [pc EXCEPT ![t] = "idle"]
  /\ frame' = [frame EXCEPT ![t] = NoFrame]

\* An IIS thread starts a function of the module on connection c.
Start(t, c, to, final, down) ==
  /\ pc[t] = "idle"
  /\ pc' = [pc EXCEPT ![t] = to]
  /\ frame' = [frame EXCEPT ![t] = [NoFrame EXCEPT !.on = c, !.final = final,
                                                   !.down = down]]

\* Write(text) is called on object c and returns to ret.
CallWrite(t, from, c, text, ret) ==
  /\ pc[t] = from
  /\ pc' = [pc EXCEPT ![t] = "writeLock"]
  /\ frame' = [frame EXCEPT ![t] = [@ EXCEPT !.target = c, !.text = text,
                                             !.ret = ret]]

\* Write returns; the iterator of a caller that has one stays at the target.
Returned(f) ==
  [f EXCEPT !.text = <<>>, !.ret = "next",
            !.target = IF f.ret = "next" THEN f.target ELSE 0]

WriteReturn(t, from) ==
  /\ pc[t] = from
  /\ pc' = [pc EXCEPT ![t] = frame[t].ret]
  /\ frame' = [frame EXCEPT ![t] = Returned(@)]

Lock(c, t)  == mtx[c] = NoThread /\ mtx' = [mtx EXCEPT ![c] = t]
Unlock(c)   == mtx' = [mtx EXCEPT ![c] = NoThread]
\* A critical section that is a single step.
Locking(c)  == mtx[c] = NoThread /\ UNCHANGED mtx

Count(field, n) == counter' = [counter EXCEPT ![field] = @ + n]

(***************************************************************************)
(* The calls of IIS (external).                                            *)
(***************************************************************************)
\* A connection that breaks is "broken" until a read reports it, then "reset".
Lost(c) == link[c] \in {"broken", "reset"}

\* GetCloseStatus succeeds once IIS has seen a close frame; on a lost
\* connection it may do either.
CloseStatus(c) ==
  CASE link[c] = "closed"  -> {TRUE}
    [] link[c] = "closing" -> {FALSE} \cup (IF "earlyClose" \in Env THEN {TRUE} ELSE {})
    [] Lost(c)             -> BOOLEAN
    [] OTHER               -> {FALSE}

\* What a ReadFragment answers: it completes later ("async"), in the call
\* ("sync") or fails.  ERROR_IO_PENDING means a read is outstanding already.
ReadAnswers(c) ==
  IF readIO[c] # "none" THEN {"ERROR_IO_PENDING"}
  ELSE    (IF link[c] \in {"up", "closing", "broken"} THEN {"async"} ELSE {})
     \cup (IF link[c] = "closed" \/ Lost(c) THEN {"failed"} ELSE {})
     \cup (IF "syncRead" \in Env /\ inbox[c] # <<>> THEN {"sync"} ELSE {})

ReadFragment(c, answer) ==
  /\ answer \in ReadAnswers(c)
  /\ CASE answer = "async" ->
            /\ readIO' = [readIO EXCEPT ![c] = "outstanding"]
            /\ UNCHANGED <<inbox, readBuffer>>
       [] answer = "sync" ->
            /\ readBuffer' = [readBuffer EXCEPT ![c] = <<Head(inbox[c])>>]
            /\ inbox' = [inbox EXCEPT ![c] = Tail(@)]
            /\ UNCHANGED readIO
       [] OTHER -> UNCHANGED <<readIO, inbox, readBuffer>>

\* What a WriteFragment answers.  ERROR_IO_PENDING means a write is
\* outstanding already.
WriteAnswers(c) ==
  IF writeIO[c] # "none" THEN {"ERROR_IO_PENDING"}
  ELSE    (IF link[c] # "closed" THEN {"accepted"} ELSE {})
     \cup (IF link[c] = "closed" \/ Lost(c) \/ "writeFail" \in Env
           THEN {"failed"} ELSE {})

\* IIS keeps the address of writeBuffer, not a copy of it.
WriteFragment(c, text, answer) ==
  /\ answer \in WriteAnswers(c)
  /\ IF answer = "accepted"
       THEN /\ writeIO' = [writeIO EXCEPT ![c] = "queued"]
            /\ accepted' = [accepted EXCEPT ![c] = Append(@, text)]
       ELSE UNCHANGED <<writeIO, accepted>>

CancelOutstandingIO(c) ==
  /\ readIO'  = [readIO  EXCEPT ![c] = IF @ = "outstanding" THEN "aborted" ELSE @]
  /\ writeIO' = [writeIO EXCEPT ![c] = IF @ = "queued" THEN "aborted" ELSE @]

(***************************************************************************)
(* The rest of the world: clients and the network.                         *)
(***************************************************************************)
PeerSend(c) ==
  /\ obj[c] = "live" /\ link[c] = "up" /\ sent[c] < MaxMsgs
  /\ sent' = [sent EXCEPT ![c] = @ + 1]
  /\ \E text \in {Whole(sent[c] + 1)}
              \cup (IF "fragment" \in Env THEN {Split(sent[c] + 1)} ELSE {}) :
       inbox' = [inbox EXCEPT ![c] = @ \o text]
  /\ UNCHANGED <<threadVars, bufferVars, sharedVars, writeVars, obj,
                 connectionId, mtx, process, indicated, link, readIO>>

PeerLeaves(c) ==
  /\ obj[c] = "live" /\ link[c] \in {"up", "closing"}
  /\ \/ "close" \in Env /\ link[c] = "up" /\ link' = [link EXCEPT ![c] = "closing"]
     \/ /\ "abort" \in Env /\ Cardinality({d \in Conns : Lost(d)}) < MaxBreaks
        /\ link' = [link EXCEPT ![c] = "broken"]
  /\ UNCHANGED <<threadVars, bufferVars, sharedVars, readVars, writeVars, obj,
                 connectionId, mtx, process, indicated, sent>>

(***************************************************************************)
(* IIS completes an outstanding operation (external): a read with a        *)
(* fragment, with a close frame or with an error, in a thread that enters  *)
(* ContinuousReadAsyncCompletion; a write by sending what writeBuffer      *)
(* holds at that moment, or with an error, and by posting its callback.    *)
(***************************************************************************)
ReadCompletes(t, c) ==
  /\ readIO[c] = "outstanding" /\ inbox[c] # <<>> /\ link[c] # "broken"
  /\ Start(t, c, "readLock", Head(inbox[c])[2] = "final", FALSE)
  /\ readBuffer' = [readBuffer EXCEPT ![c] = <<Head(inbox[c])>>]
  /\ inbox' = [inbox EXCEPT ![c] = Tail(@)]
  /\ readIO' = [readIO EXCEPT ![c] = "none"]
  /\ UNCHANGED <<sharedVars, writeVars, obj, connectionId, mtx, data,
                 writeBuffer, process, indicated, link, sent>>

ReadCloses(t, c) ==
  /\ readIO[c] = "outstanding" /\ inbox[c] = <<>> /\ link[c] = "closing"
  /\ Start(t, c, "readLock", TRUE, TRUE)
  /\ link' = [link EXCEPT ![c] = "closed"]
  /\ readIO' = [readIO EXCEPT ![c] = "none"]
  /\ UNCHANGED <<bufferVars, sharedVars, writeVars, obj, connectionId, mtx,
                 process, indicated, inbox, sent>>

ReadFails(t, c) ==
  /\ \/ readIO[c] = "outstanding" /\ link[c] = "broken"
     \/ readIO[c] = "aborted"
  /\ \E final \in BOOLEAN : Start(t, c, "readLock", final, TRUE)
  /\ readIO' = [readIO EXCEPT ![c] = "none"]
  /\ link' = [link EXCEPT ![c] = IF @ = "broken" THEN "reset" ELSE @]
  /\ UNCHANGED <<bufferVars, sharedVars, writeVars, obj, connectionId, mtx,
                 process, indicated, inbox, sent>>

WriteEnds(c) ==
  /\ writeIO[c] # "none"
  /\ writeIO' = [writeIO EXCEPT ![c] = "none"]
  /\ posted' = [posted EXCEPT ![c] = @ + 1]
  /\ UNCHANGED <<threadVars, bufferVars, sharedVars, readVars, obj,
                 connectionId, mtx, process, indicated, link, accepted, sent>>

WriteCompletes(t, c) ==
  /\ posted[c] > 0
  /\ Start(t, c, "writeCb", TRUE, FALSE)
  /\ posted' = [posted EXCEPT ![c] = @ - 1]
  /\ UNCHANGED <<bufferVars, sharedVars, readVars, obj, connectionId, mtx,
                 process, indicated, link, writeIO, accepted, sent>>

=============================================================================
