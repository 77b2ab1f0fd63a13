---------------------------- MODULE StressClient ----------------------------
(***************************************************************************)
(* The stress test (WinHTTP WebSocket sample/C++/WinHttpWebSocket.cpp)     *)
(* against the echo service: wmain starts threads and waits for all of     *)
(* them; each thread opens a WebSocket, sends messages and takes what it   *)
(* receives next as the answer.  The service is the abstract one of        *)
(* EchoSession.tla, and need not be orderly: so many connections that come *)
(* and go at once may well race for its registry.                          *)
(***************************************************************************)
EXTENDS Integers, Sequences, FiniteSets

CONSTANTS
  MaxThreads,  \* MAX_THREADS (50)
  Loops,       \* messages a thread sends (10000)
  BufSize,     \* ARRAYSIZE(rgbBuffer), in units
  MaxLen,      \* BOUND: the length of a message of the service, in units
  MaxTold      \* BOUND: messages of the service to one thread

ASSUME MaxThreadsAssumption == MaxThreads \in Nat \ {0}
ASSUME LoopsAssumption      == Loops \in Nat \ {0}
ASSUME BufSizeAssumption    == BufSize \in Nat \ {0}
ASSUME MaxLenAssumption     == MaxLen \in Nat \ {0}
ASSUME MaxToldAssumption    == MaxTold \in Nat

Clients == 1..MaxThreads

VARIABLES
  main,      \* "exit" once wmain returned or the process ended
  created,   \* the number of threads it created
  pc,        \* where each thread is
  stage,     \* how many calls of the handshake succeeded
  handle,    \* the handle variables that are not NULL
  opened,    \* the handles ever opened
  closes,    \* how often WinHttpCloseHandle was called on each
  failed,    \* dwError # ERROR_SUCCESS
  i,         \* the message that is sent
  used,      \* pbCurrentBufferPointer - rgbBuffer
  room,      \* dwBufferLength
  left,      \* what remains of the message being received, 0 when none is
  read,      \* the number of messages received
  life, sent, told, orderly  \* the service, see EchoSession

mainVars    == <<main, created>>
handleVars  == <<stage, handle, opened, closes>>
receiveVars == <<used, room, left, read>>
service     == <<life, sent, told, orderly>>
vars == <<main, created, pc, stage, handle, opened, closes, failed, i,
          used, room, left, read, life, sent, told, orderly>>

Service == INSTANCE EchoSession WITH Conns <- Clients

Handles == {"session", "connection", "request", "websocket"}

\* The calls of the handshake, the handle each opens, and whether its failure
\* is kept in dwError.
Calls == << [opens |-> {"session"},    kept |-> FALSE],  \* WinHttpOpen
            [opens |-> {"connection"}, kept |-> FALSE],  \* WinHttpConnect
            [opens |-> {"request"},    kept |-> FALSE],  \* WinHttpOpenRequest
            [opens |-> {},             kept |-> FALSE],  \* WinHttpSetOption
            [opens |-> {},             kept |-> TRUE],   \* WinHttpSendRequest
            [opens |-> {},             kept |-> TRUE],   \* WinHttpReceiveResponse
            [opens |-> {"websocket"},  kept |-> FALSE] >> \* ...CompleteUpgrade

Sending   == 5  \* the request reaches the service once this call succeeds
Receiving == 6  \* the call that succeeds once the service has answered

Init ==
  /\ main = "create" /\ created = 0
  /\ pc = [k \in Clients |-> "none"]
  /\ stage = [k \in Clients |-> 0]
  /\ handle = [k \in Clients |-> {}]
  /\ opened = [k \in Clients |-> {}]
  /\ closes = [k \in Clients |-> [h \in Handles |-> 0]]
  /\ failed = [k \in Clients |-> FALSE]
  /\ i = [k \in Clients |-> 1]
  /\ used = [k \in Clients |-> 0]
  /\ room = [k \in Clients |-> BufSize]
  /\ left = [k \in Clients |-> 0]
  /\ read = [k \in Clients |-> 0]
  /\ Service!Init /\ orderly = FALSE

----------------------------------------------------------------------------
(***************************************************************************)
(* wmain.                                                                  *)
(***************************************************************************)
CreateThread ==
  /\ main = "create" /\ created < MaxThreads
  /\ created' = created + 1
  /\ pc' = [pc EXCEPT ![created'] = "handshake"]
  /\ UNCHANGED <<main, handleVars, failed, i, receiveVars, service>>

\* HeapAlloc or CreateThread fails: ExitProcess ends the threads there are.
CreateFails ==
  /\ main = "create" /\ created < MaxThreads
  /\ main' = "exit"
  /\ UNCHANGED <<created, pc, handleVars, failed, i, receiveVars, service>>

\* WaitForMultipleObjects(..., TRUE, INFINITE), after which wmain returns.
WaitThreads ==
  /\ main = "create" /\ created = MaxThreads
  /\ \A k \in Clients : pc[k] = "ended"
  /\ main' = "exit"
  /\ UNCHANGED <<created, pc, handleVars, failed, i, receiveVars, service>>

----------------------------------------------------------------------------
(***************************************************************************)
(* threadWebSocket.                                                        *)
(***************************************************************************)
Goto(k, from, to) == pc[k] = from /\ pc' = [pc EXCEPT ![k] = to]

\* goto quit with dwError set.
Quit(k, from) == Goto(k, from, "quit") /\ failed' = [failed EXCEPT ![k] = TRUE]

CallFails(k) ==
  /\ Goto(k, "handshake", "quit")
  /\ failed' = [failed EXCEPT ![k] = Calls[stage[k] + 1].kept]
  /\ UNCHANGED <<mainVars, handleVars, i, receiveVars, service>>

CallSucceeds(k) ==
  LET call == stage[k] + 1 IN
  /\ call < Len(Calls)
  /\ call = Receiving => life[k] # "new"
  /\ Goto(k, "handshake", "handshake")
  /\ stage' = [stage EXCEPT ![k] = call]
  /\ handle' = [handle EXCEPT ![k] = @ \cup Calls[call].opens]
  /\ opened' = [opened EXCEPT ![k] = @ \cup Calls[call].opens]
  /\ UNCHANGED <<mainVars, closes, failed, i, receiveVars, service>>

\* A bug: hRequestHandle is not reset.
UpgradeKeepsHandle(k) ==
  /\ stage[k] + 1 = Len(Calls)
  /\ Goto(k, "handshake", "send")
  /\ stage' = [stage EXCEPT ![k] = @ + 1]
  /\ handle' = [handle EXCEPT ![k] = @ \cup {"websocket"}]
  /\ opened' = [opened EXCEPT ![k] = @ \cup {"websocket"}]
  /\ closes' = [closes EXCEPT ![k]["request"] = @ + 1]
  /\ UNCHANGED <<mainVars, failed, i, receiveVars, service>>

\* WinHttpWebSocketCompleteUpgrade; the request handle is closed and reset.
Upgrade(k) ==
  /\ stage[k] + 1 = Len(Calls)
  /\ Goto(k, "handshake", "send")
  /\ stage' = [stage EXCEPT ![k] = @ + 1]
  /\ handle' = [handle EXCEPT ![k] = (@ \cup {"websocket"}) \ {"request"}]
  /\ opened' = [opened EXCEPT ![k] = @ \cup {"websocket"}]
  /\ closes' = [closes EXCEPT ![k]["request"] = @ + 1]
  /\ UNCHANGED <<mainVars, failed, i, receiveVars, service>>

\* A bug: the next message may be sent before an answer was received.
SendAhead(k) ==
  /\ \E to \in {"send", "receive"} : Goto(k, "send", to)
  /\ sent[k] < Loops
  /\ Service!Send(k)
  /\ UNCHANGED <<mainVars, handleVars, failed, i, receiveVars>>

Send(k) ==
  /\ Goto(k, "send", "receive")
  /\ Service!Send(k)
  /\ UNCHANGED <<mainVars, handleVars, failed, i, receiveVars>>

\* A bug: dwError is not set.
LoopEnds(k) ==
  /\ Goto(k, "send", "quit") \/ Goto(k, "receive", "quit")
  /\ UNCHANGED <<mainVars, handleVars, failed, i, receiveVars, service>>

\* WinHttpWebSocketSend or WinHttpWebSocketReceive fails or times out, there
\* is no room left in rgbBuffer, or what arrives is a close frame, which is
\* not the type that is expected.
LoopFails(k) ==
  /\ Quit(k, "send") \/ Quit(k, "receive")
  /\ UNCHANGED <<mainVars, handleVars, i, receiveVars, service>>

\* A bug: dwBufferLength is neither tested nor reduced, the size offered is
\* always ARRAYSIZE(rgbBuffer).
ReceiveFullSize(k) ==
  /\ pc[k] = "receive" /\ read[k] < Len(told[k])
  /\ \E total \in IF left[k] = 0 THEN 1..MaxLen ELSE {left[k]}, n \in 1..BufSize :
       /\ n <= total
       /\ left' = [left EXCEPT ![k] = total - n]
       /\ used' = [used EXCEPT ![k] = @ + n]
       /\ room' = [room EXCEPT ![k] = @ - n]
  /\ Goto(k, "receive", IF left'[k] = 0 THEN "print" ELSE "receive")
  /\ UNCHANGED <<mainVars, handleVars, failed, i, read, service>>

\* One WinHttpWebSocketReceive gets some of the next message: a fragment, and
\* it is called again, or the rest.
Receive(k) ==
  /\ pc[k] = "receive" /\ room[k] > 0
  /\ read[k] < Len(told[k])
  /\ \E total \in IF left[k] = 0 THEN 1..MaxLen ELSE {left[k]}, n \in 1..room[k] :
       /\ n <= total
       /\ left' = [left EXCEPT ![k] = total - n]
       /\ used' = [used EXCEPT ![k] = @ + n]
       /\ room' = [room EXCEPT ![k] = @ - n]
  /\ Goto(k, "receive", IF left'[k] = 0 THEN "print" ELSE "receive")
  /\ UNCHANGED <<mainVars, handleVars, failed, i, read, service>>

\* A bug: dwBufferLength is not reset.
AnswerKeepsRoom(k) ==
  /\ Goto(k, "print", IF i[k] = Loops THEN "close" ELSE "send")
  /\ i' = [i EXCEPT ![k] = @ + 1]
  /\ read' = [read EXCEPT ![k] = @ + 1]
  /\ used' = [used EXCEPT ![k] = 0]
  /\ UNCHANGED <<mainVars, handleVars, failed, left, room, service>>

\* The message is taken as the answer to the one sent; the buffer is reset.
Answer(k) ==
  /\ Goto(k, "print", IF i[k] = Loops THEN "close" ELSE "send")
  /\ i' = [i EXCEPT ![k] = @ + 1]
  /\ read' = [read EXCEPT ![k] = @ + 1]
  /\ used' = [used EXCEPT ![k] = 0]
  /\ room' = [room EXCEPT ![k] = BufSize]
  /\ UNCHANGED <<mainVars, handleVars, failed, left, service>>

\* WinHttpWebSocketClose and WinHttpWebSocketQueryCloseStatus.
Close(k) ==
  /\ \/ Goto(k, "close", "quit") /\ UNCHANGED failed
     \/ Quit(k, "close")
  /\ UNCHANGED <<mainVars, handleVars, i, receiveVars, service>>

\* The label quit, to the end of the thread and of its locals.
End(k) ==
  /\ Goto(k, "quit", "ended")
  /\ closes' = [closes EXCEPT ![k] =
       [h \in Handles |-> IF h \in handle[k] THEN @[h] + 1 ELSE @[h]]]
  /\ handle' = [handle EXCEPT ![k] = {}]
  /\ i' = [i EXCEPT ![k] = 1]
  /\ used' = [used EXCEPT ![k] = 0]
  /\ room' = [room EXCEPT ![k] = BufSize]
  /\ left' = [left EXCEPT ![k] = 0]
  /\ UNCHANGED <<mainVars, stage, opened, failed, read, service>>

ThreadStep(k) == \/ CallFails(k) \/ CallSucceeds(k) \/ Upgrade(k) \/ Send(k)
                 \/ LoopFails(k) \/ Receive(k) \/ Answer(k) \/ Close(k) \/ End(k)

\* The service (external here): it opens or refuses a session that was asked
\* for, echoes, tells of other sessions, and finishes.  A client whose
\* connection is lost sees its call fail; what a client that has left the
\* loop is told goes nowhere, and what it is told while it prints it might as
\* well be told at its next call.
Serve(k) ==
  /\ stage[k] >= Sending /\ pc[k] \in {"handshake", "send", "receive"}
  /\ \/ Service!Open(k) \/ Service!Finish(k)
     \/ /\ Len(told[k]) < MaxTold
        /\ \/ \E m \in 1..sent[k] : Service!Echo(k, m)
           \/ \E d \in Clients : Service!Enter(k, d)
  /\ UNCHANGED <<mainVars, pc, handleVars, failed, i, receiveVars>>

Next ==
  /\ main # "exit"
  /\ \/ CreateThread \/ CreateFails \/ WaitThreads
     \/ \E k \in Clients : ThreadStep(k) \/ Serve(k)

Spec == Init /\ [][Next]_vars

----------------------------------------------------------------------------
\* The values every variable takes; room is never less than nothing.
TypeOK ==
  /\ main \in {"create", "exit"} /\ created \in 0..MaxThreads
  /\ pc \in [Clients -> {"none", "handshake", "send", "receive", "print",
                         "close", "quit", "ended"}]
  /\ stage \in [Clients -> 0..Len(Calls)]
  /\ handle \in [Clients -> SUBSET Handles]
  /\ opened \in [Clients -> SUBSET Handles]
  /\ closes \in [Clients -> [Handles -> Nat]]
  /\ failed \in [Clients -> BOOLEAN]
  /\ i \in [Clients -> 1..(Loops + 1)]
  /\ used \in [Clients -> Nat] /\ room \in [Clients -> Nat]
  /\ left \in [Clients -> Nat] /\ read \in [Clients -> Nat]

\* Wherever a thread gives up, it closes every handle it opened, and none
\* twice, though the request handle is closed before the others.
HandlesClosedOnce ==
  \A k \in Clients : \A h \in opened[k] :
    /\ closes[k][h] <= 1
    /\ pc[k] = "ended" => closes[k][h] = 1

\* The pointer and the length that WinHttpWebSocketReceive is given always
\* describe what is left of rgbBuffer, over fragments and messages.
BufferFits == \A k \in Clients : used[k] + room[k] = BufSize

\* A thread that upgraded its connection and reports no error has received
\* one message for every message it was to send.
ZeroMeansDone ==
  \A k \in Clients :
    pc[k] = "ended" /\ "websocket" \in opened[k] /\ ~failed[k]
    => sent[k] = Loops /\ read[k] = Loops

\* What is taken as the answer to message n may be a notice or the echo of an
\* earlier message, but never the echo of a later one.
AnswerNotAhead ==
  \A k \in Clients : \A n \in 1..read[k], m \in 1..sent[k] :
    told[k][n] = <<"echo", m>> => m <= n
=============================================================================
