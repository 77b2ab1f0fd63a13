----------------------------- MODULE HttpModule -----------------------------
(***************************************************************************)
(* src/mymodule.cpp: what CMyHttpModule does with a request.  IIS calls    *)
(* OnBeginRequest in a pool thread of its own for every request; what it   *)
(* returns completes the request or leaves it pending, to be completed by  *)
(* IndicateCompletion: that of the WebSocket session (MyWebSocket.tla), or *)
(* that of the thread which runs ExecuteRequest.  p_log->write can throw,  *)
(* when the log rotates; OnBeginRequest then ends in its catch.  The       *)
(* objects around these handlers, and the later notifications, are in      *)
(* ModuleLife.tla.                                                         *)
(***************************************************************************)
EXTENDS Integers, Sequences, FiniteSets

CONSTANTS
  Requests,     \* BOUND: the requests there are
  Commands,     \* BOUND: the commands a request may carry
  MaxBody,      \* BOUND: bytes in the body of a request
  WarmupNests,  \* whether BeginApplicationWarmup counts, or sets a flag
  LogThrows     \* whether p_log->write throws

ASSUME RequestsAssumption == IsFiniteSet(Requests)
ASSUME MaxBodyAssumption == MaxBody \in Nat
ASSUME WarmupNestsAssumption == WarmupNests \in BOOLEAN
ASSUME LogThrowsAssumption == LogThrows \in BOOLEAN

VARIABLES
  url,        \* the command, what follows the last '/' of the raw URL
  pc,         \* where OnBeginRequest is
  result,     \* the REQUEST_NOTIFICATION_STATUS it returned
  thread,     \* where the detached thread of ExecuteRequest is
  session,    \* the session of a WebSocket request
  indicated,  \* how often IndicateCompletion(FINISH_REQUEST) was called
  thrown,     \* the requests OnBeginRequest gave up after it had left them to another
  body,       \* the request's entity body, as it came
  unread,     \* the part of it that ReadEntityBody still returns
  received,   \* cbBytesReceived, the size offered to ReadEntityBody
  data,       \* what GetEntity gathered
  response,   \* the chunks of the response
  status,     \* its status
  requests,   \* g_IISCounter.requests
  warming,    \* the warm-up state of the application
  crashed     \* whether a request ended the process

entityVars   == <<body, unread, received, data>>
responseVars == <<response, status>>
asyncVars    == <<thread, session, indicated, thrown>>
vars == <<url, pc, result, thread, session, indicated, thrown, body, unread,
          received, data, response, status, requests, warming, crashed>>

\* A byte is NUL or not.
Bodies == UNION {[1..n -> {"byte", "NUL"}] : n \in 0..MaxBody}

\* urlmap, another command, and a URL without '/'.
Urls == {"websocket", "get_test", "post_test", "post_file", "post_async",
         "other", "noSlash"}

ASSUME CommandsAssumption == Commands \in [Requests -> SUBSET Urls]

Init ==
  /\ url = [r \in Requests |-> "none"]
  /\ pc = [r \in Requests |-> "idle"]
  /\ result = [r \in Requests |-> "none"]
  /\ thread = [r \in Requests |-> "none"]
  /\ session = [r \in Requests |-> "none"]
  /\ indicated = [r \in Requests |-> 0]
  /\ thrown = {}
  /\ body = [r \in Requests |-> <<>>]
  /\ unread = [r \in Requests |-> <<>>]
  /\ received = [r \in Requests |-> 0]
  /\ data = [r \in Requests |-> <<>>]
  /\ response = [r \in Requests |-> <<>>]
  /\ status = [r \in Requests |-> 200]
  /\ requests = 0
  /\ warming = 0
  /\ crashed = FALSE

----------------------------------------------------------------------------
Goto(r, from, to) ==
  pc[r] = from /\ pc' = [pc EXCEPT ![r] = to] /\ UNCHANGED <<url, result>>

Return(r, from, with) ==
  /\ pc[r] = from /\ pc' = [pc EXCEPT ![r] = "returned"]
  /\ result' = [result EXCEPT ![r] = with]
  /\ UNCHANGED url

SetStatus(r, code) == status' = [status EXCEPT ![r] = code] /\ UNCHANGED response
AddChunk(r, chunk) == response' = [response EXCEPT ![r] = Append(@, chunk)] /\ UNCHANGED status

\* The label Finished with FAILED(hr).
Fails(r, from) == Return(r, from, "finish") /\ SetStatus(r, 500)

\* The catch of OnBeginRequest.
Throws(r, from) == Return(r, from, "continue") /\ SetStatus(r, 500)

Begin(r) ==
  /\ pc[r] = "idle" /\ pc' = [pc EXCEPT ![r] = "dispatch"]
  /\ \E u \in Commands[r], b \in Bodies :
       /\ url' = [url EXCEPT ![r] = u]
       /\ body' = [body EXCEPT ![r] = IF u \in {"post_file", "post_async"} THEN b ELSE <<>>]
  /\ unread' = [unread EXCEPT ![r] = body'[r]]
  /\ received' = [received EXCEPT ![r] = Len(body'[r])]
  /\ requests' = requests + 1
  /\ UNCHANGED <<result, asyncVars, data, responseVars, warming>>

\* A bug: a command that is not in urlmap goes into the switch.
DispatchAny(r) ==
  /\ IF url[r] = "noSlash" THEN Throws(r, "dispatch")
       ELSE Goto(r, "dispatch", url[r]) /\ UNCHANGED responseVars
  /\ UNCHANGED <<asyncVars, entityVars, requests, warming>>

\* find_last_of answers npos when there is no '/', and substr(npos) throws.
Dispatch(r) ==
  /\ CASE url[r] = "noSlash" -> Throws(r, "dispatch")
       [] url[r] = "other"   -> Return(r, "dispatch", "continue") /\ UNCHANGED responseVars
       [] OTHER              -> Goto(r, "dispatch", url[r]) /\ UNCHANGED responseVars
  /\ UNCHANGED <<asyncVars, entityVars, requests, warming>>

(***************************************************************************)
(* p_log->write throws, in the first line (the request is not counted yet, *)
(* nor is its URL read), before or after the page was written, or once the *)
(* session reads or the thread runs: then the request is completed though  *)
(* another is to complete it.                                              *)
(***************************************************************************)
LogFails(r) ==
  /\ LogThrows
  /\ pc[r] \in {"idle", "dispatch", "websocket", "upgrade", "get_test", "reading", "pending"}
  /\ Return(r, pc[r], "continue")
  /\ status' = [status EXCEPT ![r] = 500]
  /\ \/ UNCHANGED response
     \/ pc[r] = "get_test" /\ response' = [response EXCEPT ![r] = Append(@, "page")]
  /\ thrown' = IF pc[r] \in {"reading", "pending"} THEN thrown \cup {r} ELSE thrown
  /\ UNCHANGED <<thread, session, indicated, entityVars, requests, warming>>

(***************************************************************************)
(* WEB_SOCKET.  What SetStatus and Flush answer is not acted on.           *)
(***************************************************************************)
\* GetVariable leaves a pointer NULL when the request has no such header, and
\* the user agent is written to a stream, the key passed to generate: no catch
\* of OnBeginRequest stops that.
HeaderMissing(r) ==
  /\ pc[r] = "websocket" /\ crashed' = TRUE
  /\ UNCHANGED <<url, pc, result, asyncVars, entityVars, responseVars, requests, warming>>

Handshake(r) ==
  /\ Goto(r, "websocket", "upgrade")
  /\ response' = [response EXCEPT ![r] = <<>>]
  /\ status' = [status EXCEPT ![r] = 101]
  /\ UNCHANGED <<asyncVars, entityVars, requests, warming>>

Upgrade(r) ==
  /\ \/ Fails(r, "upgrade") /\ UNCHANGED session
     \/ /\ Goto(r, "upgrade", "reading")
        /\ session' = [session EXCEPT ![r] = "open"]
        /\ UNCHANGED responseVars
  /\ UNCHANGED <<thread, indicated, thrown, entityVars, requests, warming>>

\* What continuousReading does once its ReadFragment was called: its lines show
\* readBuffer, which is memory of the request.
ReadLogged(r) ==
  /\ Goto(r, "reading", "pending")
  /\ UNCHANGED <<asyncVars, entityVars, responseVars, requests, warming>>

\* CleanupStoredContext, which can come before OnBeginRequest returned: it
\* completes the request, then closes the connection of the request's
\* IWebSocketContext.
SessionEnds(r) ==
  /\ session[r] = "open" /\ session' = [session EXCEPT ![r] = "indicated"]
  /\ indicated' = [indicated EXCEPT ![r] = @ + 1]
  /\ UNCHANGED <<url, pc, result, thread, thrown, entityVars, responseVars, requests, warming>>

SessionCloses(r) ==
  /\ session[r] = "indicated" /\ session' = [session EXCEPT ![r] = "done"]
  /\ UNCHANGED <<url, pc, result, thread, indicated, thrown, entityVars, responseVars,
                 requests, warming>>

\* A bug: the request is finished, as ExecuteRequest returns it.
PendingFinishes(r) ==
  /\ Return(r, "pending", "finish")
  /\ UNCHANGED <<asyncVars, entityVars, responseVars, requests, warming>>

Pending(r) ==
  /\ Return(r, "pending", "pending")
  /\ UNCHANGED <<asyncVars, entityVars, responseVars, requests, warming>>

\* WEB_REQUEST_GET: the page of counters is written, or cannot be.
Page(r) ==
  /\ \/ Return(r, "get_test", "finish") /\ AddChunk(r, "page")
     \/ Return(r, "get_test", "continue") /\ UNCHANGED responseVars
  /\ UNCHANGED <<asyncVars, entityVars, requests, warming>>

(***************************************************************************)
(* GetEntity.  ReadEntityBody returns some of what there is, up to the     *)
(* size offered, and overwrites that size.  What was gathered is set back  *)
(* with strcpy and strlen, that is up to the first NUL.                    *)
(***************************************************************************)
ReadEntityBody(r) ==
  /\ unread[r] # <<>>
  /\ \E n \in 1..received[r] :
       /\ n <= Len(unread[r])
       /\ data' = [data EXCEPT ![r] = @ \o SubSeq(unread[r], 1, n)]
       /\ unread' = [unread EXCEPT ![r] = SubSeq(@, n + 1, Len(@))]
       /\ received' = [received EXCEPT ![r] = n]
  /\ UNCHANGED body

UpToNUL(b) ==
  CHOOSE p \in {SubSeq(b, 1, n) : n \in 0..Len(b)} :
    /\ \A i \in 1..Len(p) : p[i] # "NUL"
    /\ p = b \/ b[Len(p) + 1] = "NUL"

\* A bug GetEntity might have: what the last read returned is set back.
LastReadSetBack(r) ==
  /\ unread' = [unread EXCEPT ![r] =
       IF @ = <<>> THEN UpToNUL(SubSeq(data[r], Len(data[r]) - received[r] + 1, Len(data[r])))
                   ELSE @]
  /\ UNCHANGED <<body, received, data>>

\* Everything was read and set back, or a ReadEntityBody failed; no caller of
\* GetEntity looks at what it returns.
GetEntityReturns(r) ==
  /\ unread' = [unread EXCEPT ![r] = IF @ = <<>> THEN UpToNUL(data[r]) ELSE @]
  /\ UNCHANGED <<body, received, data>>

(***************************************************************************)
(* WEB_REQUEST_POST_FILE.  Only the first of three writes of the response  *)
(* is tested.  The file that is stored has no part in this model.          *)
(***************************************************************************)
FileEntity(r) ==
  /\ \/ Goto(r, "post_file", "post_file") /\ ReadEntityBody(r)
     \/ Goto(r, "post_file", "raw") /\ GetEntityReturns(r)
  /\ UNCHANGED <<asyncVars, responseVars, requests, warming>>

\* WriteEntityChunkByReference, or SetErrorStatus.
FileRaw(r) ==
  /\ \/ Goto(r, "raw", "texts") /\ AddChunk(r, "raw")
     \/ Return(r, "raw", "continue") /\ SetStatus(r, 500)
  /\ UNCHANGED <<asyncVars, entityVars, requests, warming>>

FileTexts(r) ==
  /\ Return(r, "texts", "finish")
  /\ \E texts \in {<<>>, <<"text">>, <<"text", "text">>} :
       response' = [response EXCEPT ![r] = @ \o texts]
  /\ UNCHANGED <<status, asyncVars, entityVars, requests, warming>>

(***************************************************************************)
(* WEB_REQUEST_ASYNC_THREAD and the thread it detaches.                    *)
(***************************************************************************)
\* A bug: break without return RQ_NOTIFICATION_PENDING.
AsyncFallsThrough(r) ==
  /\ Goto(r, "post_async", "post_test")
  /\ thread' = [thread EXCEPT ![r] = "entity"]
  /\ UNCHANGED <<session, indicated, thrown, entityVars, responseVars, requests, warming>>

AsyncThread(r) ==
  /\ \/ Throws(r, "post_async") /\ UNCHANGED thread
     \/ /\ Goto(r, "post_async", "pending")
        /\ thread' = [thread EXCEPT ![r] = "entity"]
        /\ UNCHANGED responseVars
  /\ UNCHANGED <<session, indicated, thrown, entityVars, requests, warming>>

Thread(r, from, to) == thread[r] = from /\ thread' = [thread EXCEPT ![r] = to]

ExecuteEntity(r) ==
  /\ \/ Thread(r, "entity", "entity") /\ ReadEntityBody(r)
     \/ Thread(r, "entity", "write") /\ GetEntityReturns(r)
  /\ UNCHANGED <<url, pc, result, session, indicated, thrown, responseVars, requests, warming>>

\* A bug: FAILED(hr) is not tested.
WriteUntested(r) ==
  /\ Thread(r, "write", "indicate")
  /\ AddChunk(r, "raw") \/ UNCHANGED responseVars
  /\ UNCHANGED <<url, pc, result, session, indicated, thrown, entityVars, requests, warming>>

\* After 10 s.  When the write fails the thread ends without a completion.
ExecuteWrite(r) ==
  /\ \/ Thread(r, "write", "indicate") /\ AddChunk(r, "raw")
     \/ Thread(r, "write", "failed") /\ UNCHANGED responseVars
  /\ UNCHANGED <<url, pc, result, session, indicated, thrown, entityVars, requests, warming>>

\* A bug: the thread returns RQ_NOTIFICATION_FINISH_REQUEST and indicates nothing.
ReturnsOnly(r) ==
  /\ Thread(r, "indicate", "done")
  /\ UNCHANGED <<url, pc, result, session, indicated, thrown, entityVars, responseVars, requests, warming>>

ExecuteIndicate(r) ==
  /\ Thread(r, "indicate", "done")
  /\ indicated' = [indicated EXCEPT ![r] = @ + 1]
  /\ UNCHANGED <<url, pc, result, session, thrown, entityVars, responseVars, requests, warming>>

(***************************************************************************)
(* What WEB_REQUEST_POST_DATA, which has no case of its own, falls into:   *)
(* the warm-up of the application, which all requests share.  An           *)
(* application that is not (or still) warming up is S_FALSE, no failure.   *)
(***************************************************************************)
Warmup(r) ==
  /\ \/ Fails(r, "post_test") /\ UNCHANGED warming
     \/ /\ Goto(r, "post_test", "begun") /\ UNCHANGED responseVars
        /\ warming' = IF WarmupNests THEN warming + 1 ELSE 1
  /\ UNCHANGED <<asyncVars, entityVars, requests>>

\* A bug: QueryIsWarmingUp for !QueryIsWarmingUp.
QueryInverted(r) ==
  /\ IF warming # 0 THEN Return(r, "begun", "continue") ELSE Goto(r, "begun", "warm")
  /\ UNCHANGED <<asyncVars, entityVars, responseVars, requests, warming>>

WarmupBegun(r) ==
  /\ IF warming = 0 THEN Return(r, "begun", "continue") ELSE Goto(r, "begun", "warm")
  /\ UNCHANGED <<asyncVars, entityVars, responseVars, requests, warming>>

WarmupEnds(r) ==
  /\ Return(r, "warm", "continue")
  /\ warming' = IF WarmupNests THEN warming - 1 ELSE 0
  /\ UNCHANGED <<asyncVars, entityVars, responseVars, requests>>

----------------------------------------------------------------------------
OnBeginRequest(r) ==
  \/ Dispatch(r) \/ Handshake(r) \/ Upgrade(r) \/ ReadLogged(r) \/ Pending(r) \/ Page(r)
  \/ FileEntity(r) \/ FileRaw(r) \/ FileTexts(r) \/ AsyncThread(r)
  \/ Warmup(r) \/ WarmupBegun(r) \/ WarmupEnds(r)

ExecuteRequest(r) == ExecuteEntity(r) \/ ExecuteWrite(r) \/ ExecuteIndicate(r)

CleanupStoredContext(r) == SessionEnds(r) \/ SessionCloses(r)

Step(r) ==
  /\ Begin(r) \/ LogFails(r) \/ OnBeginRequest(r) \/ ExecuteRequest(r) \/ CleanupStoredContext(r)
  /\ UNCHANGED crashed

Next == ~crashed /\ \E r \in Requests : Step(r) \/ HeaderMissing(r)

Spec == Init /\ [][Next]_vars

----------------------------------------------------------------------------
Completed(r) == result[r] \in {"continue", "finish"} \/ indicated[r] > 0

Text == Seq({"byte", "NUL"})

ControlTypeOK ==
  /\ url \in [Requests -> Urls \cup {"none"}]
  /\ pc \in [Requests -> (Urls \ {"other", "noSlash"}) \cup
               {"idle", "dispatch", "upgrade", "reading", "pending", "raw", "texts",
                "begun", "warm", "returned"}]
  /\ result \in [Requests -> {"none", "continue", "pending", "finish"}]
  /\ thread \in [Requests -> {"none", "entity", "write", "indicate", "done", "failed"}]
  /\ session \in [Requests -> {"none", "open", "indicated", "done"}]
  /\ indicated \in [Requests -> Nat]
  /\ thrown \in SUBSET Requests
  /\ response \in [Requests -> Seq({"page", "raw", "text"})]
  /\ status \in [Requests -> {101, 200, 500}]
  /\ requests \in Nat
  /\ warming \in Nat

EntityTypeOK ==
  /\ body \in [Requests -> Text] /\ unread \in [Requests -> Text]
  /\ received \in [Requests -> Nat] /\ data \in [Requests -> Text]

\* The values every variable takes.
TypeOK == ControlTypeOK /\ EntityTypeOK /\ crashed \in BOOLEAN

\* A request is completed once: by what OnBeginRequest returns, or by one
\* IndicateCompletion when that is PENDING (or will be).  A log that throws
\* changes that only after the request was left to a session or a thread.
CompletedOnce ==
  \A r \in Requests :
    /\ indicated[r] <= 1
    /\ indicated[r] = 1 => result[r] \in {"none", "pending"} \/ r \in thrown
    /\ pc[r] = "returned" /\ result[r] = "pending" => session[r] # "none" \/ thread[r] # "none"

Calling(r)     == pc[r] \notin {"idle", "pending", "returned"}
UsesContext(r) == Calling(r) \/ thread[r] \in {"entity", "write", "indicate"}
                             \/ session[r] \in {"open", "indicated"}

\* What belongs to a request (its IHttpContext, IWebSocketContext and memory)
\* is used after the completion in two places only, both of a session that
\* indicated it: where CleanupStoredContext goes on to close the connection,
\* and where continuousReading still logs the readBuffer.  Neither the rest of
\* OnBeginRequest nor ExecuteRequest, which outlives it, uses a completed
\* request, unless the log threw once another had it.
ContextLives ==
  \A r \in Requests \ thrown :
    UsesContext(r) /\ Completed(r)
    => /\ session[r] \in {"indicated", "done"}
       /\ session[r] = "indicated" \/ pc[r] = "reading"

\* A request that is finished, rather than left to the modules that follow,
\* has been answered: by a status 500, by something in the response, or by a
\* session.
FinishedAnswered ==
  \A r \in Requests :
    result[r] = "finish" \/ indicated[r] > 0
    => status[r] = 500 \/ response[r] # <<>> \/ session[r] # "none"

Gathering(r) == pc[r] = "post_file" \/ thread[r] = "entity"
Gathered(r)  == pc[r] \in {"raw", "texts"} \/ thread[r] \in {"write", "indicate"}

\* "set it back in the request": however many reads GetEntity takes, it loses
\* no byte, and once it has the whole body the request has it again, if there
\* is no NUL in it.
BodySetBack ==
  \A r \in Requests :
    /\ Gathering(r) => body[r] = data[r] \o unread[r]
    /\ Gathered(r) /\ data[r] = body[r] /\ (\A i \in 1..Len(body[r]) : body[r][i] # "NUL")
       => unread[r] = body[r]

\* However the requests that go through the warm-up interleave, they do not
\* leave the application in it.
WarmupEnded ==
  warming > 0 => \E r \in Requests : pc[r] \in {"begun", "warm"}

\* Every request is completed, but for a session that goes on, a thread that
\* could not write the response, and a process that ended on a WebSocket
\* request without a header the handshake reads.
RequestCompletes ==
  \A r \in Requests :
    pc[r] = "dispatch"
    ~> (Completed(r) \/ session[r] = "open" \/ thread[r] = "failed" \/ crashed)
=============================================================================
