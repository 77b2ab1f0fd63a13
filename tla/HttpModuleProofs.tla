--------------------------- MODULE HttpModuleProofs ---------------------------
(***************************************************************************)
(* What holds of HttpModule for any set of requests and any bodies.  The   *)
(* inductive invariant says of every request who is to complete it         *)
(* (RequestInv), and of the warm-up who is to end it (WarmupInv).          *)
(***************************************************************************)
EXTENDS HttpModule, FiniteSetTheorems, SequenceTheorems, TLAPS

(***************************************************************************)
(* A thread or a session belongs to a request that OnBeginRequest left     *)
(* pending or is about to, unless the log threw in between; it alone       *)
(* indicates the completion, and only one of the two exists because each   *)
(* belongs to one command.                                                 *)
(***************************************************************************)
RequestInv(r) ==
  /\ pc[r] = "idle" => url[r] = "none"
  /\ url[r] = "none" => pc[r] \in {"idle", "returned"}
  /\ r \in thrown => pc[r] = "returned" /\ result[r] = "continue"
  /\ pc[r] \in {"websocket", "upgrade"} => url[r] = "websocket"
  /\ pc[r] = "post_async" => url[r] = "post_async"
  /\ pc[r] = "returned" <=> result[r] # "none"
  /\ pc[r] \notin {"reading", "pending", "returned"} => thread[r] = "none" /\ session[r] = "none"
  /\ thread[r] # "none" => url[r] = "post_async"
  /\ session[r] # "none" => url[r] = "websocket"
  /\ thread[r] # "none" \/ session[r] # "none" =>
       result[r] \in {"none", "pending"} \/ r \in thrown
  /\ pc[r] = "reading" => session[r] # "none"
  /\ pc[r] = "pending" \/ result[r] = "pending" => thread[r] # "none" \/ session[r] # "none"
  /\ indicated[r] =
       IF thread[r] = "done" \/ session[r] \in {"indicated", "done"} THEN 1 ELSE 0
  /\ pc[r] = "texts" \/ thread[r] \in {"indicate", "done"} => response[r] # <<>>
  /\ result[r] = "finish" => status[r] = 500 \/ response[r] # <<>>

Warm == {r \in Requests : pc[r] \in {"begun", "warm"}}

WarmupInv ==
  /\ WarmupNests => warming = Cardinality(Warm)
  /\ warming > 0 => Warm # {}

RequestsInv == \A r \in Requests : RequestInv(r)

IInv == ControlTypeOK /\ RequestsInv /\ WarmupInv

Pcs     == (Urls \ {"other", "noSlash"}) \cup
             {"idle", "dispatch", "upgrade", "reading", "pending", "raw", "texts",
              "begun", "warm", "returned"}
Results == {"none", "continue", "pending", "finish"}

----------------------------------------------------------------------------
(***************************************************************************)
(* A step is one of a request r: it leaves the others as they are, and the *)
(* invariant has to be shown for r only.                                   *)
(***************************************************************************)
StepOf(r) ==
  \A q \in Requests \ {r} :
    /\ url'[q] = url[q] /\ pc'[q] = pc[q] /\ result'[q] = result[q]
    /\ thread'[q] = thread[q] /\ session'[q] = session[q]
    /\ indicated'[q] = indicated[q]
    /\ q \in thrown' <=> q \in thrown
    /\ response'[q] = response[q] /\ status'[q] = status[q]

LEMMA OneRequest ==
  ASSUME RequestsInv, NEW r \in Requests, StepOf(r), RequestInv(r)'
  PROVE  RequestsInv'
<1>. SUFFICES ASSUME NEW q \in Requests, q # r PROVE RequestInv(q)'
  BY DEF RequestsInv
<1>1. RequestInv(q)
  BY DEF RequestsInv
<1>. QED
  BY <1>1 DEF StepOf, RequestInv

LEMMA GotoEffect ==
  ASSUME ControlTypeOK, NEW r \in Requests, NEW from, NEW to \in Pcs,
         Goto(r, from, to)
  PROVE  /\ pc[r] = from /\ pc'[r] = to /\ pc' \in [Requests -> Pcs]
         /\ \A q \in Requests \ {r} : pc'[q] = pc[q]
         /\ UNCHANGED <<url, result>>
BY DEF ControlTypeOK, Goto, Pcs

LEMMA ReturnEffect ==
  ASSUME ControlTypeOK, NEW r \in Requests, NEW from, NEW with \in Results,
         Return(r, from, with)
  PROVE  /\ pc[r] = from /\ pc'[r] = "returned" /\ pc' \in [Requests -> Pcs]
         /\ result'[r] = with /\ result' \in [Requests -> Results]
         /\ \A q \in Requests \ {r} : pc'[q] = pc[q] /\ result'[q] = result[q]
         /\ UNCHANGED url
BY DEF ControlTypeOK, Return, Pcs, Results

LEMMA SetStatusEffect ==
  ASSUME ControlTypeOK, NEW r \in Requests, SetStatus(r, 500)
  PROVE  /\ status'[r] = 500 /\ status' \in [Requests -> {101, 200, 500}]
         /\ \A q \in Requests \ {r} : status'[q] = status[q]
         /\ UNCHANGED response
BY DEF ControlTypeOK, SetStatus

LEMMA AddChunkEffect ==
  ASSUME ControlTypeOK, NEW r \in Requests, NEW chunk \in {"page", "raw"},
         AddChunk(r, chunk)
  PROVE  /\ response'[r] # <<>>
         /\ response' \in [Requests -> Seq({"page", "raw", "text"})]
         /\ \A q \in Requests \ {r} : response'[q] = response[q]
         /\ UNCHANGED status
<1>. DEFINE new == Append(response[r], chunk)
<1>1. response[r] \in Seq({"page", "raw", "text"})
  BY DEF ControlTypeOK
<1>2. new \in Seq({"page", "raw", "text"}) /\ new # <<>>
  BY <1>1, AppendProperties
<1>3. response' = [response EXCEPT ![r] = new] /\ UNCHANGED status
  BY DEF AddChunk
<1>. HIDE DEF new
<1>. QED
  BY <1>2, <1>3 DEF ControlTypeOK

----------------------------------------------------------------------------
LEMMA BeginStep ==
  ASSUME ControlTypeOK, RequestsInv, NEW r \in Requests, Begin(r)
  PROVE  ControlTypeOK' /\ RequestsInv'
<1>1. PICK u \in Urls : url' = [url EXCEPT ![r] = u]
  BY CommandsAssumption DEF Begin
<1>2. /\ pc[r] = "idle" /\ pc' = [pc EXCEPT ![r] = "dispatch"]
      /\ requests' = requests + 1
      /\ UNCHANGED <<result, thread, session, indicated, thrown, response, status, warming>>
  BY DEF Begin, asyncVars, responseVars
<1>3. ControlTypeOK'
  BY <1>1, <1>2 DEF ControlTypeOK, Urls
<1>4. StepOf(r) /\ url'[r] = u /\ pc'[r] = "dispatch"
  BY <1>1, <1>2 DEF ControlTypeOK, StepOf
<1>5. RequestInv(r)'
  BY <1>2, <1>4 DEF RequestsInv, RequestInv, Urls
<1>. QED
  BY <1>3, <1>4, <1>5, OneRequest

LEMMA ThrowsStep ==
  ASSUME ControlTypeOK, RequestsInv, NEW r \in Requests, NEW from,
         from \notin {"idle", "reading", "pending", "returned"},
         Throws(r, from) \/ Fails(r, from),
         UNCHANGED <<thread, session, indicated, thrown, requests, warming>>
  PROVE  ControlTypeOK' /\ RequestsInv'
<1>1. PICK with \in {"continue", "finish"} : Return(r, from, with) /\ SetStatus(r, 500)
  BY DEF Throws, Fails
<1>2. ControlTypeOK' /\ StepOf(r)
  BY <1>1, ReturnEffect, SetStatusEffect DEF ControlTypeOK, StepOf, Pcs, Results
<1>3. /\ pc[r] = from /\ pc'[r] = "returned" /\ result'[r] = with
      /\ status'[r] = 500 /\ UNCHANGED <<url, response>>
  BY <1>1, ReturnEffect, SetStatusEffect DEF Results
<1>4. RequestInv(r)'
  BY <1>3 DEF RequestsInv, RequestInv
<1>. QED
  BY <1>2, <1>4, OneRequest

LEMMA ContinueStep ==
  ASSUME ControlTypeOK, RequestsInv, NEW r \in Requests, NEW from,
         from \notin {"idle", "reading", "pending", "returned"}, Return(r, from, "continue"),
         UNCHANGED <<thread, session, indicated, thrown, response, status, requests>>,
         warming' \in Nat
  PROVE  ControlTypeOK' /\ RequestsInv'
<1>1. ControlTypeOK' /\ StepOf(r)
  BY ReturnEffect DEF ControlTypeOK, StepOf, Pcs, Results
<1>2. pc[r] = from /\ pc'[r] = "returned" /\ result'[r] = "continue" /\ UNCHANGED url
  BY ReturnEffect DEF Results
<1>3. RequestInv(r)'
  BY <1>2 DEF RequestsInv, RequestInv
<1>. QED
  BY <1>1, <1>3, OneRequest

\* The log throws: once another has the request, it is one of thrown, of which
\* nothing is claimed but that OnBeginRequest returned RQ_NOTIFICATION_CONTINUE.
LEMMA LogFailsStep ==
  ASSUME ControlTypeOK, RequestsInv, NEW r \in Requests, LogFails(r)
  PROVE  ControlTypeOK' /\ RequestsInv'
<1>1. /\ pc[r] \in {"idle", "dispatch", "websocket", "upgrade", "get_test", "reading", "pending"}
      /\ Return(r, pc[r], "continue")
      /\ status' = [status EXCEPT ![r] = 500]
      /\ UNCHANGED <<thread, session, indicated, requests, warming>>
      /\ thrown' = IF pc[r] \in {"reading", "pending"} THEN thrown \cup {r} ELSE thrown
  BY DEF LogFails
<1>2. /\ pc' \in [Requests -> Pcs] /\ pc'[r] = "returned"
      /\ result' \in [Requests -> Results] /\ result'[r] = "continue"
      /\ \A q \in Requests \ {r} : pc'[q] = pc[q] /\ result'[q] = result[q]
      /\ UNCHANGED url
  BY <1>1, ReturnEffect DEF Results
<1>3. /\ status' \in [Requests -> {101, 200, 500}]
      /\ \A q \in Requests \ {r} : status'[q] = status[q]
  BY <1>1 DEF ControlTypeOK
<1>4. /\ response' \in [Requests -> Seq({"page", "raw", "text"})]
      /\ response[r] # <<>> => response'[r] # <<>>
      /\ \A q \in Requests \ {r} : response'[q] = response[q]
  <2>1. CASE UNCHANGED response
    BY <2>1 DEF ControlTypeOK
  <2>2. CASE response' = [response EXCEPT ![r] = Append(@, "page")]
    <3>1. response[r] \in Seq({"page", "raw", "text"})
      BY DEF ControlTypeOK
    <3>. DEFINE new == Append(response[r], "page")
    <3>2. new \in Seq({"page", "raw", "text"}) /\ new # <<>>
      BY <3>1, AppendProperties
    <3>3. response' = [response EXCEPT ![r] = new]
      BY <2>2
    <3>. HIDE DEF new
    <3>. QED  BY <3>2, <3>3 DEF ControlTypeOK
  <2>. QED  BY <2>1, <2>2 DEF LogFails
<1>5. ControlTypeOK' /\ StepOf(r)
  BY <1>1, <1>2, <1>3, <1>4 DEF ControlTypeOK, StepOf, Pcs, Results
<1>6. RequestInv(r)
  BY DEF RequestsInv
<1>7. RequestInv(r)'
  BY <1>1, <1>2, <1>4, <1>6 DEF RequestInv
<1>. QED
  BY <1>5, <1>7, OneRequest

\* OnBeginRequest goes on to another place that claims nothing.
LEMMA GotoStep ==
  ASSUME ControlTypeOK, RequestsInv, NEW r \in Requests, NEW from, NEW to \in Pcs,
         Goto(r, from, to), from \notin {"idle", "reading", "pending", "returned"},
         to \notin {"idle", "reading", "pending", "returned", "texts"},
         to \in {"websocket", "post_async"} => url[r] = to,
         to # "upgrade",
         UNCHANGED <<thread, session, indicated, thrown, response, status, requests>>,
         warming' \in Nat
  PROVE  ControlTypeOK' /\ RequestsInv'
<1>1. ControlTypeOK' /\ StepOf(r)
  BY GotoEffect DEF ControlTypeOK, StepOf, Pcs
<1>2. pc[r] = from /\ pc'[r] = to /\ UNCHANGED <<url, result>>
  BY GotoEffect
<1>3. RequestInv(r)'
  BY <1>2 DEF RequestsInv, RequestInv
<1>. QED
  BY <1>1, <1>3, OneRequest

LEMMA DispatchStep ==
  ASSUME ControlTypeOK, RequestsInv, NEW r \in Requests, Dispatch(r)
  PROVE  ControlTypeOK' /\ RequestsInv'
<1>. /\ UNCHANGED <<thread, session, indicated, thrown, requests, warming>>
     /\ warming' \in Nat
  BY DEF Dispatch, asyncVars, ControlTypeOK
<1>1. CASE url[r] = "noSlash"
  BY <1>1, ThrowsStep DEF Dispatch
<1>2. CASE url[r] = "other"
  BY <1>2, ContinueStep DEF Dispatch, responseVars
<1>3. CASE url[r] \notin {"noSlash", "other"}
  <2>1. Goto(r, "dispatch", url[r]) /\ UNCHANGED <<response, status>>
    BY <1>3 DEF Dispatch, responseVars
  <2>2. url[r] # "none"
    BY <2>1 DEF Goto, RequestsInv, RequestInv
  <2>3. url[r] \in Pcs /\ url[r] \notin {"idle", "reading", "pending", "returned", "texts", "upgrade"}
    BY <1>3, <2>2 DEF ControlTypeOK, Pcs, Urls
  <2>. QED
    BY <2>1, <2>3, GotoStep
<1>. QED
  BY <1>1, <1>2, <1>3

----------------------------------------------------------------------------
(***************************************************************************)
(* WEB_SOCKET and WEB_REQUEST_ASYNC_THREAD.                                *)
(***************************************************************************)
LEMMA HandshakeStep ==
  ASSUME ControlTypeOK, RequestsInv, NEW r \in Requests, Handshake(r)
  PROVE  ControlTypeOK' /\ RequestsInv'
<1>1. Goto(r, "websocket", "upgrade")
  BY DEF Handshake
<1>2. /\ response' = [response EXCEPT ![r] = <<>>]
      /\ status' = [status EXCEPT ![r] = 101]
      /\ UNCHANGED <<thread, session, indicated, thrown, requests, warming>>
  BY DEF Handshake, asyncVars
<1>3. pc[r] = "websocket" /\ pc'[r] = "upgrade" /\ UNCHANGED <<url, result>>
  BY <1>1, GotoEffect DEF Pcs
<1>4. ControlTypeOK' /\ StepOf(r)
  BY <1>1, <1>2, GotoEffect, EmptySeq DEF ControlTypeOK, StepOf, Pcs
<1>5. RequestInv(r)'
  BY <1>2, <1>3 DEF RequestsInv, RequestInv
<1>. QED
  BY <1>4, <1>5, OneRequest

\* The session or the thread comes to be, and OnBeginRequest is to return
\* RQ_NOTIFICATION_PENDING.
LEMMA PendingStarts ==
  ASSUME ControlTypeOK, RequestsInv, NEW r \in Requests, NEW from,
         NEW to \in {"reading", "pending"}, Goto(r, from, to),
         \/ /\ from = "upgrade" /\ to = "reading"
            /\ session' = [session EXCEPT ![r] = "open"]
            /\ UNCHANGED thread
         \/ /\ from = "post_async" /\ to = "pending"
            /\ thread' = [thread EXCEPT ![r] = "entity"]
            /\ UNCHANGED session,
         UNCHANGED <<indicated, thrown, response, status, requests, warming>>
  PROVE  ControlTypeOK' /\ RequestsInv'
<1>1. pc[r] = from /\ pc'[r] = to /\ UNCHANGED <<url, result>>
  BY GotoEffect DEF Pcs
<1>2. /\ session' \in [Requests -> {"none", "open", "indicated", "done"}]
      /\ thread' \in [Requests -> {"none", "entity", "write", "indicate", "done",
                                   "failed"}]
      /\ \A q \in Requests \ {r} : session'[q] = session[q] /\ thread'[q] = thread[q]
  <2>1. CASE session' = [session EXCEPT ![r] = "open"] /\ UNCHANGED thread
    BY <2>1 DEF ControlTypeOK
  <2>2. CASE thread' = [thread EXCEPT ![r] = "entity"] /\ UNCHANGED session
    BY <2>2 DEF ControlTypeOK
  <2>. QED  BY <2>1, <2>2
<1>3. ControlTypeOK'
  BY <1>1, <1>2, GotoEffect DEF ControlTypeOK, Pcs
<1>4. StepOf(r)
  BY <1>1, <1>2, GotoEffect DEF StepOf, Pcs
<1>5. \/ from = "upgrade" /\ to = "reading" /\ session'[r] = "open" /\ thread'[r] = thread[r]
      \/ from = "post_async" /\ to = "pending" /\ thread'[r] = "entity" /\ session'[r] = session[r]
  BY DEF ControlTypeOK
<1>6. RequestInv(r)'
  BY <1>1, <1>5 DEF RequestsInv, RequestInv
<1>. QED
  BY <1>3, <1>4, <1>6, OneRequest

LEMMA UpgradeStep ==
  ASSUME ControlTypeOK, RequestsInv, NEW r \in Requests, Upgrade(r)
  PROVE  ControlTypeOK' /\ RequestsInv'
<1>. UNCHANGED <<thread, indicated, thrown, requests, warming>>
  BY DEF Upgrade
<1>1. CASE Fails(r, "upgrade") /\ UNCHANGED session
  BY <1>1, ThrowsStep
<1>2. CASE /\ Goto(r, "upgrade", "reading")
           /\ session' = [session EXCEPT ![r] = "open"] /\ UNCHANGED responseVars
  BY <1>2, PendingStarts DEF responseVars
<1>. QED
  BY <1>1, <1>2 DEF Upgrade

LEMMA AsyncThreadStep ==
  ASSUME ControlTypeOK, RequestsInv, NEW r \in Requests, AsyncThread(r)
  PROVE  ControlTypeOK' /\ RequestsInv'
<1>. UNCHANGED <<session, indicated, thrown, requests, warming>>
  BY DEF AsyncThread
<1>1. CASE Throws(r, "post_async") /\ UNCHANGED thread
  BY <1>1, ThrowsStep
<1>2. CASE /\ Goto(r, "post_async", "pending")
           /\ thread' = [thread EXCEPT ![r] = "entity"] /\ UNCHANGED responseVars
  BY <1>2, PendingStarts DEF responseVars
<1>. QED
  BY <1>1, <1>2 DEF AsyncThread

LEMMA ReadLoggedStep ==
  ASSUME ControlTypeOK, RequestsInv, NEW r \in Requests, ReadLogged(r)
  PROVE  ControlTypeOK' /\ RequestsInv'
<1>1. Goto(r, "reading", "pending")
  BY DEF ReadLogged
<1>2. UNCHANGED <<thread, session, indicated, thrown, response, status, requests, warming>>
  BY DEF ReadLogged, asyncVars, responseVars
<1>3. pc[r] = "reading" /\ pc'[r] = "pending" /\ UNCHANGED <<url, result>>
  BY <1>1, GotoEffect DEF Pcs
<1>4. ControlTypeOK' /\ StepOf(r)
  BY <1>1, <1>2, GotoEffect DEF ControlTypeOK, StepOf, Pcs
<1>5. RequestInv(r)'
  BY <1>2, <1>3 DEF RequestsInv, RequestInv
<1>. QED
  BY <1>4, <1>5, OneRequest

LEMMA PendingStep ==
  ASSUME ControlTypeOK, RequestsInv, NEW r \in Requests, Pending(r)
  PROVE  ControlTypeOK' /\ RequestsInv'
<1>1. Return(r, "pending", "pending")
  BY DEF Pending
<1>2. UNCHANGED <<thread, session, indicated, thrown, response, status, requests, warming>>
  BY DEF Pending, asyncVars, responseVars
<1>3. /\ pc[r] = "pending" /\ pc'[r] = "returned" /\ result'[r] = "pending"
      /\ UNCHANGED url
  BY <1>1, ReturnEffect DEF Results
<1>4. ControlTypeOK' /\ StepOf(r)
  BY <1>1, <1>2, ReturnEffect DEF ControlTypeOK, StepOf, Pcs, Results
<1>5. RequestInv(r)'
  BY <1>2, <1>3 DEF RequestsInv, RequestInv
<1>. QED
  BY <1>4, <1>5, OneRequest

\* The session is the only one to complete its request: the thread that could
\* do so too belongs to another command.
LEMMA SessionEndsStep ==
  ASSUME ControlTypeOK, RequestsInv, NEW r \in Requests, SessionEnds(r)
  PROVE  ControlTypeOK' /\ RequestsInv'
<1>1. /\ session[r] = "open" /\ session' = [session EXCEPT ![r] = "indicated"]
      /\ indicated' = [indicated EXCEPT ![r] = @ + 1]
      /\ UNCHANGED <<url, pc, result, thread, thrown, response, status, requests, warming>>
  BY DEF SessionEnds, responseVars
<1>2. ControlTypeOK' /\ StepOf(r)
  BY <1>1 DEF ControlTypeOK, StepOf
<1>3. session'[r] = "indicated" /\ indicated'[r] = indicated[r] + 1
  BY <1>1 DEF ControlTypeOK
<1>4. RequestInv(r)'
  BY <1>1, <1>3 DEF RequestsInv, RequestInv
<1>. QED
  BY <1>2, <1>4, OneRequest

LEMMA SessionClosesStep ==
  ASSUME ControlTypeOK, RequestsInv, NEW r \in Requests, SessionCloses(r)
  PROVE  ControlTypeOK' /\ RequestsInv'
<1>1. /\ session[r] = "indicated" /\ session' = [session EXCEPT ![r] = "done"]
      /\ UNCHANGED <<url, pc, result, thread, indicated, thrown, response, status,
                     requests, warming>>
  BY DEF SessionCloses, responseVars
<1>2. ControlTypeOK' /\ StepOf(r) /\ session'[r] = "done"
  BY <1>1 DEF ControlTypeOK, StepOf
<1>3. RequestInv(r)'
  BY <1>1, <1>2 DEF RequestsInv, RequestInv
<1>. QED
  BY <1>2, <1>3, OneRequest

LEMMA ExecuteStep ==
  ASSUME ControlTypeOK, RequestsInv, NEW r \in Requests, ExecuteRequest(r)
  PROVE  ControlTypeOK' /\ RequestsInv'
<1>. UNCHANGED <<url, pc, result, session, thrown, requests, warming>>
  BY DEF ExecuteRequest, ExecuteEntity, ExecuteWrite, ExecuteIndicate
<1>1. ASSUME thread[r] = "entity", NEW to \in {"entity", "write"},
             thread' = [thread EXCEPT ![r] = to],
             UNCHANGED <<indicated, response, status>>
      PROVE  ControlTypeOK' /\ RequestsInv'
  <2>1. ControlTypeOK' /\ StepOf(r) /\ thread'[r] = to
    <3>1. /\ thread' \in [Requests -> {"none", "entity", "write", "indicate", "done",
                                       "failed"}]
          /\ \A q \in Requests \ {r} : thread'[q] = thread[q]
          /\ thread'[r] = to
      BY <1>1 DEF ControlTypeOK
    <3>. QED  BY <1>1, <3>1 DEF ControlTypeOK, StepOf
  <2>2. RequestInv(r)
    BY DEF RequestsInv
  <2>3. RequestInv(r)'
    BY <1>1, <2>1, <2>2 DEF RequestInv
  <2>. QED  BY <2>1, <2>3, OneRequest
<1>2. CASE ExecuteEntity(r)
  BY <1>1, <1>2 DEF ExecuteEntity, Thread, responseVars
<1>3. ASSUME Thread(r, "write", "indicate"), AddChunk(r, "raw"), UNCHANGED indicated
      PROVE  ControlTypeOK' /\ RequestsInv'
  <2>1. ControlTypeOK' /\ StepOf(r)
    BY <1>3, AddChunkEffect DEF Thread, ControlTypeOK, StepOf
  <2>2. /\ thread[r] = "write" /\ thread'[r] = "indicate"
        /\ response'[r] # <<>> /\ UNCHANGED status
    BY <1>3, AddChunkEffect DEF Thread, ControlTypeOK
  <2>3. RequestInv(r)'
    BY <1>3, <2>2 DEF RequestsInv, RequestInv
  <2>. QED  BY <2>1, <2>3, OneRequest
<1>4. ASSUME Thread(r, "write", "failed"), UNCHANGED <<indicated, response, status>>
      PROVE  ControlTypeOK' /\ RequestsInv'
  <2>1. ControlTypeOK' /\ StepOf(r) /\ thread[r] = "write" /\ thread'[r] = "failed"
    BY <1>4 DEF Thread, ControlTypeOK, StepOf
  <2>2. RequestInv(r)'
    BY <1>4, <2>1 DEF RequestsInv, RequestInv
  <2>. QED  BY <2>1, <2>2, OneRequest
<1>5. CASE ExecuteWrite(r)
  BY <1>3, <1>4, <1>5 DEF ExecuteWrite, responseVars
<1>6. CASE ExecuteIndicate(r)
  <2>1. /\ thread[r] = "indicate" /\ thread' = [thread EXCEPT ![r] = "done"]
        /\ indicated' = [indicated EXCEPT ![r] = @ + 1]
        /\ UNCHANGED <<response, status>>
    BY <1>6 DEF ExecuteIndicate, Thread, responseVars
  <2>2. ControlTypeOK' /\ StepOf(r)
    BY <2>1 DEF ControlTypeOK, StepOf
  <2>3. thread'[r] = "done" /\ indicated'[r] = indicated[r] + 1
    BY <2>1 DEF ControlTypeOK
  <2>4. RequestInv(r)'
    BY <2>1, <2>3 DEF RequestsInv, RequestInv
  <2>. QED  BY <2>2, <2>4, OneRequest
<1>. QED
  BY <1>2, <1>5, <1>6 DEF ExecuteRequest

----------------------------------------------------------------------------
(***************************************************************************)
(* WEB_REQUEST_GET and WEB_REQUEST_POST_FILE.                              *)
(***************************************************************************)
\* A chunk enters the response on the way to the end of the request.
LEMMA ChunkStep ==
  ASSUME ControlTypeOK, RequestsInv, NEW r \in Requests, NEW from,
         NEW chunk \in {"page", "raw"}, AddChunk(r, chunk),
         from \notin {"idle", "reading", "pending", "returned"},
         Return(r, from, "finish") \/ Goto(r, from, "texts"),
         UNCHANGED <<thread, session, indicated, thrown, requests, warming>>
  PROVE  ControlTypeOK' /\ RequestsInv'
<1>1. response'[r] # <<>> /\ UNCHANGED status
  BY AddChunkEffect
<1>2. CASE Return(r, from, "finish")
  <2>1. ControlTypeOK' /\ StepOf(r)
    BY <1>2, ReturnEffect, AddChunkEffect DEF ControlTypeOK, StepOf, Pcs, Results
  <2>2. pc[r] = from /\ pc'[r] = "returned" /\ result'[r] = "finish" /\ UNCHANGED url
    BY <1>2, ReturnEffect DEF Results
  <2>3. RequestInv(r)'
    BY <1>1, <2>2 DEF RequestsInv, RequestInv
  <2>. QED  BY <2>1, <2>3, OneRequest
<1>3. CASE Goto(r, from, "texts")
  <2>1. ControlTypeOK' /\ StepOf(r)
    BY <1>3, GotoEffect, AddChunkEffect DEF ControlTypeOK, StepOf, Pcs
  <2>2. pc[r] = from /\ pc'[r] = "texts" /\ UNCHANGED <<url, result>>
    BY <1>3, GotoEffect DEF Pcs
  <2>3. RequestInv(r)'
    BY <1>1, <2>2 DEF RequestsInv, RequestInv
  <2>. QED  BY <2>1, <2>3, OneRequest
<1>. QED
  BY <1>2, <1>3

LEMMA PageStep ==
  ASSUME ControlTypeOK, RequestsInv, NEW r \in Requests, Page(r)
  PROVE  ControlTypeOK' /\ RequestsInv'
<1>. /\ UNCHANGED <<thread, session, indicated, thrown, requests, warming>>
     /\ warming' \in Nat
  BY DEF Page, asyncVars, ControlTypeOK
<1>1. CASE Return(r, "get_test", "finish") /\ AddChunk(r, "page")
  BY <1>1, ChunkStep
<1>2. CASE Return(r, "get_test", "continue") /\ UNCHANGED responseVars
  BY <1>2, ContinueStep DEF responseVars
<1>. QED
  BY <1>1, <1>2 DEF Page

LEMMA FileStep ==
  ASSUME ControlTypeOK, RequestsInv, NEW r \in Requests,
         FileEntity(r) \/ FileRaw(r) \/ FileTexts(r)
  PROVE  ControlTypeOK' /\ RequestsInv'
<1>. /\ UNCHANGED <<thread, session, indicated, thrown, requests, warming>>
     /\ warming' \in Nat
  BY DEF FileEntity, FileRaw, FileTexts, asyncVars, ControlTypeOK
<1>1. CASE FileEntity(r)
  <2>1. PICK to \in {"post_file", "raw"} : Goto(r, "post_file", to)
    BY <1>1 DEF FileEntity
  <2>. QED
    BY <1>1, <2>1, GotoStep DEF FileEntity, responseVars, Pcs, Urls
<1>2. CASE FileRaw(r)
  <2>1. CASE Goto(r, "raw", "texts") /\ AddChunk(r, "raw")
    BY <2>1, ChunkStep
  <2>2. CASE Return(r, "raw", "continue") /\ SetStatus(r, 500)
    <3>1. Throws(r, "raw")
      BY <2>2 DEF Throws
    <3>. QED  BY <3>1, ThrowsStep
  <2>. QED  BY <1>2, <2>1, <2>2 DEF FileRaw
<1>3. CASE FileTexts(r)
  <2>1. Return(r, "texts", "finish") /\ UNCHANGED status
    BY <1>3 DEF FileTexts
  <2>2. PICK texts \in {<<>>, <<"text">>, <<"text", "text">>} :
          response' = [response EXCEPT ![r] = @ \o texts]
    BY <1>3 DEF FileTexts
  <2>. DEFINE new == response[r] \o texts
  <2>3. /\ texts \in Seq({"page", "raw", "text"})
        /\ response[r] \in Seq({"page", "raw", "text"})
    <3>1. texts = <<>> => texts \in Seq({"page", "raw", "text"})
      OBVIOUS
    <3>2. texts = <<"text">> => texts \in Seq({"page", "raw", "text"})
      OBVIOUS
    <3>3. texts = <<"text", "text">> => texts \in Seq({"page", "raw", "text"})
      OBVIOUS
    <3>. QED  BY <2>2, <3>1, <3>2, <3>3 DEF ControlTypeOK
  <2>4. pc[r] = "texts" /\ pc'[r] = "returned" /\ result'[r] = "finish" /\ UNCHANGED url
    BY <2>1, ReturnEffect DEF Results
  <2>5. response[r] # <<>>
    BY <2>4 DEF RequestsInv, RequestInv
  <2>6. new \in Seq({"page", "raw", "text"}) /\ new # <<>>
    BY <2>3, <2>5, ConcatProperties
  <2>7. response' = [response EXCEPT ![r] = new]
    BY <2>2
  <2>. HIDE DEF new
  <2>8. ControlTypeOK' /\ StepOf(r) /\ response'[r] # <<>>
    BY <2>1, <2>6, <2>7, ReturnEffect DEF ControlTypeOK, StepOf, Pcs, Results
  <2>9. RequestInv(r)'
    BY <2>1, <2>4, <2>8 DEF RequestsInv, RequestInv
  <2>. QED  BY <2>8, <2>9, OneRequest
<1>. QED
  BY <1>1, <1>2, <1>3

----------------------------------------------------------------------------
(***************************************************************************)
(* The warm-up.                                                            *)
(***************************************************************************)
LEMMA WarmupControl ==
  ASSUME ControlTypeOK, RequestsInv, WarmupInv, NEW r \in Requests,
         Warmup(r) \/ WarmupBegun(r) \/ WarmupEnds(r)
  PROVE  ControlTypeOK' /\ RequestsInv'
<1>. UNCHANGED <<thread, session, indicated, thrown, requests>>
  BY DEF Warmup, WarmupBegun, WarmupEnds, asyncVars
<1>1. CASE Warmup(r)
  <2>1. CASE Fails(r, "post_test") /\ UNCHANGED warming
    BY <2>1, ThrowsStep
  <2>2. CASE ~(Fails(r, "post_test") /\ UNCHANGED warming)
    <3>1. /\ Goto(r, "post_test", "begun") /\ UNCHANGED <<response, status>>
          /\ warming' \in Nat
      BY <1>1, <2>2 DEF Warmup, responseVars, ControlTypeOK
    <3>. QED  BY <3>1, GotoStep DEF Pcs
  <2>. QED  BY <2>1, <2>2
<1>2. CASE WarmupBegun(r)
  <2>. UNCHANGED <<response, status>> /\ warming' \in Nat
    BY <1>2 DEF WarmupBegun, responseVars, ControlTypeOK
  <2>1. CASE Return(r, "begun", "continue")
    BY <2>1, ContinueStep
  <2>2. CASE Goto(r, "begun", "warm")
    BY <2>2, GotoStep DEF Pcs
  <2>. QED  BY <1>2, <2>1, <2>2 DEF WarmupBegun
<1>3. CASE WarmupEnds(r)
  <2>1. Return(r, "warm", "continue") /\ UNCHANGED <<response, status>>
    BY <1>3 DEF WarmupEnds, responseVars
  <2>2. r \in Warm
    BY <2>1 DEF Warm, Return
  <2>3. WarmupNests => warming # 0
    <3>1. IsFiniteSet(Warm)
      BY RequestsAssumption, FS_Subset DEF Warm
    <3>. QED  BY <2>2, <3>1, FS_EmptySet DEF WarmupInv
  <2>4. warming' \in Nat
    BY <1>3, <2>3 DEF WarmupEnds, ControlTypeOK
  <2>. QED  BY <2>1, <2>4, ContinueStep
<1>. QED
  BY <1>1, <1>2, <1>3

\* One request enters the warm-up, or leaves it.
LEMMA WarmChanges ==
  ASSUME ControlTypeOK, NEW r \in Requests,
         \A q \in Requests \ {r} : pc'[q] = pc[q]
  PROVE  /\ IsFiniteSet(Warm)
         /\ pc'[r] \in {"begun", "warm"} => Warm' = Warm \cup {r}
         /\ pc'[r] \notin {"begun", "warm"} => Warm' = Warm \ {r}
<1>1. IsFiniteSet(Warm)
  BY RequestsAssumption, FS_Subset DEF Warm
<1>. QED
  BY <1>1 DEF Warm

LEMMA WarmupStep ==
  ASSUME ControlTypeOK, RequestsInv, WarmupInv, NEW r \in Requests,
         Warmup(r) \/ WarmupBegun(r) \/ WarmupEnds(r)
  PROVE  WarmupInv'
<1>. warming \in Nat
  BY DEF ControlTypeOK
<1>1. CASE Warmup(r)
  <2>1. CASE Fails(r, "post_test") /\ UNCHANGED warming
    <3>1. /\ pc[r] = "post_test" /\ pc'[r] = "returned"
          /\ \A q \in Requests \ {r} : pc'[q] = pc[q]
      BY <2>1, ReturnEffect DEF Fails, Results
    <3>2. Warm' = Warm
      BY <3>1, WarmChanges DEF Warm
    <3>. QED  BY <2>1, <3>2 DEF WarmupInv
  <2>2. CASE ~(Fails(r, "post_test") /\ UNCHANGED warming)
    <3>1. /\ Goto(r, "post_test", "begun")
          /\ warming' = IF WarmupNests THEN warming + 1 ELSE 1
      BY <1>1, <2>2 DEF Warmup
    <3>2. /\ pc[r] = "post_test" /\ pc'[r] = "begun"
          /\ \A q \in Requests \ {r} : pc'[q] = pc[q]
      BY <3>1, GotoEffect DEF Pcs
    <3>3. r \notin Warm /\ Warm' = Warm \cup {r} /\ IsFiniteSet(Warm)
      BY <3>2, WarmChanges DEF Warm
    <3>4. Cardinality(Warm') = Cardinality(Warm) + 1
      BY <3>3, FS_AddElement
    <3>. QED  BY <3>1, <3>3, <3>4 DEF WarmupInv
  <2>. QED  BY <2>1, <2>2
<1>2. CASE WarmupBegun(r)
  <2>1. CASE warming # 0
    <3>1. Goto(r, "begun", "warm") /\ UNCHANGED warming
      BY <1>2, <2>1 DEF WarmupBegun
    <3>2. /\ pc[r] = "begun" /\ pc'[r] = "warm"
          /\ \A q \in Requests \ {r} : pc'[q] = pc[q]
      BY <3>1, GotoEffect DEF Pcs
    <3>3. Warm' = Warm
      BY <3>2, WarmChanges DEF Warm
    <3>. QED  BY <3>1, <3>3 DEF WarmupInv
  <2>2. CASE warming = 0
    <3>1. Return(r, "begun", "continue") /\ UNCHANGED warming
      BY <1>2, <2>2 DEF WarmupBegun
    <3>2. r \in Warm /\ IsFiniteSet(Warm)
      BY <3>1, RequestsAssumption, FS_Subset DEF Warm, Return
    <3>3. ~WarmupNests
      BY <2>2, <3>2, FS_EmptySet DEF WarmupInv
    <3>. QED  BY <2>2, <3>1, <3>3 DEF WarmupInv
  <2>. QED  BY <2>1, <2>2
<1>3. CASE WarmupEnds(r)
  <2>1. /\ Return(r, "warm", "continue")
        /\ warming' = IF WarmupNests THEN warming - 1 ELSE 0
    BY <1>3 DEF WarmupEnds
  <2>2. /\ pc[r] = "warm" /\ pc'[r] = "returned"
        /\ \A q \in Requests \ {r} : pc'[q] = pc[q]
    BY <2>1, ReturnEffect DEF Results
  <2>3. r \in Warm /\ Warm' = Warm \ {r} /\ IsFiniteSet(Warm)
    BY <2>2, WarmChanges DEF Warm
  <2>4. IsFiniteSet(Warm') /\ Cardinality(Warm') = Cardinality(Warm) - 1
    BY <2>3, FS_RemoveElement
  <2>5. WarmupNests /\ warming' > 0 => Warm' # {}
    BY <2>1, <2>4, FS_EmptySet DEF WarmupInv
  <2>. QED  BY <2>1, <2>4, <2>5 DEF WarmupInv
<1>. QED
  BY <1>1, <1>2, <1>3

\* Every other step leaves the warm-up alone.
LEMMA WarmupAlone ==
  ASSUME ControlTypeOK, WarmupInv, NEW r \in Requests,
         pc[r] \notin {"begun", "warm"}, pc'[r] \notin {"begun", "warm"},
         \A q \in Requests \ {r} : pc'[q] = pc[q],
         UNCHANGED warming
  PROVE  WarmupInv'
<1>1. Warm' = Warm
  BY WarmChanges DEF Warm
<1>. QED
  BY <1>1 DEF WarmupInv

\* What OnBeginRequest does outside the warm-up neither enters nor leaves it.
LEMMA OutsideWarmup ==
  ASSUME ControlTypeOK, WarmupInv, NEW r \in Requests, NEW from,
         from \notin {"begun", "warm"}, UNCHANGED warming,
         \/ \E to \in Pcs \ {"begun", "warm"} : Goto(r, from, to)
         \/ \E with \in Results : Return(r, from, with)
  PROVE  WarmupInv'
<1>1. ASSUME NEW to \in Pcs \ {"begun", "warm"}, Goto(r, from, to) PROVE WarmupInv'
  BY <1>1, GotoEffect, WarmupAlone
<1>2. ASSUME NEW with \in Results, Return(r, from, with) PROVE WarmupInv'
  BY <1>2, ReturnEffect, WarmupAlone
<1>. QED
  BY <1>1, <1>2

LEMMA OtherStep ==
  ASSUME ControlTypeOK, RequestsInv, WarmupInv, NEW r \in Requests,
         \/ Dispatch(r) \/ Handshake(r) \/ Upgrade(r) \/ ReadLogged(r) \/ Pending(r) \/ Page(r)
         \/ FileEntity(r) \/ FileRaw(r) \/ FileTexts(r) \/ AsyncThread(r)
  PROVE  WarmupInv'
<1>. UNCHANGED warming
  BY DEF Dispatch, Handshake, Upgrade, ReadLogged, Pending, Page, FileEntity, FileRaw,
         FileTexts, AsyncThread
<1>1. CASE Dispatch(r)
  <2>1. CASE url[r] \in {"noSlash", "other"}
    <3>1. Return(r, "dispatch", "continue")
      BY <1>1, <2>1 DEF Dispatch, Throws
    <3>. QED  BY <3>1, OutsideWarmup DEF Results
  <2>2. CASE url[r] \notin {"noSlash", "other"}
    <3>1. Goto(r, "dispatch", url[r])
      BY <1>1, <2>2 DEF Dispatch
    <3>2. url[r] # "none"
      BY <3>1 DEF Goto, RequestsInv, RequestInv
    <3>3. url[r] \in Pcs \ {"begun", "warm"}
      BY <2>2, <3>2 DEF ControlTypeOK, Pcs, Urls
    <3>. QED  BY <3>1, <3>3, OutsideWarmup
  <2>. QED  BY <2>1, <2>2
<1>2. CASE Handshake(r)
  <2>1. Goto(r, "websocket", "upgrade") /\ "upgrade" \in Pcs \ {"begun", "warm"}
    BY <1>2 DEF Handshake, Pcs
  <2>. QED  BY <2>1, OutsideWarmup
<1>3. CASE Upgrade(r)
  BY <1>3, OutsideWarmup DEF Upgrade, Fails, Pcs, Results
<1>4. CASE ReadLogged(r) \/ Pending(r)
  BY <1>4, OutsideWarmup DEF ReadLogged, Pending, Pcs, Results
<1>5. CASE Page(r)
  BY <1>5, OutsideWarmup DEF Page, Results
<1>6. CASE FileEntity(r)
  BY <1>6, OutsideWarmup DEF FileEntity, Pcs, Urls
<1>7. CASE FileRaw(r)
  BY <1>7, OutsideWarmup DEF FileRaw, Pcs, Results
<1>8. CASE FileTexts(r)
  BY <1>8, OutsideWarmup DEF FileTexts, Results
<1>9. CASE AsyncThread(r)
  BY <1>9, OutsideWarmup DEF AsyncThread, Throws, Pcs, Results
<1>. QED
  BY <1>1, <1>2, <1>3, <1>4, <1>5, <1>6, <1>7, <1>8, <1>9

----------------------------------------------------------------------------
LEMMA InitIInv == Init => IInv
<1>. SUFFICES ASSUME Init PROVE IInv
  OBVIOUS
<1>1. ControlTypeOK
  BY EmptySeq DEF Init, ControlTypeOK, Urls
<1>2. RequestsInv
  BY DEF Init, RequestsInv, RequestInv
<1>3. Warm = {}
  BY DEF Init, Warm
<1>4. WarmupInv
  BY <1>3, FS_EmptySet DEF Init, WarmupInv
<1>. QED
  BY <1>1, <1>2, <1>4 DEF IInv

LEMMA NextIInv == IInv /\ [Next]_vars => IInv'
<1>. SUFFICES ASSUME ControlTypeOK, RequestsInv, WarmupInv, [Next]_vars PROVE IInv'
  BY DEF IInv
<1>1. CASE UNCHANGED vars
  BY <1>1 DEF vars, IInv, ControlTypeOK, RequestsInv, RequestInv, WarmupInv, Warm
<1>2. ASSUME NEW r \in Requests, Begin(r) PROVE IInv'
  <2>1. /\ pc[r] = "idle" /\ pc' = [pc EXCEPT ![r] = "dispatch"] /\ UNCHANGED warming
    BY <1>2 DEF Begin
  <2>2. /\ pc'[r] = "dispatch" /\ \A q \in Requests \ {r} : pc'[q] = pc[q]
    BY <2>1 DEF ControlTypeOK
  <2>3. WarmupInv'
    BY <2>1, <2>2, WarmupAlone
  <2>. QED  BY <1>2, <2>3, BeginStep DEF IInv
<1>3. ASSUME NEW r \in Requests, CleanupStoredContext(r) \/ ExecuteRequest(r) PROVE IInv'
  <2>1. UNCHANGED <<pc, warming>>
    BY <1>3 DEF CleanupStoredContext, SessionEnds, SessionCloses, ExecuteRequest, ExecuteEntity, ExecuteWrite, ExecuteIndicate
  <2>2. WarmupInv'
    BY <2>1 DEF WarmupInv, Warm
  <2>. QED
    BY <1>3, <2>2, SessionEndsStep, SessionClosesStep, ExecuteStep DEF CleanupStoredContext, IInv
<1>4. ASSUME NEW r \in Requests, LogFails(r) PROVE IInv'
  <2>1. /\ pc[r] \in Pcs \ {"begun", "warm"} /\ Return(r, pc[r], "continue")
        /\ UNCHANGED warming
    BY <1>4 DEF LogFails, Pcs, Urls
  <2>2. WarmupInv'
    BY <2>1, OutsideWarmup DEF Results
  <2>. QED  BY <1>4, <2>2, LogFailsStep DEF IInv
<1>5. ASSUME NEW r \in Requests, OnBeginRequest(r) PROVE IInv'
  <2>1. CASE Warmup(r) \/ WarmupBegun(r) \/ WarmupEnds(r)
    BY <2>1, WarmupControl, WarmupStep DEF IInv
  <2>2. CASE \/ Dispatch(r) \/ Handshake(r) \/ Upgrade(r)
             \/ ReadLogged(r) \/ Pending(r) \/ Page(r)
             \/ FileEntity(r) \/ FileRaw(r) \/ FileTexts(r) \/ AsyncThread(r)
    <3>1. ControlTypeOK' /\ RequestsInv'
      BY <2>2, DispatchStep, HandshakeStep, UpgradeStep, ReadLoggedStep, PendingStep,
         PageStep, FileStep, AsyncThreadStep
    <3>. QED  BY <2>2, <3>1, OtherStep DEF IInv
  <2>. QED  BY <1>5, <2>1, <2>2 DEF OnBeginRequest
\* A process that ends leaves the requests as they are.
<1>6. ASSUME NEW r \in Requests, HeaderMissing(r) PROVE IInv'
  BY <1>6 DEF HeaderMissing, asyncVars, responseVars, IInv, ControlTypeOK, RequestsInv,
              RequestInv, WarmupInv, Warm
<1>. QED
  BY <1>1, <1>2, <1>3, <1>4, <1>5, <1>6 DEF Next, Step

LEMMA Invariance == Spec => []IInv
BY InitIInv, NextIInv, PTL DEF Spec

\* Every request is completed once, by OnBeginRequest or by the session or the
\* thread it was left to.
THEOREM RequestCompletedOnce == Spec => []CompletedOnce
<1>1. IInv => CompletedOnce
  BY DEF IInv, RequestsInv, RequestInv, CompletedOnce, ControlTypeOK
<1>. QED
  BY <1>1, Invariance, PTL

\* Nothing of the module uses what belongs to a completed request, but its
\* session that closes the connection and continuousReading that logs what it
\* read, whatever fails or throws before the request is left to another thread.
THEOREM CompletedContextUnused == Spec => []ContextLives
<1>1. IInv => ContextLives
  <2>. SUFFICES ASSUME IInv, NEW r \in Requests \ thrown
                PROVE  UsesContext(r) /\ Completed(r)
                       => /\ session[r] \in {"indicated", "done"}
                          /\ session[r] = "indicated" \/ pc[r] = "reading"
    BY DEF ContextLives
  <2>1. RequestInv(r) /\ ControlTypeOK
    BY DEF IInv, RequestsInv
  <2>. QED  BY <2>1 DEF RequestInv, ControlTypeOK, UsesContext, Calling, Completed
<1>. QED
  BY <1>1, Invariance, PTL

\* A request that is finished has been answered, on every path of the switch
\* and in the thread of ExecuteRequest.
THEOREM FinishedIsAnswered == Spec => []FinishedAnswered
<1>1. IInv => FinishedAnswered
  <2>. SUFFICES ASSUME IInv, NEW r \in Requests
                PROVE  result[r] = "finish" \/ indicated[r] > 0
                      => status[r] = 500 \/ response[r] # <<>> \/ session[r] # "none"
    BY DEF FinishedAnswered
  <2>1. RequestInv(r) /\ ControlTypeOK
    BY DEF IInv, RequestsInv
  <2>. QED  BY <2>1 DEF RequestInv, ControlTypeOK
<1>. QED
  BY <1>1, Invariance, PTL

\* The application is in its warm-up only while a request is, whether
\* BeginApplicationWarmup counts or sets a flag.
THEOREM WarmupIsEnded == Spec => []WarmupEnded
<1>1. IInv => WarmupEnded
  BY DEF IInv, WarmupInv, Warm, WarmupEnded
<1>. QED
  BY <1>1, Invariance, PTL
=============================================================================
