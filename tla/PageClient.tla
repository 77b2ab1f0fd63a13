----------------------------- MODULE PageClient -----------------------------
(***************************************************************************)
(* src/Page/websocket2.html: the page that connects to the module, and     *)
(* sends it texts in a loop of timers.  The browser runs one task at a     *)
(* time: a click on a button that is not disabled, a timer that is due, an *)
(* event of a WebSocket.  Every connection calls the same onOpen and       *)
(* onClose, whichever the variable websocket holds.  The single message of *)
(* doSend and the lines the page shows are left out.                       *)
(***************************************************************************)
EXTENDS Naturals, Sequences

CONSTANTS
  MaxSockets,  \* BOUND: connections the page makes
  MaxTimers    \* BOUND: timers that wait at a time

ASSUME MaxSocketsAssumption == MaxSockets \in Nat
ASSUME MaxTimersAssumption == MaxTimers \in Nat

VARIABLES
  sockets,      \* the readyState of every WebSocket the page made
  websocket,    \* the one in the variable, 0 before doConnect
  connected,    \* what setGuiConnected was last told: which buttons are disabled
  label,        \* of sendButLoop: "Send" or "Stop" Loop
  loopRunning,
  timers,       \* the callbacks of setTimeout that wait
  starts,       \* HISTORY: loops started since no timer waited, BOUND: up to MaxTimers
  doubled,      \* HISTORY: doConnect was called with a connection not closed
  overtaken,    \* HISTORY: doConnect was called while a timer waited
  early,        \* HISTORY: the loop was started while websocket was connecting
  reopened      \* HISTORY: a connection opened while a loop went on

history == <<starts, doubled, overtaken, early, reopened>>
vars == <<sockets, websocket, connected, label, loopRunning, timers, history>>

Init ==
  /\ sockets = <<>> /\ websocket = 0
  /\ connected = FALSE /\ label = "Stop"
  /\ loopRunning = FALSE /\ timers = 0
  /\ starts = 0 /\ doubled = FALSE /\ overtaken = FALSE
  /\ early = FALSE /\ reopened = FALSE

----------------------------------------------------------------------------
State == sockets[websocket]

DoConnect ==
  /\ ~connected /\ Len(sockets) < MaxSockets
  /\ sockets' = Append(sockets, "connecting")
  /\ websocket' = Len(sockets) + 1
  /\ doubled' = (doubled \/ \E s \in DOMAIN sockets : sockets[s] # "closed")
  /\ overtaken' = (overtaken \/ timers > 0)
  /\ UNCHANGED <<connected, label, loopRunning, timers, starts, early, reopened>>

\* WebSocket.close()
Close == sockets' = IF State = "closed" THEN sockets
                                        ELSE [sockets EXCEPT ![websocket] = "closing"]

\* The label is left to onClose.
DoDisconnect ==
  /\ connected
  /\ loopRunning' = FALSE /\ reopened' = FALSE
  /\ Close
  /\ UNCHANGED <<websocket, connected, label, timers, starts, doubled, overtaken, early>>

\* doSendLoop, the first click: a timer is set whether one still waits or not.
StartLoop ==
  /\ connected /\ ~loopRunning /\ timers < MaxTimers
  /\ loopRunning' = TRUE /\ label' = "Stop"
  /\ timers' = timers + 1
  /\ starts' = IF starts < MaxTimers THEN starts + 1 ELSE starts
  /\ overtaken' = (overtaken /\ State = "connecting")
  /\ early' = (State = "connecting")
  /\ UNCHANGED <<sockets, websocket, connected, doubled, reopened>>

\* A bug: the label is left as it is.
StopKeepsLabel ==
  /\ connected /\ loopRunning
  /\ loopRunning' = FALSE /\ reopened' = FALSE
  /\ UNCHANGED <<sockets, websocket, connected, label, timers, starts, doubled, overtaken, early>>

\* The second: the timer that waits is not cleared.
StopLoop ==
  /\ connected /\ loopRunning
  /\ loopRunning' = FALSE /\ label' = "Send" /\ reopened' = FALSE
  /\ UNCHANGED <<sockets, websocket, connected, timers, starts, doubled, overtaken, early>>

Wait(n) == timers' = n /\ starts' = IF n = 0 THEN 0 ELSE starts

\* A bug: sendLoop does not test loopRunning.
TimerAlways ==
  /\ timers > 0
  /\ IF State = "connecting" THEN Wait(timers - 1) ELSE Wait(timers)
  /\ UNCHANGED <<sockets, websocket, connected, label, loopRunning, doubled, overtaken, early, reopened>>

\* Another: it is called twice.
TimerTwice ==
  /\ timers > 0 /\ timers < MaxTimers
  /\ Wait(IF loopRunning THEN timers + 1 ELSE timers - 1)
  /\ UNCHANGED <<sockets, websocket, connected, label, loopRunning, doubled, overtaken, early, reopened>>

\* Another: the next timer is set for an open connection only.
TimerNeedsOpen ==
  /\ timers > 0
  /\ Wait(IF State = "open" /\ loopRunning THEN timers ELSE timers - 1)
  /\ UNCHANGED <<sockets, websocket, connected, label, loopRunning, doubled, overtaken, early, reopened>>

\* The callback of the timer sends, loopRunning or not, and sets the next timer
\* if it is.  send() throws on a connection that is not open yet, which ends
\* the callback, and drops the text on one that is no longer open.  Once the
\* connection is not connecting, what overtook a timer can do it no more harm:
\* the two histories start anew.
Timer ==
  /\ timers > 0
  /\ Wait(IF State # "connecting" /\ loopRunning THEN timers ELSE timers - 1)
  /\ overtaken' = (overtaken /\ State = "connecting")
  /\ early' = (early /\ State = "connecting")
  /\ UNCHANGED <<sockets, websocket, connected, label, loopRunning, doubled, reopened>>

\* onOpen, and setGuiConnected(true)
OnOpen(s) ==
  /\ sockets[s] = "connecting" /\ sockets' = [sockets EXCEPT ![s] = "open"]
  /\ connected' = TRUE /\ label' = "Send"
  /\ reopened' = (reopened \/ loopRunning)
  /\ UNCHANGED <<websocket, loopRunning, timers, starts, doubled, overtaken, early>>

\* A bug: setGuiConnected is only told of a connection that opens.
CloseUnseen(s) ==
  /\ sockets[s] # "closed" /\ sockets' = [sockets EXCEPT ![s] = "closed"]
  /\ UNCHANGED <<websocket, connected, label, loopRunning, timers, history>>

\* The closing handshake is begun by the module; the page is not told yet.
PeerCloses(s) ==
  /\ sockets[s] = "open" /\ sockets' = [sockets EXCEPT ![s] = "closing"]
  /\ UNCHANGED <<websocket, connected, label, loopRunning, timers, history>>

\* onClose, and setGuiConnected(false): the page or the module closed, the
\* connection was lost, or it was refused.
OnClose(s) ==
  /\ sockets[s] # "closed" /\ sockets' = [sockets EXCEPT ![s] = "closed"]
  /\ connected' = FALSE /\ label' = "Stop"
  /\ UNCHANGED <<websocket, loopRunning, timers, history>>

Next ==
  \/ DoConnect \/ DoDisconnect \/ StartLoop \/ StopLoop \/ Timer
  \/ \E s \in DOMAIN sockets : OnOpen(s) \/ PeerCloses(s) \/ OnClose(s)

\* The browser runs a timer that is due; clicks and the network owe nothing.
Spec == Init /\ [][Next]_vars /\ WF_vars(Timer)

----------------------------------------------------------------------------
\* The values every variable takes.
TypeOK ==
  /\ sockets \in Seq({"connecting", "open", "closing", "closed"})
  /\ websocket = Len(sockets)
  /\ connected \in BOOLEAN /\ label \in {"Send", "Stop"}
  /\ loopRunning \in BOOLEAN /\ timers \in Nat /\ starts \in Nat
  /\ doubled \in BOOLEAN /\ overtaken \in BOOLEAN /\ early \in BOOLEAN
  /\ reopened \in BOOLEAN

\* A page that waits for one connection before it makes the next has one, and
\* its buttons say whether it is up.  (Who presses Connect twice has a
\* connection no button closes, whose end disables the buttons of the other.)
OneConnection ==
  ~doubled => /\ \A s \in DOMAIN sockets : s # websocket => sockets[s] = "closed"
              /\ connected <=> websocket # 0 /\ State \in {"open", "closing"}

\* A loop that runs has a timer, through every disconnection, stop and start.
\* Two things end one whose button says it runs, both a send() that throws on a
\* connection still connecting: the page connected anew while a timer waited, or
\* the loop was started while the connection in the variable was not open yet.
\* The second needs another connection, whose onOpen enabled the button.
LoopAlive ==
  /\ loopRunning => timers > 0 \/ overtaken \/ early
  /\ early => doubled

\* Stopping and starting a loop faster than its timer makes two loops of it,
\* but never more than were started.
LoopsCounted == timers <= starts

\* The button tells whether a click starts or stops the loop, with two
\* exceptions: "Stop" over a loop that does not run is seen only when the
\* connection in the variable is closing or closed, "Send" over one that runs
\* only after a connection opened while a loop went on.  Whether a loop that
\* is said to run still has a timer is LoopAlive's matter.
LabelTells ==
  connected =>
    /\ label = "Stop" /\ ~loopRunning => State \in {"closing", "closed"}
    /\ label = "Send" /\ loopRunning => reopened

\* A loop that is stopped, by its button or by doDisconnect, ends.
LoopStops == ~loopRunning ~> (timers = 0 \/ loopRunning)
=============================================================================
