--------------------------- MODULE PageClientProofs ---------------------------
(***************************************************************************)
(* What holds of PageClient for any number of connections and timers.  To  *)
(* the checked invariants IInv adds that buttons, loops and timers are of  *)
(* a page that has connected, and that a timer which waits while it        *)
(* connects was overtaken by doConnect or started too early: the two ways  *)
(* to a send that throws.                                                  *)
(***************************************************************************)
EXTENDS PageClient, SequenceTheorems, TLAPS

IInv ==
  /\ TypeOK /\ OneConnection /\ LoopAlive /\ LoopsCounted /\ LabelTells
  /\ connected \/ loopRunning \/ timers > 0 => websocket # 0
  /\ websocket # 0 /\ State = "connecting" /\ timers > 0 => overtaken \/ early

USE MaxSocketsAssumption, MaxTimersAssumption

States == {"connecting", "open", "closing", "closed"}

LEMMA InitIInv == Init => IInv
<1>. SUFFICES ASSUME Init PROVE IInv
  OBVIOUS
<1>1. TypeOK
  BY EmptySeq DEF Init, TypeOK
<1>2. OneConnection /\ LoopAlive /\ LoopsCounted /\ LabelTells
  BY DEF Init, OneConnection, LoopAlive, LoopsCounted, LabelTells
<1>. QED
  BY <1>1, <1>2 DEF Init, IInv

LEMMA DoConnectStep ==
  ASSUME IInv, DoConnect
  PROVE  IInv'
<1>. /\ ~connected /\ websocket' = Len(sockets) + 1 /\ sockets' = Append(sockets, "connecting")
     /\ UNCHANGED <<connected, label, loopRunning, timers, starts, early, reopened>>
  BY DEF DoConnect
<1>1. /\ sockets' \in Seq(States) /\ Len(sockets') = Len(sockets) + 1
      /\ \A s \in 1..Len(sockets) : sockets'[s] = sockets[s]
      /\ sockets'[websocket'] = "connecting" /\ DOMAIN sockets' = 1..Len(sockets) + 1
  BY AppendProperties DEF IInv, TypeOK, States
<1>2. DOMAIN sockets = 1..Len(sockets) /\ Len(sockets) \in Nat
  BY DEF IInv, TypeOK
<1>3. TypeOK'
  BY <1>1 DEF DoConnect, IInv, TypeOK, States
<1>4. OneConnection'
  <2>. SUFFICES ASSUME ~doubled' PROVE OneConnection'
    BY DEF OneConnection
  <2>1. \A s \in DOMAIN sockets : sockets[s] = "closed"
    BY DEF DoConnect
  <2>2. State' = "connecting" /\ ~connected'
    BY <1>1 DEF State
  <2>. QED  BY <1>1, <1>2, <2>1, <2>2 DEF OneConnection
<1>5. (LoopAlive /\ LoopsCounted /\ LabelTells)'
  BY DEF DoConnect, IInv, TypeOK, LoopAlive, LoopsCounted, LabelTells
<1>6. websocket' # 0
  BY <1>2
<1>7. timers' > 0 => overtaken'
  BY DEF DoConnect
<1>. QED
  BY <1>3, <1>4, <1>5, <1>6, <1>7, Zenon DEF IInv

\* A connection changes its state: every other stays as it is.
LEMMA SocketChanges ==
  ASSUME TypeOK, NEW s \in DOMAIN sockets, NEW to \in States,
         sockets' = [sockets EXCEPT ![s] = to]
  PROVE  /\ sockets' \in Seq(States) /\ Len(sockets') = Len(sockets)
         /\ DOMAIN sockets' = DOMAIN sockets /\ sockets'[s] = to
         /\ \A t \in DOMAIN sockets : t # s => sockets'[t] = sockets[t]
BY DEF TypeOK, States

LEMMA DoDisconnectStep ==
  ASSUME IInv, DoDisconnect
  PROVE  IInv'
<1>. /\ connected /\ ~loopRunning' /\ ~reopened' /\ Close
     /\ UNCHANGED <<websocket, connected, label, timers, starts, doubled, overtaken, early>>
  BY DEF DoDisconnect
<1>1. websocket \in DOMAIN sockets /\ websocket # 0
  BY DEF IInv, TypeOK
<1>2. /\ sockets' \in Seq(States) /\ Len(sockets') = Len(sockets)
      /\ DOMAIN sockets' = DOMAIN sockets
      /\ \A t \in DOMAIN sockets : t # websocket => sockets'[t] = sockets[t]
      /\ sockets'[websocket] = IF State = "closed" THEN "closed" ELSE "closing"
  <2>1. CASE State = "closed"
    BY <2>1 DEF Close, State, IInv, TypeOK, States
  <2>2. CASE State # "closed"
    BY <1>1, <2>2, SocketChanges DEF Close, IInv, States
  <2>. QED  BY <2>1, <2>2
<1>3. TypeOK' /\ LoopAlive' /\ LoopsCounted'
  <2>1. TypeOK'
    BY <1>2 DEF DoDisconnect, IInv, TypeOK, States
  <2>. QED  BY <2>1 DEF IInv, LoopAlive, LoopsCounted
<1>4. OneConnection' /\ LabelTells'
  BY <1>1, <1>2 DEF IInv, OneConnection, LabelTells, State
<1>. QED
  BY <1>1, <1>2, <1>3, <1>4 DEF IInv, State

LEMMA LoopStep ==
  ASSUME IInv, StartLoop \/ StopLoop \/ Timer
  PROVE  IInv'
<1>1. CASE StartLoop
  BY <1>1 DEF StartLoop, IInv, TypeOK, OneConnection, LoopAlive, LoopsCounted, LabelTells, State
<1>2. CASE StopLoop
  BY <1>2 DEF StopLoop, IInv, TypeOK, OneConnection, LoopAlive, LoopsCounted, LabelTells, State
<1>3. CASE Timer
  <2>. /\ timers > 0
       /\ UNCHANGED <<sockets, websocket, connected, label, loopRunning, doubled, reopened>>
       /\ overtaken' = (overtaken /\ State = "connecting")
       /\ early' = (early /\ State = "connecting")
    BY <1>3 DEF Timer
  <2>1. \/ timers' = timers /\ State # "connecting" /\ loopRunning
        \/ timers' = timers - 1 /\ (State = "connecting" \/ ~loopRunning)
    BY <1>3 DEF Timer, Wait
  <2>2. starts' = IF timers' = 0 THEN 0 ELSE starts
    BY <1>3 DEF Timer, Wait
  <2>3. TypeOK' /\ LoopsCounted'
    BY <2>1, <2>2 DEF IInv, TypeOK, LoopsCounted
  <2>4. LoopAlive'
    <3>1. early' => doubled'
      BY DEF IInv, LoopAlive
    <3>2. ASSUME loopRunning, timers' = 0 PROVE overtaken' \/ early'
      <4>1. State = "connecting"
        BY <2>1, <3>2
      <4>2. overtaken \/ early
        BY <4>1, Zenon DEF IInv, TypeOK
      <4>. QED  BY <4>1, <4>2
    <3>. QED  BY <2>3, <3>1, <3>2 DEF LoopAlive, TypeOK
  <2>. QED
    BY <2>1, <2>3, <2>4 DEF IInv, OneConnection, LabelTells, State, TypeOK
<1>. QED
  BY <1>1, <1>2, <1>3

LEMMA EventStep ==
  ASSUME IInv, NEW s \in DOMAIN sockets, OnOpen(s) \/ PeerCloses(s) \/ OnClose(s)
  PROVE  IInv'
<1>. UNCHANGED <<websocket, loopRunning, timers, starts, doubled, overtaken, early>>
  BY DEF OnOpen, PeerCloses, OnClose, history
<1>1. s \in 1..Len(sockets) /\ websocket = Len(sockets) /\ DOMAIN sockets = 1..Len(sockets)
      /\ websocket # 0
  BY DEF IInv, TypeOK
<1>2. CASE OnOpen(s)
  <2>1. /\ sockets[s] = "connecting" /\ sockets' = [sockets EXCEPT ![s] = "open"]
        /\ connected' = TRUE /\ label' = "Send" /\ reopened' = (reopened \/ loopRunning)
    BY <1>2 DEF OnOpen
  <2>2. /\ sockets' \in Seq(States) /\ Len(sockets') = Len(sockets)
        /\ DOMAIN sockets' = DOMAIN sockets /\ sockets'[s] = "open"
        /\ \A t \in DOMAIN sockets : t # s => sockets'[t] = sockets[t]
    BY <2>1, SocketChanges DEF IInv, States
  <2>3. TypeOK'
    BY <2>1, <2>2 DEF IInv, TypeOK, States
  <2>4. OneConnection'
    BY <1>1, <2>1, <2>2 DEF IInv, OneConnection, State
  <2>5. LoopAlive' /\ LoopsCounted'
    BY DEF IInv, LoopAlive, LoopsCounted
  <2>6. LabelTells'
    BY <2>1, <2>3 DEF LabelTells, TypeOK
  <2>7. websocket' # 0 /\ (State' = "connecting" => State = "connecting")
    BY <1>1, <2>1, <2>2 DEF State
  <2>. QED
    BY <1>1, <2>3, <2>4, <2>5, <2>6, <2>7 DEF IInv
<1>3. CASE OnClose(s)
  <2>1. /\ sockets[s] # "closed" /\ sockets' = [sockets EXCEPT ![s] = "closed"]
        /\ connected' = FALSE /\ label' = "Stop" /\ UNCHANGED reopened
    BY <1>3 DEF OnClose, history
  <2>2. /\ sockets' \in Seq(States) /\ Len(sockets') = Len(sockets)
        /\ DOMAIN sockets' = DOMAIN sockets /\ sockets'[s] = "closed"
        /\ \A t \in DOMAIN sockets : t # s => sockets'[t] = sockets[t]
    BY <2>1, SocketChanges DEF IInv, States
  <2>3. TypeOK'
    BY <2>1, <2>2 DEF IInv, TypeOK, States
  <2>4. OneConnection'
    BY <1>1, <2>1, <2>2 DEF IInv, OneConnection, State
  <2>. QED
    BY <1>1, <2>1, <2>2, <2>3, <2>4 DEF IInv, LoopAlive, LoopsCounted, LabelTells, State
<1>4. CASE PeerCloses(s)
  <2>1. /\ sockets[s] = "open" /\ sockets' = [sockets EXCEPT ![s] = "closing"]
        /\ UNCHANGED <<connected, label, reopened>>
    BY <1>4 DEF PeerCloses, history
  <2>2. /\ sockets' \in Seq(States) /\ Len(sockets') = Len(sockets)
        /\ DOMAIN sockets' = DOMAIN sockets /\ sockets'[s] = "closing"
        /\ \A t \in DOMAIN sockets : t # s => sockets'[t] = sockets[t]
    BY <2>1, SocketChanges DEF IInv, States
  <2>3. TypeOK'
    BY <2>1, <2>2 DEF IInv, TypeOK, States
  <2>4. OneConnection'
    BY <1>1, <2>1, <2>2 DEF IInv, OneConnection, State
  <2>5. LabelTells'
    BY <1>1, <2>1, <2>2 DEF IInv, LabelTells, State
  <2>. QED
    BY <1>1, <2>1, <2>2, <2>3, <2>4, <2>5 DEF IInv, LoopAlive, LoopsCounted, State
<1>. QED
  BY <1>2, <1>3, <1>4

LEMMA NextIInv == IInv /\ [Next]_vars => IInv'
<1>. SUFFICES ASSUME IInv, [Next]_vars PROVE IInv'
  OBVIOUS
<1>1. CASE UNCHANGED vars
  BY <1>1 DEF vars, history, IInv, TypeOK, OneConnection, LoopAlive, LoopsCounted, LabelTells, State
<1>. QED
  BY <1>1, DoConnectStep, DoDisconnectStep, LoopStep, EventStep DEF Next

LEMMA Invariance == Spec => []IInv
BY InitIInv, NextIInv, PTL DEF Spec

\* For any number of connections: a page that does not connect twice at a time
\* has one connection, and its buttons follow it.
THEOREM OneConnectionAtATime == Spec => []OneConnection
BY Invariance, PTL DEF IInv

\* A running loop dies only by a send that doConnect overtook, or that was
\* started on a connection not open yet, which takes two connections at once.
THEOREM LoopStaysAlive == Spec => []LoopAlive
BY Invariance, PTL DEF IInv

\* However the button is clicked, no more loops run than were started.
THEOREM LoopsAreCounted == Spec => []LoopsCounted
BY Invariance, PTL DEF IInv

\* The label of the button disagrees with loopRunning only when the connection
\* is closing or closed, or has opened under a loop that went on.
THEOREM LabelIsRight == Spec => []LabelTells
BY Invariance, PTL DEF IInv
=============================================================================
