-------------------------- MODULE StressClientProofs --------------------------
(***************************************************************************)
(* What holds of StressClient for any number of threads and messages and   *)
(* any sizes.  All of it is a matter of one thread: ThreadInv says of      *)
(* thread k which handles it has, how far it is, and what it was told.     *)
(***************************************************************************)
EXTENDS StressClient, TLAPS

Said == {"echo", "enter"} \X Nat

ServiceTypes ==
  /\ life \in [Clients -> {"new", "open", "lost", "done"}]
  /\ sent \in [Clients -> Nat]
  /\ told \in [Clients -> Seq(Said)]

Types == TypeOK /\ ServiceTypes

\* A handle was closed once if it was opened and its variable is NULL.
HandlesInv(k) ==
  /\ handle[k] \subseteq opened[k]
  /\ \A h \in Handles :
       closes[k][h] = IF h \in opened[k] /\ h \notin handle[k] THEN 1 ELSE 0
  /\ pc[k] \in {"none", "handshake"} =>
       /\ handle[k] = opened[k] /\ "websocket" \notin opened[k]
       /\ stage[k] < Len(Calls)
  /\ pc[k] \in {"none", "handshake"} /\ stage[k] >= 3 => "request" \in opened[k]
  /\ pc[k] = "ended" => handle[k] = {}

\* How many messages were sent and received wherever the thread is.
ProgressInv(k) ==
  /\ pc[k] \in {"none", "handshake", "send"} =>
       i[k] <= Loops /\ sent[k] = i[k] - 1 /\ read[k] = i[k] - 1
  /\ pc[k] \in {"receive", "print"} =>
       i[k] <= Loops /\ sent[k] = i[k] /\ read[k] = i[k] - 1
  /\ pc[k] = "print" => read[k] < Len(told[k])
  /\ \/ pc[k] = "close"
     \/ pc[k] \in {"quit", "ended"} /\ "websocket" \in opened[k] /\ ~failed[k]
     => sent[k] = Loops /\ read[k] = Loops

\* No echo is of a message that was not sent, nor, once it was received, of
\* one later than the message it is taken to answer.
ToldInv(k) ==
  /\ read[k] <= Len(told[k])
  /\ \A n \in 1..Len(told[k]) : told[k][n][1] = "echo" =>
       told[k][n][2] <= sent[k] /\ (n <= read[k] => told[k][n][2] <= n)

ThreadInv(k) ==
  HandlesInv(k) /\ ProgressInv(k) /\ ToldInv(k) /\ used[k] + room[k] = BufSize

MainInv ==
  /\ \A k \in Clients : k > created => pc[k] = "none"

IInv == Types /\ MainInv /\ \A k \in Clients : ThreadInv(k)

\* A step that is not thread k's.
Same(k) ==
  /\ pc'[k] = pc[k] /\ stage'[k] = stage[k] /\ handle'[k] = handle[k]
  /\ opened'[k] = opened[k] /\ closes'[k] = closes[k] /\ failed'[k] = failed[k]
  /\ i'[k] = i[k] /\ used'[k] = used[k] /\ room'[k] = room[k]
  /\ read'[k] = read[k] /\ sent'[k] = sent[k] /\ told'[k] = told[k]

USE MaxThreadsAssumption, LoopsAssumption, BufSizeAssumption, MaxLenAssumption,
    MaxToldAssumption
USE DEF Clients

LEMMA SameKeeps ==
  ASSUME NEW k, ThreadInv(k), Same(k)
  PROVE  ThreadInv(k)'
BY DEF ThreadInv, Same, HandlesInv, ProgressInv, ToldInv

\* What the seven calls of the handshake open.
LEMMA CallsOpen ==
  /\ Len(Calls) = 7
  /\ \A call \in 1..7 : /\ Calls[call].opens \subseteq Handles
                        /\ Calls[call].kept \in BOOLEAN
                        /\ call < 7 => "websocket" \notin Calls[call].opens
  /\ Calls[3].opens = {"request"}
<1>1. Len(Calls) = 7 /\ Calls[3].opens = {"request"}
  BY DEF Calls
<1>2. /\ Calls[1].opens = {"session"} /\ Calls[2].opens = {"connection"}
      /\ Calls[4].opens = {} /\ Calls[5].opens = {} /\ Calls[6].opens = {}
      /\ Calls[7].opens = {"websocket"}
  BY DEF Calls
<1>3. /\ Calls[1].kept = FALSE /\ Calls[2].kept = FALSE /\ Calls[3].kept = FALSE
      /\ Calls[4].kept = FALSE /\ Calls[5].kept = TRUE /\ Calls[6].kept = TRUE
      /\ Calls[7].kept = FALSE
  BY DEF Calls
<1>4. ASSUME NEW call \in 1..7
      PROVE  /\ Calls[call].opens \subseteq Handles
             /\ Calls[call].kept \in BOOLEAN
             /\ call < 7 => "websocket" \notin Calls[call].opens
  <2>1. \/ call = 1 \/ call = 2 \/ call = 3 \/ call = 4
        \/ call = 5 \/ call = 6 \/ call = 7
    OBVIOUS
  <2>2. Calls[call].kept \in BOOLEAN
    BY <2>1, <1>3
  <2>3. Calls[call].opens \subseteq Handles
    BY <2>1, <1>1, <1>2 DEF Handles
  <2>4. call < 7 => "websocket" \notin Calls[call].opens
    BY <2>1, <1>1, <1>2
  <2>. QED
    BY <2>2, <2>3, <2>4
<1>. QED
  BY <1>1, <1>4

LEMMA InitHolds == Init => IInv
<1>. SUFFICES ASSUME Init PROVE IInv
  OBVIOUS
<1>1. TypeOK
  BY CallsOpen DEF Init, TypeOK, Handles
<1>2. ServiceTypes
  BY DEF Init, Service!Init, ServiceTypes
<1>3. MainInv
  BY DEF Init, MainInv
<1>4. ASSUME NEW k \in Clients PROVE ThreadInv(k)
  BY CallsOpen DEF Init, Service!Init, ThreadInv, HandlesInv, ProgressInv, ToldInv
<1>. QED
  BY <1>1, <1>2, <1>3, <1>4 DEF IInv, Types

\* A step of thread k, or of the service for it, touches no other thread.
LEMMA OneThread ==
  ASSUME IInv, NEW k \in Clients, Types', ThreadInv(k)', main = "create",
         UNCHANGED mainVars,
         pc[k] # "none", pc[k] # "ended",
         \A j \in Clients \ {k} : Same(j)
  PROVE  IInv'
<1>1. \A j \in Clients : ThreadInv(j)'
  BY SameKeeps DEF IInv
<1>2. MainInv'
  BY DEF IInv, MainInv, mainVars, Same
<1>. QED
  BY <1>1, <1>2 DEF IInv

LEMMA MainKeeps ==
  ASSUME IInv, main = "create", CreateThread \/ CreateFails \/ WaitThreads
  PROVE  IInv'
<1>1. CASE CreateThread
  <2>1. created + 1 \in Clients /\ pc[created + 1] = "none" /\ created \in Nat
    BY <1>1 DEF CreateThread, IInv, MainInv, Types, TypeOK
  <2>2. /\ created' = created + 1
        /\ pc' = [pc EXCEPT ![created + 1] = "handshake"]
        /\ UNCHANGED <<main, handleVars, failed, i, receiveVars, service>>
    BY <1>1 DEF CreateThread
  <2>3. Types'
    <3>1. created' \in 0..MaxThreads /\ main' = main
      BY <2>1, <2>2
    <3>2. pc' \in [Clients -> {"none", "handshake", "send", "receive", "print",
                              "close", "quit", "ended"}]
      BY <2>1, <2>2 DEF IInv, Types, TypeOK
    <3>. QED
      BY <2>2, <3>1, <3>2 DEF IInv, Types, TypeOK, ServiceTypes, handleVars,
         receiveVars, service
  <2>4. ASSUME NEW j \in Clients PROVE ThreadInv(j)'
    <3>. USE <2>1, <2>2 DEF IInv, Types, handleVars, receiveVars, service
    <3>1. CASE j = created + 1
      <4>1. pc[j] = "none" /\ pc'[j] = "handshake"
        BY <3>1 DEF TypeOK
      <4>. QED
        BY <4>1 DEF ThreadInv, HandlesInv, ProgressInv, ToldInv
    <3>2. CASE j # created + 1
      BY <3>2, SameKeeps DEF Same, TypeOK
    <3>. QED
      BY <3>1, <3>2
  <2>5. MainInv'
    <3>2. ASSUME NEW j \in Clients, j > created' PROVE pc'[j] = "none"
      <4>1. j # created + 1 /\ j > created
        BY <2>1, <2>2, <3>2
      <4>. QED
        BY <2>1, <2>2, <4>1 DEF IInv, MainInv, Types, TypeOK
    <3>. QED
      BY <3>2 DEF MainInv
  <2>. QED
    BY <2>3, <2>4, <2>5 DEF IInv
<1>2. CASE CreateFails \/ WaitThreads
  <2>1. UNCHANGED <<created, pc, handleVars, failed, i, receiveVars, service>>
    BY <1>2 DEF CreateFails, WaitThreads
  <2>2. Types'
    BY <1>2, <2>1 DEF CreateFails, WaitThreads, IInv, Types, TypeOK, ServiceTypes,
       handleVars, receiveVars, service
  <2>3. \A j \in Clients : ThreadInv(j)'
    BY <2>1, SameKeeps DEF IInv, Same, handleVars, receiveVars, service
  <2>4. MainInv'
    BY <1>2 DEF CreateFails, WaitThreads, IInv, MainInv
  <2>. QED
    BY <2>2, <2>3, <2>4 DEF IInv
<1>. QED
  BY <1>1, <1>2

LEMMA StageBounds ==
  ASSUME IInv
  PROVE  /\ Len(Calls) = 7 /\ stage \in [Clients -> 0..7]
         /\ \A k \in Clients : pc[k] = "handshake" => stage[k] \in 0..6
<1>1. Len(Calls) = 7
  BY CallsOpen
<1>2. stage \in [Clients -> 0..7]
  BY <1>1 DEF IInv, Types, TypeOK
<1>3. ASSUME NEW k \in Clients, pc[k] = "handshake" PROVE stage[k] \in 0..6
  <2>1. stage[k] < 7
    BY <1>1, <1>3 DEF IInv, ThreadInv, HandlesInv
  <2>. QED
    BY <2>1, <1>2
<1>. QED
  BY <1>1, <1>2, <1>3

\* The step of one thread: the types of what it changes, then ThreadInv.
LEMMA CallFailsKeeps ==
  ASSUME IInv, main = "create", NEW k \in Clients, CallFails(k)
  PROVE  IInv'
<1>. USE DEF CallFails, Goto, mainVars, handleVars, receiveVars, service
<1>1. stage[k] + 1 \in 1..7
  BY StageBounds
<1>2. Types'
  BY <1>1, CallsOpen DEF IInv, Types, TypeOK, ServiceTypes
<1>3. /\ pc[k] = "handshake" /\ pc'[k] = "quit" /\ ThreadInv(k)
      /\ UNCHANGED <<stage[k], handle[k], opened[k], closes[k], i[k], used[k],
                     room[k], read[k], sent[k], told[k]>>
  BY DEF IInv, Types, TypeOK
<1>4. ThreadInv(k)'
  <2>. HIDE DEF CallFails
  <2>. QED
    BY <1>3 DEF ThreadInv, HandlesInv, ProgressInv, ToldInv
<1>5. \A j \in Clients \ {k} : Same(j)
  BY DEF Same, IInv, Types, TypeOK
<1>. QED
  BY <1>2, <1>3, <1>4, <1>5, OneThread

LEMMA CallSucceedsKeeps ==
  ASSUME IInv, main = "create", NEW k \in Clients, CallSucceeds(k)
  PROVE  IInv'
<1>. DEFINE call == stage[k] + 1
<1>0. call \in 1..6
  <2>1. pc[k] = "handshake" /\ call < Len(Calls)
    BY DEF CallSucceeds, Goto
  <2>2. Len(Calls) = 7 /\ stage[k] \in 0..6
    BY <2>1, StageBounds
  <2>. QED
    BY <2>1, <2>2
<1>1. /\ call \in 1..6 /\ Calls[call].opens \subseteq Handles
      /\ "websocket" \notin Calls[call].opens
      /\ call = 3 => Calls[call].opens = {"request"}
  BY <1>0, CallsOpen
<1>2. /\ stage' = [stage EXCEPT ![k] = call]
      /\ handle' = [handle EXCEPT ![k] = @ \cup Calls[call].opens]
      /\ opened' = [opened EXCEPT ![k] = @ \cup Calls[call].opens]
      /\ pc[k] = "handshake" /\ pc' = [pc EXCEPT ![k] = "handshake"]
      /\ UNCHANGED <<mainVars, closes, failed, i, receiveVars, service>>
  BY DEF CallSucceeds, Goto
<1>. HIDE DEF call
<1>3. Types'
  <2>1. stage' \in [Clients -> 0..7]
    BY <1>0, <1>2, StageBounds
  <2>. QED
    BY <2>1, <1>1, <1>2, StageBounds DEF IInv, Types, TypeOK, ServiceTypes, mainVars,
       receiveVars, service
<1>4. /\ stage'[k] = call /\ handle'[k] = handle[k] \cup Calls[call].opens
      /\ opened'[k] = opened[k] \cup Calls[call].opens
      /\ pc[k] = "handshake" /\ pc'[k] = "handshake" /\ ThreadInv(k)
      /\ UNCHANGED <<closes[k], failed[k], i[k], used[k], room[k], read[k],
                     sent[k], told[k]>>
  BY <1>2 DEF IInv, Types, TypeOK, mainVars, receiveVars, service
<1>5. HandlesInv(k)'
  <2>1. handle[k] = opened[k] /\ "websocket" \notin opened[k]
    BY <1>4 DEF ThreadInv, HandlesInv
  <2>2. handle'[k] = opened'[k] /\ "websocket" \notin opened'[k]
    BY <1>1, <1>4, <2>1
  <2>3. stage[k] \in Nat /\ call = stage[k] + 1
    BY StageBounds DEF call
  <2>4. stage'[k] >= 3 => "request" \in opened'[k]
    BY <1>1, <1>4, <2>3 DEF ThreadInv, HandlesInv
  <2>5. \A h \in Handles : closes'[k][h] = 0
    BY <1>4, <2>1 DEF ThreadInv, HandlesInv
  <2>. QED
    BY <1>1, <1>4, <2>2, <2>4, <2>5, CallsOpen DEF HandlesInv
<1>6. ThreadInv(k)'
  BY <1>4, <1>5 DEF ThreadInv, ProgressInv, ToldInv
<1>7. \A j \in Clients \ {k} : Same(j)
  BY <1>2 DEF Same, IInv, Types, TypeOK, mainVars, receiveVars, service
<1>. QED
  BY <1>2, <1>3, <1>4, <1>6, <1>7, OneThread

LEMMA UpgradeKeeps ==
  ASSUME IInv, main = "create", NEW k \in Clients, Upgrade(k)
  PROVE  IInv'
<1>. USE DEF Upgrade, Goto, mainVars, receiveVars, service
<1>0. /\ stage[k] = 6 /\ stage' = [stage EXCEPT ![k] = 7]
      /\ stage' \in [Clients -> 0..7]
  <2>1. Len(Calls) = 7 /\ stage[k] \in 0..7 /\ stage \in [Clients -> 0..7]
    BY StageBounds
  <2>2. stage[k] = 6
    BY <2>1
  <2>. QED
    BY <2>1, <2>2
<1>1. Types'
  <2>1. closes' \in [Clients -> [Handles -> Nat]]
    <3>1. /\ closes \in [Clients -> [Handles -> Nat]] /\ "request" \in Handles
          /\ closes' = [closes EXCEPT ![k]["request"] = @ + 1]
      BY DEF IInv, Types, TypeOK, Handles
    <3>. HIDE DEF Upgrade
    <3>. QED
      BY <3>1
  <2>2. handle' \in [Clients -> SUBSET Handles] /\ opened' \in [Clients -> SUBSET Handles]
    BY DEF IInv, Types, TypeOK, Handles
  <2>3. stage' \in [Clients -> 0..Len(Calls)]
    BY <1>0, StageBounds
  <2>. QED
    BY <2>1, <2>2, <2>3 DEF IInv, Types, TypeOK, ServiceTypes
<1>2. /\ pc[k] = "handshake" /\ pc'[k] = "send" /\ ThreadInv(k)
      /\ handle'[k] = (handle[k] \cup {"websocket"}) \ {"request"}
      /\ opened'[k] = opened[k] \cup {"websocket"}
      /\ closes'[k] = [closes[k] EXCEPT !["request"] = @ + 1]
      /\ stage[k] = 6
      /\ UNCHANGED <<failed[k], i[k], used[k], room[k], read[k], sent[k], told[k]>>
  BY <1>0 DEF IInv, Types, TypeOK
<1>. HIDE DEF Upgrade
<1>3. /\ handle[k] = opened[k] /\ "request" \in opened[k]
      /\ \A h \in Handles : closes[k][h] = 0
  BY <1>2 DEF ThreadInv, HandlesInv
<1>4. closes[k] \in [Handles -> Nat] /\ opened[k] \subseteq Handles
  BY DEF IInv, Types, TypeOK
<1>5. \A h \in Handles : closes'[k][h] = IF h = "request" THEN 1 ELSE 0
  BY <1>2, <1>3, <1>4
<1>6. HandlesInv(k)'
  BY <1>2, <1>3, <1>5 DEF HandlesInv
<1>7. ThreadInv(k)'
  BY <1>2, <1>6 DEF ThreadInv, ProgressInv, ToldInv
<1>8. \A j \in Clients \ {k} : Same(j)
  BY DEF Upgrade, Same, IInv, Types, TypeOK
<1>. QED
  BY <1>1, <1>2, <1>7, <1>8, OneThread DEF Upgrade

\* A thread that sends, prints, closes or fails: the handles stay.
LEMMA LoopStepKeeps ==
  ASSUME IInv, main = "create", NEW k \in Clients,
         Send(k) \/ LoopFails(k) \/ Answer(k) \/ Close(k)
  PROVE  IInv'
<1>1. UNCHANGED <<mainVars, handleVars, left, life, told>>
  BY DEF Send, Service!Send, LoopFails, Quit, Answer, Close, receiveVars, service
<1>2. ThreadInv(k) /\ Types
  BY DEF IInv
<1>3. CASE Send(k)
  <2>. USE <1>1, <1>3 DEF Send, Service!Send, Goto, mainVars, handleVars, receiveVars
  <2>1. Types'
    <3>1. sent' \in [Clients -> Nat]
      BY <1>2 DEF Types, ServiceTypes
    <3>2. pc' \in [Clients -> {"none", "handshake", "send", "receive", "print",
                              "close", "quit", "ended"}]
      BY <1>2 DEF Types, TypeOK
    <3>. QED
      BY <1>2, <3>1, <3>2 DEF Types, TypeOK, ServiceTypes
  <2>2. /\ pc[k] = "send" /\ pc'[k] = "receive" /\ sent'[k] = sent[k] + 1
        /\ UNCHANGED <<stage[k], handle[k], opened[k], closes[k], failed[k], i[k],
                       used[k], room[k], read[k], told[k]>>
    BY <1>2 DEF Types, TypeOK, ServiceTypes
  <2>7. sent[k] \in Nat /\ i[k] \in Nat /\ told[k] \in Seq(Said)
    <3>. HIDE DEF Send
    <3>1. i[k] \in 1..(Loops + 1)
      BY <1>2 DEF Types, TypeOK
    <3>. QED
      BY <1>2, <3>1 DEF Types, ServiceTypes
  <2>3. \A j \in Clients \ {k} : Same(j)
    BY <1>2 DEF Same, Types, TypeOK, ServiceTypes
  <2>4. ToldInv(k)'
    BY <1>2, <2>2, <2>7 DEF ThreadInv, ToldInv, Said
  <2>5. HandlesInv(k)'
    BY <1>2, <2>2 DEF ThreadInv, HandlesInv
  <2>6. ThreadInv(k)'
    BY <1>2, <2>2, <2>7, <2>4, <2>5 DEF ThreadInv, ProgressInv
  <2>. QED
    BY <2>1, <2>2, <2>3, <2>6, OneThread
<1>4. CASE LoopFails(k) \/ Close(k)
  <2>. USE <1>1, <1>4 DEF LoopFails, Close, Quit, Goto, mainVars, handleVars,
       receiveVars, service
  <2>1. Types'
    BY <1>2 DEF Types, TypeOK, ServiceTypes
  <2>2. /\ pc[k] \in {"send", "receive", "close"} /\ pc'[k] = "quit"
        /\ failed'[k] = TRUE \/ pc[k] = "close"
        /\ UNCHANGED <<stage[k], handle[k], opened[k], closes[k], i[k],
                       used[k], room[k], read[k], sent[k], told[k]>>
    BY <1>2 DEF Types, TypeOK
  <2>3. \A j \in Clients \ {k} : Same(j)
    BY <1>2 DEF Same, Types, TypeOK
  <2>4. ToldInv(k)' /\ HandlesInv(k)'
    BY <1>2, <2>2 DEF ThreadInv, ToldInv, HandlesInv
  <2>5. ThreadInv(k)'
    BY <1>2, <2>2, <2>4 DEF ThreadInv, ProgressInv
  <2>. QED
    BY <2>1, <2>2, <2>3, <2>5, OneThread
<1>5. CASE Answer(k)
  <2>. USE <1>1, <1>5 DEF Answer, Goto, mainVars, handleVars, service
  <2>1. i[k] \in 1..Loops /\ read[k] = i[k] - 1 /\ sent[k] = i[k]
    BY <1>2 DEF Types, TypeOK, ThreadInv, ProgressInv
  <2>2. Types'
    <3>1. i' \in [Clients -> 1..(Loops + 1)] /\ read' \in [Clients -> Nat]
      <4>1. i \in [Clients -> 1..(Loops + 1)] /\ read \in [Clients -> Nat]
        BY <1>2 DEF Types, TypeOK
      <4>2. i' = [i EXCEPT ![k] = @ + 1] /\ read' = [read EXCEPT ![k] = @ + 1]
        BY DEF Answer
      <4>3. i[k] + 1 \in 1..(Loops + 1) /\ read[k] + 1 \in Nat
        BY <2>1, <4>1
      <4>. HIDE DEF Answer
      <4>. QED
        BY <4>1, <4>2, <4>3
    <3>2. used' \in [Clients -> Nat] /\ room' \in [Clients -> Nat]
      BY <1>2 DEF Types, TypeOK
    <3>3. pc' \in [Clients -> {"none", "handshake", "send", "receive", "print",
                              "close", "quit", "ended"}]
      BY <1>2 DEF Types, TypeOK
    <3>. QED
      BY <1>2, <3>1, <3>2, <3>3 DEF Types, TypeOK, ServiceTypes
  <2>3. /\ pc[k] = "print" /\ pc'[k] = IF i[k] = Loops THEN "close" ELSE "send"
        /\ i'[k] = i[k] + 1 /\ read'[k] = read[k] + 1
        /\ used'[k] = 0 /\ room'[k] = BufSize
        /\ UNCHANGED <<stage[k], handle[k], opened[k], closes[k], failed[k],
                       sent[k], told[k]>>
        /\ told[k] \in Seq(Said) /\ read[k] \in Nat
    BY <1>2 DEF Types, TypeOK, ServiceTypes
  <2>4. \A j \in Clients \ {k} : Same(j)
    BY <1>2 DEF Same, Types, TypeOK
  <2>5. read[k] < Len(told[k])
    BY <1>2, <2>3 DEF ThreadInv, ProgressInv
  <2>6. ToldInv(k)'
    BY <1>2, <2>1, <2>3, <2>5 DEF ThreadInv, ToldInv, Said
  <2>7. HandlesInv(k)' /\ ProgressInv(k)'
    BY <1>2, <2>1, <2>3 DEF ThreadInv, HandlesInv, ProgressInv
  <2>8. ThreadInv(k)'
    BY <2>3, <2>6, <2>7 DEF ThreadInv
  <2>. QED
    BY <2>2, <2>3, <2>4, <2>8, OneThread
<1>. QED
  BY <1>3, <1>4, <1>5

LEMMA ReceiveKeeps ==
  ASSUME IInv, main = "create", NEW k \in Clients, Receive(k)
  PROVE  IInv'
<1>1. ThreadInv(k) /\ Types
  BY DEF IInv
<1>2. /\ left \in [Clients -> Nat] /\ used \in [Clients -> Nat]
      /\ room \in [Clients -> Nat]
  BY <1>1 DEF Types, TypeOK
<1>3. PICK total \in Nat, n \in 1..room[k] :
        /\ n <= total
        /\ left' = [left EXCEPT ![k] = total - n]
        /\ used' = [used EXCEPT ![k] = @ + n]
        /\ room' = [room EXCEPT ![k] = @ - n]
  <2>1. PICK total \in IF left[k] = 0 THEN 1..MaxLen ELSE {left[k]}, n \in 1..room[k] :
          /\ n <= total
          /\ left' = [left EXCEPT ![k] = total - n]
          /\ used' = [used EXCEPT ![k] = @ + n]
          /\ room' = [room EXCEPT ![k] = @ - n]
    BY DEF Receive
  <2>2. total \in Nat
    BY <1>2, <2>1
  <2>. QED
    BY <2>1, <2>2
<1>4. PICK to \in {"print", "receive"} : pc' = [pc EXCEPT ![k] = to]
  BY DEF Receive, Goto
<1>5. /\ pc[k] = "receive" /\ read[k] < Len(told[k])
      /\ UNCHANGED <<mainVars, handleVars, failed, i, read, service>>
  BY DEF Receive
<1>6. used[k] \in Nat /\ room[k] \in Nat /\ n \in Nat /\ n <= room[k]
  BY <1>1, <1>3 DEF Types, TypeOK
<1>7. Types'
  <2>1. /\ left' \in [Clients -> Nat] /\ used' \in [Clients -> Nat]
        /\ room' \in [Clients -> Nat]
    <3>1. /\ total - n \in Nat /\ used[k] + n \in Nat /\ room[k] - n \in Nat
      BY <1>3, <1>6
    <3>. QED
      BY <1>2, <1>3, <3>1
  <2>2. pc' \in [Clients -> {"none", "handshake", "send", "receive", "print",
                            "close", "quit", "ended"}]
    BY <1>1, <1>4 DEF Types, TypeOK
  <2>. QED
    BY <1>1, <1>5, <2>1, <2>2 DEF Types, TypeOK, ServiceTypes, mainVars, handleVars,
       service
<1>8. /\ pc'[k] = to /\ used'[k] = used[k] + n /\ room'[k] = room[k] - n
      /\ UNCHANGED <<stage[k], handle[k], opened[k], closes[k], failed[k], i[k],
                     read[k], sent[k], told[k]>>
  BY <1>1, <1>3, <1>4, <1>5 DEF Types, TypeOK, handleVars, service
<1>9. used'[k] + room'[k] = BufSize
  BY <1>1, <1>6, <1>8 DEF ThreadInv
<1>10. ThreadInv(k)'
  BY <1>1, <1>4, <1>5, <1>8, <1>9 DEF ThreadInv, HandlesInv, ProgressInv, ToldInv
<1>11. \A j \in Clients \ {k} : Same(j)
  BY <1>1, <1>3, <1>4, <1>5 DEF Same, Types, TypeOK, handleVars, service
<1>. QED
  BY <1>5, <1>7, <1>10, <1>11, OneThread

LEMMA EndKeeps ==
  ASSUME IInv, main = "create", NEW k \in Clients, End(k)
  PROVE  IInv'
<1>1. ThreadInv(k) /\ Types
  BY DEF IInv
<1>2. /\ closes' = [closes EXCEPT ![k] =
           [h \in Handles |-> IF h \in handle[k] THEN @[h] + 1 ELSE @[h]]]
      /\ handle' = [handle EXCEPT ![k] = {}]
      /\ i' = [i EXCEPT ![k] = 1] /\ used' = [used EXCEPT ![k] = 0]
      /\ room' = [room EXCEPT ![k] = BufSize] /\ left' = [left EXCEPT ![k] = 0]
      /\ pc[k] = "quit" /\ pc' = [pc EXCEPT ![k] = "ended"]
      /\ UNCHANGED <<mainVars, stage, opened, failed, read, service>>
  BY DEF End, Goto
<1>3. closes \in [Clients -> [Handles -> Nat]] /\ opened[k] \subseteq Handles
  BY <1>1 DEF Types, TypeOK
<1>4. closes' \in [Clients -> [Handles -> Nat]]
  <2>1. [h \in Handles |-> IF h \in handle[k] THEN closes[k][h] + 1 ELSE closes[k][h]]
          \in [Handles -> Nat]
    BY <1>3
  <2>. QED
    BY <1>2, <1>3, <2>1
<1>5. Types'
  <2>1. handle' \in [Clients -> SUBSET Handles] /\ i' \in [Clients -> 1..(Loops + 1)]
    <3>1. /\ handle \in [Clients -> SUBSET Handles]
          /\ i \in [Clients -> 1..(Loops + 1)]
      BY <1>1 DEF Types, TypeOK
    <3>. QED
      BY <1>2, <3>1
  <2>2. /\ used' \in [Clients -> Nat] /\ room' \in [Clients -> Nat]
        /\ left' \in [Clients -> Nat]
    BY <1>1, <1>2 DEF Types, TypeOK
  <2>3. pc' \in [Clients -> {"none", "handshake", "send", "receive", "print",
                            "close", "quit", "ended"}]
    BY <1>1, <1>2 DEF Types, TypeOK
  <2>. QED
    BY <1>1, <1>2, <1>4, <2>1, <2>2, <2>3 DEF Types, TypeOK, ServiceTypes,
       mainVars, service
<1>6. /\ pc'[k] = "ended" /\ handle'[k] = {} /\ used'[k] = 0 /\ room'[k] = BufSize
      /\ UNCHANGED <<stage[k], opened[k], failed[k], read[k], sent[k], told[k]>>
  BY <1>1, <1>2 DEF Types, TypeOK, service
<1>7. \A h \in Handles :
        closes'[k][h] = IF h \in handle[k] THEN closes[k][h] + 1 ELSE closes[k][h]
  BY <1>2, <1>3
<1>8. HandlesInv(k)'
  BY <1>1, <1>6, <1>7 DEF ThreadInv, HandlesInv
<1>9. ThreadInv(k)'
  BY <1>1, <1>2, <1>6, <1>8 DEF ThreadInv, ProgressInv, ToldInv
<1>10. \A j \in Clients \ {k} : Same(j)
  BY <1>1, <1>2 DEF Same, Types, TypeOK, service
<1>. QED
  BY <1>2, <1>5, <1>9, <1>10, OneThread

\* The service tells of messages that were sent.
LEMMA ServeKeeps ==
  ASSUME IInv, main = "create", NEW k \in Clients, Serve(k)
  PROVE  IInv'
<1>1. ThreadInv(k) /\ Types
  BY DEF IInv
<1>2. /\ pc[k] \in {"handshake", "send", "receive"}
      /\ UNCHANGED <<mainVars, pc, handleVars, failed, i, receiveVars>>
  BY DEF Serve
<1>3. sent' = sent
  BY DEF Serve, Service!Open, Service!Finish, Service!Echo, Service!Enter, Service!Tell
<1>4. /\ life \in [Clients -> {"new", "open", "lost", "done"}]
      /\ told \in [Clients -> Seq(Said)] /\ sent \in [Clients -> Nat]
  BY <1>1 DEF Types, ServiceTypes
<1>5. CASE Service!Open(k) \/ Service!Finish(k)
  <2>1. /\ life' \in [Clients -> {"new", "open", "lost", "done"}] /\ told' = told
    BY <1>4, <1>5 DEF Service!Open, Service!Finish
  <2>2. Types'
    BY <1>1, <1>2, <1>3, <2>1 DEF Types, TypeOK, ServiceTypes, mainVars, handleVars,
       receiveVars
  <2>3. \A j \in Clients : Same(j)
    BY <1>2, <1>3, <2>1 DEF Same, handleVars, receiveVars
  <2>. QED
    BY <1>1, <1>2, <2>2, <2>3, OneThread, SameKeeps
<1>6. CASE \/ \E m \in 1..sent[k] : Service!Echo(k, m)
           \/ \E d \in Clients : Service!Enter(k, d)
  <2>1. PICK what \in Said :
          /\ life' = life /\ told' = [told EXCEPT ![k] = Append(@, what)]
          /\ what[1] = "echo" => what[2] <= sent[k]
    <3>1. CASE \E m \in 1..sent[k] : Service!Echo(k, m)
      <4>1. PICK m \in 1..sent[k] : Service!Echo(k, m)
        BY <3>1
      <4>2. <<"echo", m>> \in Said /\ m <= sent[k]
        BY <1>4 DEF Said
      <4>. QED
        BY <4>1, <4>2 DEF Service!Echo, Service!Tell
    <3>2. CASE \E d \in Clients : Service!Enter(k, d)
      <4>1. PICK d \in Clients : Service!Enter(k, d)
        BY <3>2
      <4>2. <<"enter", d>> \in Said
        BY DEF Said
      <4>. QED
        BY <4>1, <4>2 DEF Service!Enter, Service!Tell
    <3>. QED
      BY <1>6, <3>1, <3>2
  <2>2. /\ told' \in [Clients -> Seq(Said)] /\ told'[k] = Append(told[k], what)
        /\ Len(told'[k]) = Len(told[k]) + 1
        /\ \A n \in 1..Len(told[k]) : told'[k][n] = told[k][n]
        /\ told'[k][Len(told[k]) + 1] = what
        /\ Len(told[k]) \in Nat
    BY <1>4, <2>1
  <2>3. Types'
    BY <1>1, <1>2, <1>3, <2>1, <2>2 DEF Types, TypeOK, ServiceTypes, mainVars,
       handleVars, receiveVars
  <2>4. UNCHANGED <<pc[k], stage[k], handle[k], opened[k], closes[k], failed[k], i[k],
                    used[k], room[k], read[k], sent[k]>>
    BY <1>2, <1>3 DEF handleVars, receiveVars
  <2>5. read[k] \in Nat /\ read[k] <= Len(told[k])
    BY <1>1 DEF Types, TypeOK, ThreadInv, ToldInv
  <2>6. ToldInv(k)'
    BY <1>1, <2>1, <2>2, <2>4, <2>5 DEF ThreadInv, ToldInv
  <2>9. HandlesInv(k)' /\ ProgressInv(k)'
    BY <1>1, <1>2, <2>2, <2>4, <2>5 DEF ThreadInv, HandlesInv, ProgressInv
  <2>7. ThreadInv(k)'
    BY <1>1, <2>4, <2>6, <2>9 DEF ThreadInv
  <2>8. \A j \in Clients \ {k} : Same(j)
    BY <1>2, <1>3, <1>4, <2>1 DEF Same, handleVars, receiveVars
  <2>. QED
    BY <1>2, <2>3, <2>7, <2>8, OneThread
<1>. QED
  BY <1>5, <1>6 DEF Serve

LEMMA Inductive == IInv /\ [Next]_vars => IInv'
<1>. SUFFICES ASSUME IInv, [Next]_vars PROVE IInv'
  OBVIOUS
<1>1. CASE UNCHANGED vars
  <2>1. Types'
    BY <1>1 DEF vars, IInv, Types, TypeOK, ServiceTypes
  <2>2. MainInv'
    BY <1>1 DEF vars, IInv, MainInv
  <2>3. \A k \in Clients : ThreadInv(k)'
    BY <1>1, SameKeeps DEF vars, IInv, Same
  <2>. QED
    BY <2>1, <2>2, <2>3 DEF IInv
<1>2. CASE Next
  <2>1. main = "create"
    BY <1>2 DEF Next, IInv, Types, TypeOK
  <2>2. CASE CreateThread \/ CreateFails \/ WaitThreads
    BY <2>1, <2>2, MainKeeps
  <2>3. ASSUME NEW k \in Clients, ThreadStep(k) PROVE IInv'
    BY <2>1, <2>3, CallFailsKeeps, CallSucceedsKeeps, UpgradeKeeps, LoopStepKeeps,
       ReceiveKeeps, EndKeeps DEF ThreadStep
  <2>4. ASSUME NEW k \in Clients, Serve(k) PROVE IInv'
    BY <2>1, <2>4, ServeKeeps
  <2>. QED
    BY <1>2, <2>2, <2>3, <2>4 DEF Next
<1>. QED
  BY <1>1, <1>2

LEMMA Invariant == Spec => []IInv
<1>. QED
  BY InitHolds, Inductive, PTL DEF Spec

----------------------------------------------------------------------------
\* Every variable keeps its type: above all, what is left of rgbBuffer, an
\* unsigned DWORD, is never reduced below nothing.
THEOREM TypeCorrect == Spec => []TypeOK
<1>1. IInv => TypeOK
  BY DEF IInv, Types
<1>. QED
  BY <1>1, Invariant, PTL

\* Whatever fails, a thread closes each handle it opened once: the label quit
\* closes what the upgrade has not.
THEOREM EveryHandleClosedOnce == Spec => []HandlesClosedOnce
<1>1. ASSUME IInv, NEW k \in Clients, NEW h \in opened[k]
      PROVE  closes[k][h] <= 1 /\ (pc[k] = "ended" => closes[k][h] = 1)
  <2>1. h \in Handles
    BY <1>1 DEF IInv, Types, TypeOK
  <2>2. HandlesInv(k)
    BY <1>1 DEF IInv, ThreadInv
  <2>. QED
    BY <2>1, <2>2 DEF HandlesInv
<1>2. IInv => HandlesClosedOnce
  BY <1>1 DEF HandlesClosedOnce
<1>. QED
  BY <1>2, Invariant, PTL

\* pbCurrentBufferPointer and dwBufferLength describe the rest of rgbBuffer,
\* for messages and fragments of any length.
THEOREM BufferIsNotOverrun == Spec => []BufferFits
<1>1. IInv => BufferFits
  BY DEF IInv, ThreadInv, BufferFits
<1>. QED
  BY <1>1, Invariant, PTL

\* ERROR_SUCCESS after an upgrade means that all messages were sent and as
\* many received.
THEOREM SuccessMeansDone == Spec => []ZeroMeansDone
<1>1. IInv => ZeroMeansDone
  BY DEF IInv, ThreadInv, ProgressInv, ZeroMeansDone
<1>. QED
  BY <1>1, Invariant, PTL

\* The echo of a message is never taken as the answer to an earlier one.
THEOREM NoAnswerAhead == Spec => []AnswerNotAhead
<1>1. ASSUME IInv, NEW k \in Clients, NEW n \in 1..read[k], NEW m \in 1..sent[k],
             told[k][n] = <<"echo", m>>
      PROVE  m <= n
  <2>1. n \in 1..Len(told[k])
    <3>1. read[k] <= Len(told[k]) /\ read[k] \in Nat /\ told[k] \in Seq(Said)
      <4>1. ToldInv(k)
        BY <1>1 DEF IInv, ThreadInv
      <4>2. read[k] \in Nat
        BY <1>1 DEF IInv, Types, TypeOK
      <4>3. told[k] \in Seq(Said)
        BY <1>1 DEF IInv, Types, ServiceTypes
      <4>. QED
        BY <4>1, <4>2, <4>3 DEF ToldInv
    <3>. QED
      BY <1>1, <3>1
  <2>2. told[k][n][1] = "echo" /\ told[k][n][2] = m /\ n <= read[k]
    <3>1. read[k] \in Nat
      BY <1>1 DEF IInv, Types, TypeOK
    <3>. QED
      BY <1>1, <3>1
  <2>3. ToldInv(k) /\ sent[k] \in Nat
    BY <1>1 DEF IInv, Types, ServiceTypes, ThreadInv
  <2>. QED
    BY <1>1, <2>1, <2>2, <2>3 DEF ToldInv
<1>2. IInv => AnswerNotAhead
  BY <1>1 DEF AnswerNotAhead
<1>. QED
  BY <1>2, Invariant, PTL

=============================================================================
