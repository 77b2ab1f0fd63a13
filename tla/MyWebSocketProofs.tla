------------------------- MODULE MyWebSocketProofs -------------------------
(***************************************************************************)
(* What holds of MyWebSocket for any connections, any pool of threads, any *)
(* number of messages and everything clients and IIS may do.               *)
(*                                                                         *)
(* The safety properties rest on one inductive invariant, IInv: the types, *)
(* where the frames of threads point, that one thread at most reads from a *)
(* connection, who owns a mutex, and the stages of an object's life.  The  *)
(* last sections add CountInv, for the counter of the connections, and     *)
(* OwnerInv, for who may hold a mutex.                                     *)
(***************************************************************************)
EXTENDS MyWebSocket, FiniteSetTheorems, SequenceTheorems, TLAPS

CleaningPcs == {"cleanupFinish", "cleanupDelete"}
SendPcs     == {"writeSend", "writeResend"}
OwnLockPcs  == {"readLocked", "cleanup", "cleanupFinish", "cleanupDelete",
                "cleanupReturn"}

\* Where a thread reads from its connection: it may use data and readBuffer,
\* and the object cannot be deleted meanwhile.
ReaderPcs   == {"insert", "next", "writeLock", "writeSend", "writeResend",
                "checkStatus", "firstRead", "firstAppend", "firstClear",
                "firstFailed", "readLock", "readLocked", "readClear", "reread",
                "rereadFailed"} \cup CleanupPcs

\* A thread at work is at work on an object that was made, and Write has one.
FramesOK ==
  \A t \in Threads :
    /\ pc[t] # "idle" => On(t) \in Conns /\ obj[On(t)] \in {"live", "deleted"}
    /\ pc[t] \in WritePcs => Target(t) \in Conns

\* The critical sections; what is written is written to an object in use.
MutexesOK ==
  \A t \in Threads :
    /\ pc[t] \in OwnLockPcs => mtx[On(t)] = t
    /\ pc[t] \in SendPcs => /\ mtx[Target(t)] = t
                            /\ obj[Target(t)] = "live"
                            /\ indicated[Target(t)] = 0

\* One thread at a time reads from a connection, and none while a read is
\* outstanding; the object it reads from is in use.
ReadersApart ==
  \A t \in Threads : pc[t] \in ReaderPcs =>
    /\ readIO[On(t)] = "none"
    /\ \A u \in Threads \ {t} : pc[u] \in ReaderPcs => On(u) # On(t)

ReadersLive ==
  \A t \in Threads : pc[t] \in ReaderPcs => obj[On(t)] = "live"

\* Only a live object has a read outstanding.
UnreadOK == \A c \in Conns : obj[c] # "live" => readIO[c] = "none"

\* Nothing is written before the object is made.
UnwrittenOK ==
  \A c \in Conns :
    obj[c] \in {"none", "refused"} => writeIO[c] = "none" /\ posted[c] = 0

\* The stages of a connection: entered, in use, being cleaned up, gone.
ConnsOK ==
  \A c \in Conns :
    /\ connectionId[c] # 0 =>
         connectionId[c] = c /\ obj[c] = "live" /\ indicated[c] = 0
    /\ obj[c] \in {"none", "refused"} => indicated[c] = 0
    /\ obj[c] = "deleted" => indicated[c] = 1
    /\ obj[c] = "live" /\ indicated[c] # 0 =>
         \E t \in Threads : On(t) = c /\ pc[t] = "cleanupDelete"

StagesOK ==
  \A t \in Threads :
    /\ pc[t] \in {"insert", "cleanup"} => connectionId[On(t)] = On(t)
    /\ pc[t] \in CleaningPcs =>
         connectionId[On(t)] = 0 /\ (intact => On(t) \notin registry)
    /\ pc[t] = "cleanupDelete" => indicated[On(t)] = 1
    /\ pc[t] = "cleanupReturn" => obj[On(t)] = "deleted"

Shape == /\ FramesOK /\ ReadersApart /\ ReadersLive /\ RegistryLive
         /\ MutexesOK /\ UnreadOK /\ UnwrittenOK /\ ConnsOK /\ StagesOK

IInv == TypeOK /\ Shape

----------------------------------------------------------------------------
(***************************************************************************)
(* What the steps of a thread do to program counters and frames.           *)
(***************************************************************************)
\* Thread t moves, the others stay where they are.
Moves(t) ==
  /\ pc' \in [Threads -> Pcs]
  /\ frame' \in [Threads -> Frame]
  /\ \A u \in Threads \ {t} :
       pc'[u] = pc[u] /\ On(u)' = On(u) /\ Target(u)' = Target(u)

\* No thread but t moves.
Alone(t) == \A u \in Threads \ {t} : pc'[u] = pc[u] /\ frame'[u] = frame[u]

LEMMA GotoEffect ==
  ASSUME ControlTypeOK, NEW t \in Threads, NEW from, NEW to \in Pcs,
         Goto(t, from, to)
  PROVE  /\ Moves(t) /\ pc[t] = from /\ pc'[t] = to
         /\ On(t)' = On(t) /\ Target(t)' = Target(t)
BY DEF ControlTypeOK, Goto, Moves, On, Target

LEMMA ReturnEffect ==
  ASSUME ControlTypeOK, NEW t \in Threads, NEW from, Return(t, from)
  PROVE  Moves(t) /\ pc[t] = from /\ pc'[t] = "idle"
<1>1. NoFrame \in Frame
  BY EmptySeq DEF NoFrame, Frame, Text
<1>. QED
  BY <1>1 DEF ControlTypeOK, Return, Moves, On, Target, Pcs

LEMMA StartEffect ==
  ASSUME ControlTypeOK, NEW t \in Threads, NEW c \in Conns, NEW to \in Pcs,
         NEW final \in BOOLEAN, NEW down \in BOOLEAN, Start(t, c, to, final, down)
  PROVE  Moves(t) /\ pc[t] = "idle" /\ pc'[t] = to /\ On(t)' = c
<1>. DEFINE new == [NoFrame EXCEPT !.on = c, !.final = final, !.down = down]
<1>1. new \in Frame /\ new.on = c
  BY EmptySeq DEF NoFrame, Frame, Text
<1>2. frame' = [frame EXCEPT ![t] = new]
  BY DEF Start
<1>. HIDE DEF new
<1>. QED
  BY <1>1, <1>2 DEF ControlTypeOK, Start, Moves, On, Target

LEMMA CallWriteEffect ==
  ASSUME ControlTypeOK, NEW t \in Threads, NEW from, NEW c \in Conns,
         NEW text \in Text, NEW ret \in {"next", "firstClear", "readClear"},
         CallWrite(t, from, c, text, ret)
  PROVE  /\ Moves(t) /\ pc[t] = from /\ pc'[t] = "writeLock"
         /\ On(t)' = On(t) /\ Target(t)' = c
<1>. DEFINE new == [frame[t] EXCEPT !.target = c, !.text = text, !.ret = ret]
<1>1. new \in Frame /\ new.on = frame[t].on /\ new.target = c
  BY DEF ControlTypeOK, Frame
<1>2. frame' = [frame EXCEPT ![t] = new]
  BY DEF ControlTypeOK, CallWrite
<1>. HIDE DEF new
<1>. QED
  BY <1>1, <1>2 DEF ControlTypeOK, CallWrite, Moves, On, Target, Pcs

LEMMA WriteReturnEffect ==
  ASSUME ControlTypeOK, NEW t \in Threads, NEW from, WriteReturn(t, from)
  PROVE  /\ Moves(t) /\ pc[t] = from
         /\ pc'[t] \in {"next", "firstClear", "readClear"}
         /\ On(t)' = On(t)
<1>. DEFINE new == Returned(frame[t])
<1>1. frame[t] \in Frame
  BY DEF ControlTypeOK
<1>2. new \in Frame /\ new.on = frame[t].on
  <2>1. CASE frame[t].ret = "next"
    BY <1>1, <2>1, EmptySeq DEF Returned, Frame, Text
  <2>2. CASE frame[t].ret # "next"
    BY <1>1, <2>2, EmptySeq DEF Returned, Frame, Text
  <2>. QED  BY <2>1, <2>2
<1>3. frame' = [frame EXCEPT ![t] = new]
  BY DEF ControlTypeOK, WriteReturn
<1>4. frame[t].ret \in {"next", "firstClear", "readClear"}
  BY <1>1 DEF Frame
<1>. HIDE DEF new
<1>. QED
  BY <1>2, <1>3, <1>4 DEF ControlTypeOK, WriteReturn, Moves, On, Target, Pcs

LEMMA NotifyEndsEffect ==
  ASSUME ControlTypeOK, NEW t \in Threads, NotifyEnds(t)
  PROVE  Moves(t) /\ pc[t] = "next" /\ pc'[t] = "checkStatus" /\ On(t)' = On(t)
<1>. DEFINE new == [frame[t] EXCEPT !.target = 0]
<1>1. new \in Frame /\ new.on = frame[t].on
  BY DEF ControlTypeOK, Frame
<1>2. frame' = [frame EXCEPT ![t] = new]
  BY DEF ControlTypeOK, NotifyEnds
<1>. HIDE DEF new
<1>. QED
  BY <1>1, <1>2 DEF ControlTypeOK, NotifyEnds, Moves, On, Target, Pcs

----------------------------------------------------------------------------
(***************************************************************************)
(* Steps that change nothing Shape speaks of but the place of one thread,  *)
(* which stays what it is: a reader or not, with the locks it had.         *)
(***************************************************************************)
Quiet(t) ==
  /\ Moves(t)
  /\ pc'[t] # "idle" => pc[t] # "idle" /\ On(t)' = On(t)
  /\ pc'[t] \in WritePcs => Target(t)' \in Conns
  /\ pc'[t] \in ReaderPcs => pc[t] \in ReaderPcs
  /\ pc'[t] \notin SendPcs \cup OwnLockPcs \cup {"insert"}
  /\ pc[t] # "cleanupDelete"

LEMMA QuietStep ==
  ASSUME IInv, NEW t \in Threads, Quiet(t),
         UNCHANGED <<obj, connectionId, mtx, registry, intact, indicated, readIO,
                   writeIO, posted>>
  PROVE  Shape'
<1>. USE DEF IInv, Shape, Quiet, Moves
<1>1. FramesOK'
  BY DEF FramesOK
<1>2. ReadersApart'
  BY DEF ReadersApart, ReaderPcs, CleanupPcs
<1>3. ReadersLive'
  BY DEF ReadersLive, ReaderPcs, CleanupPcs
<1>4. RegistryLive' /\ UnreadOK' /\ UnwrittenOK'
  BY DEF RegistryLive, UnreadOK, UnwrittenOK
<1>5. MutexesOK'
  BY DEF MutexesOK
<1>6. ConnsOK'
  BY DEF ConnsOK
<1>7. StagesOK'
  BY DEF StagesOK, CleaningPcs, OwnLockPcs
<1>. QED  BY <1>1, <1>2, <1>3, <1>4, <1>5, <1>6, <1>7

\* Steps of the rest of the world move no thread.
LEMMA OutsideStep ==
  ASSUME IInv, UnwrittenOK',
         UNCHANGED <<pc, frame, obj, connectionId, mtx, registry, intact, indicated,
                     readIO>>
  PROVE  Shape'
BY DEF IInv, Shape, FramesOK, ReadersApart, ReadersLive, RegistryLive,
       MutexesOK, UnreadOK, ConnsOK, StagesOK, On, Target

LEMMA MapBreaksStep ==
  ASSUME IInv, MapBreaks
  PROVE  IInv'
<1>1. /\ intact' = FALSE
      /\ UNCHANGED <<pc, frame, obj, connectionId, mtx, registry, indicated,
                     readIO, writeIO, posted>>
  BY DEF MapBreaks, threadVars, readVars, writeVars
<1>2. TypeOK'
  BY <1>1 DEF IInv, TypeOK, ControlTypeOK, DataTypeOK, MapBreaks, threadVars,
         bufferVars, readVars, writeVars
<1>3. Shape'
  BY <1>1 DEF IInv, Shape, FramesOK, ReadersApart, ReadersLive, RegistryLive,
         MutexesOK, UnreadOK, UnwrittenOK, ConnsOK, StagesOK, On, Target
<1>. QED
  BY <1>2, <1>3 DEF IInv

LEMMA NotifyEndsStep ==
  ASSUME IInv, NEW t \in Threads, NotifyEnds(t)
  PROVE  IInv'
<1>1. Quiet(t)
  BY NotifyEndsEffect DEF IInv, TypeOK, Quiet, NotifyEnds, WritePcs,
         ReaderPcs, CleanupPcs, SendPcs, OwnLockPcs, Pcs
<1>2. UNCHANGED <<obj, connectionId, mtx, registry, intact, indicated, readIO,
                   writeIO, posted>>
  BY DEF NotifyEnds, threadVars, bufferVars, sharedVars, readVars, writeVars
<1>3. TypeOK'
  BY <1>1 DEF IInv, TypeOK, ControlTypeOK, DataTypeOK, Quiet, Moves,
         NotifyEnds, threadVars, bufferVars, sharedVars, readVars, writeVars
<1>. QED
  BY <1>1, <1>2, <1>3, QuietStep DEF IInv

LEMMA NotifyStep ==
  ASSUME IInv, NEW t \in Threads, Notify(t)
  PROVE  IInv'
<1>1. PICK d \in NextKey(Target(t)) : CallWrite(t, "next", d, Enter(On(t)), "next")
  BY DEF Notify
<1>2. d \in Conns
  BY <1>1 DEF IInv, TypeOK, ControlTypeOK, NextKey, Later, Nodes
<1>3. pc[t] = "next" /\ On(t) \in Nat
  BY <1>1, ConnsAssumption DEF CallWrite, IInv, Shape, FramesOK
<1>4. Enter(On(t)) \in Text
  BY <1>3 DEF Enter, Text, Fragment
<1>5. Quiet(t)
  BY <1>1, <1>2, <1>4, CallWriteEffect
     DEF IInv, TypeOK, Quiet, WritePcs, ReaderPcs, CleanupPcs, SendPcs,
         OwnLockPcs
<1>6. UNCHANGED <<obj, connectionId, mtx, registry, intact, indicated, readIO,
                   writeIO, posted>>
  BY DEF Notify, threadVars, bufferVars, sharedVars, readVars, writeVars
<1>7. TypeOK'
  BY <1>5 DEF IInv, TypeOK, ControlTypeOK, DataTypeOK, Quiet, Moves, Notify,
         threadVars, bufferVars, sharedVars, readVars, writeVars
<1>. QED
  BY <1>5, <1>6, <1>7, QuietStep DEF IInv

LEMMA WriteRefusedStep ==
  ASSUME IInv, NEW t \in Threads, WriteRefused(t)
  PROVE  IInv'
<1>1. Quiet(t)
  BY WriteReturnEffect DEF IInv, TypeOK, Quiet, WriteRefused, WritePcs,
         ReaderPcs, CleanupPcs, SendPcs, OwnLockPcs, Pcs
<1>2. UNCHANGED <<obj, connectionId, mtx, registry, intact, indicated, readIO,
                   writeIO, posted>>
  BY DEF WriteRefused, Locking, threadVars, bufferVars, sharedVars, readVars,
         writeVars
<1>3. TypeOK'
  BY <1>1 DEF IInv, TypeOK, ControlTypeOK, DataTypeOK, Quiet, Moves,
         WriteRefused, Locking, threadVars, bufferVars, sharedVars, readVars,
         writeVars
<1>. QED
  BY <1>1, <1>2, <1>3, QuietStep DEF IInv

LEMMA FirstClearStep ==
  ASSUME IInv, NEW t \in Threads, FirstClear(t)
  PROVE  IInv'
<1>1. Quiet(t)
  BY GotoEffect DEF IInv, TypeOK, Quiet, FirstClear, WritePcs, ReaderPcs,
         CleanupPcs, SendPcs, OwnLockPcs, Pcs
<1>2. UNCHANGED <<obj, connectionId, mtx, registry, intact, indicated, readIO,
                   writeIO, posted>>
  BY DEF FirstClear, threadVars, bufferVars, sharedVars, readVars, writeVars
<1>3. TypeOK'
  BY <1>1, EmptySeq DEF IInv, TypeOK, ControlTypeOK, DataTypeOK, Text, Quiet,
         Moves, FirstClear, threadVars, bufferVars, sharedVars, readVars,
         writeVars
<1>. QED
  BY <1>1, <1>2, <1>3, QuietStep DEF IInv

LEMMA FirstReturnStep ==
  ASSUME IInv, NEW t \in Threads, FirstReturn(t)
  PROVE  IInv'
<1>1. Quiet(t)
  BY ReturnEffect DEF IInv, TypeOK, Quiet, FirstReturn, WritePcs, ReaderPcs,
         CleanupPcs, SendPcs, OwnLockPcs, Pcs
<1>2. UNCHANGED <<obj, connectionId, mtx, registry, intact, indicated, readIO,
                   writeIO, posted>>
  BY DEF FirstReturn, threadVars, bufferVars, sharedVars, readVars, writeVars
<1>3. TypeOK'
  BY <1>1 DEF IInv, TypeOK, ControlTypeOK, DataTypeOK, Quiet, Moves,
         FirstReturn, threadVars, bufferVars, sharedVars, readVars, writeVars
<1>. QED
  BY <1>1, <1>2, <1>3, QuietStep DEF IInv

LEMMA FirstAppendStep ==
  ASSUME IInv, NEW t \in Threads, FirstAppend(t)
  PROVE  IInv'
<1>. DEFINE c == On(t)
<1>1. c \in Conns /\ pc[t] = "firstAppend"
  BY DEF FirstAppend, IInv, Shape, FramesOK
<1>2. data[c] \o readBuffer[c] \in Text /\ data'[c] = data[c] \o readBuffer[c]
  BY <1>1, ConcatProperties DEF FirstAppend, IInv, TypeOK, DataTypeOK, Text
<1>3. \/ CallWrite(t, "firstAppend", c, data'[c], "firstClear")
      \/ Goto(t, "firstAppend", "firstReturn")
  BY DEF FirstAppend
<1>4. Quiet(t)
  BY <1>1, <1>2, <1>3, CallWriteEffect, GotoEffect
     DEF IInv, TypeOK, Quiet, WritePcs, ReaderPcs, CleanupPcs, SendPcs,
         OwnLockPcs, Pcs
<1>5. UNCHANGED <<obj, connectionId, mtx, registry, intact, indicated, readIO,
                   writeIO, posted>>
  BY DEF FirstAppend, sharedVars, readVars, writeVars
<1>6. data' \in [Conns -> Text]
  BY <1>1, <1>2 DEF FirstAppend, IInv, TypeOK, DataTypeOK
<1>7. TypeOK'
  BY <1>4, <1>6 DEF IInv, TypeOK, ControlTypeOK, DataTypeOK, Quiet, Moves,
         FirstAppend, sharedVars, readVars, writeVars
<1>. QED
  BY <1>4, <1>5, <1>7, QuietStep DEF IInv

LEMMA ReadDisconnectedStep ==
  ASSUME IInv, NEW t \in Threads, ReadDisconnected(t)
  PROVE  IInv'
<1>1. Quiet(t)
  BY ReturnEffect DEF IInv, TypeOK, Quiet, ReadDisconnected, WritePcs,
         ReaderPcs, CleanupPcs, SendPcs, OwnLockPcs, Pcs
<1>2. UNCHANGED <<obj, connectionId, mtx, registry, intact, indicated, readIO,
                   writeIO, posted>>
  BY DEF ReadDisconnected, Locking, threadVars, bufferVars, sharedVars,
         readVars, writeVars
<1>3. TypeOK'
  BY <1>1 DEF IInv, TypeOK, ControlTypeOK, DataTypeOK, Quiet, Moves,
         ReadDisconnected, Locking, threadVars, bufferVars, sharedVars,
         readVars, writeVars
<1>. QED
  BY <1>1, <1>2, <1>3, QuietStep DEF IInv

LEMMA ReadClearStep ==
  ASSUME IInv, NEW t \in Threads, ReadClear(t)
  PROVE  IInv'
<1>1. Quiet(t)
  BY GotoEffect DEF IInv, TypeOK, Quiet, ReadClear, WritePcs, ReaderPcs,
         CleanupPcs, SendPcs, OwnLockPcs, Pcs
<1>2. UNCHANGED <<obj, connectionId, mtx, registry, intact, indicated, readIO,
                   writeIO, posted>>
  BY DEF ReadClear, Count, readVars, writeVars
<1>3. data' \in [Conns -> Text] /\ readBuffer' \in [Conns -> Text]
  BY EmptySeq DEF ReadClear, IInv, TypeOK, DataTypeOK, Text
<1>4. counter' \in [{"websockets", "websocketsRead", "websocketsWrite"} -> Int]
  BY DEF ReadClear, Count, IInv, TypeOK, DataTypeOK
<1>5. TypeOK'
  BY <1>1, <1>3, <1>4 DEF IInv, TypeOK, ControlTypeOK, DataTypeOK, Quiet,
         Moves, ReadClear, readVars, writeVars
<1>. QED
  BY <1>1, <1>2, <1>5, QuietStep DEF IInv

LEMMA WriteDoneStep ==
  ASSUME IInv, NEW t \in Threads, WriteDone(t)
  PROVE  IInv'
<1>1. Quiet(t)
  <2>1. CASE Return(t, "writeCb")
    BY <2>1, ReturnEffect DEF IInv, TypeOK, Quiet, WritePcs, ReaderPcs,
           CleanupPcs, SendPcs, OwnLockPcs
  <2>2. CASE Goto(t, "writeCb", "writeCount")
    BY <2>2, GotoEffect DEF IInv, TypeOK, Quiet, WritePcs, ReaderPcs,
           CleanupPcs, SendPcs, OwnLockPcs, Pcs
  <2>. QED  BY <2>1, <2>2 DEF WriteDone
<1>2. UNCHANGED <<obj, connectionId, mtx, registry, intact, indicated, readIO,
                   writeIO, posted>>
  BY DEF WriteDone, sharedVars, readVars, writeVars
<1>3. TypeOK'
  BY <1>1 DEF IInv, TypeOK, ControlTypeOK, DataTypeOK, Quiet, Moves, WriteDone,
         bufferVars, sharedVars, readVars, writeVars
<1>. QED
  BY <1>1, <1>2, <1>3, QuietStep DEF IInv

LEMMA WriteCountStep ==
  ASSUME IInv, NEW t \in Threads, WriteCount(t)
  PROVE  IInv'
<1>1. Quiet(t)
  BY ReturnEffect DEF IInv, TypeOK, Quiet, WriteCount, WritePcs, ReaderPcs,
         CleanupPcs, SendPcs, OwnLockPcs, Pcs
<1>2. UNCHANGED <<obj, connectionId, mtx, registry, intact, indicated, readIO,
                   writeIO, posted>>
  BY DEF WriteCount, Count, threadVars, bufferVars, sharedVars, readVars,
         writeVars
<1>3. TypeOK'
  BY <1>1 DEF IInv, TypeOK, ControlTypeOK, DataTypeOK, Quiet, Moves,
         WriteCount, Count, threadVars, bufferVars, sharedVars, readVars,
         writeVars
<1>. QED
  BY <1>1, <1>2, <1>3, QuietStep DEF IInv

----------------------------------------------------------------------------
(***************************************************************************)
(* Steps that change the registry, a lock, a connectionId or a read.       *)
(***************************************************************************)
LEMMA InsertStep ==
  ASSUME IInv, NEW t \in Threads, Insert(t)
  PROVE  IInv'
<1>1. /\ Moves(t) /\ pc[t] = "insert" /\ pc'[t] = "next"
      /\ On(t)' = On(t) /\ Target(t)' = Target(t)
  BY GotoEffect DEF Insert, IInv, TypeOK, Pcs
<1>2. /\ registry' = registry \cup {On(t)}
      /\ On(t) \in Conns /\ obj[On(t)] = "live"
  BY <1>1 DEF Insert, IInv, Shape, FramesOK, StagesOK, ReadersLive,
         ReaderPcs
<1>3. UNCHANGED <<obj, connectionId, mtx, intact, indicated, readIO, writeIO, posted>>
  BY DEF Insert, readVars, writeVars
<1>4. TypeOK'
  BY <1>1, <1>2 DEF IInv, TypeOK, ControlTypeOK, DataTypeOK, Moves, Insert,
         bufferVars, readVars, writeVars
<1>5. FramesOK' /\ MutexesOK' /\ UnreadOK' /\ UnwrittenOK' /\ ConnsOK'
  BY <1>1, <1>3 DEF IInv, Shape, Moves, FramesOK, MutexesOK, UnreadOK,
         UnwrittenOK, ConnsOK, WritePcs, SendPcs, OwnLockPcs
<1>6. ReadersApart' /\ ReadersLive' /\ RegistryLive'
  BY <1>1, <1>2, <1>3 DEF IInv, Shape, Moves, ReadersApart, ReadersLive,
         RegistryLive, ReaderPcs
<1>7. StagesOK'
  BY <1>1, <1>2, <1>3 DEF IInv, Shape, Moves, ReadersApart, StagesOK, ReaderPcs,
         CleanupPcs, CleaningPcs
<1>. QED
  BY <1>4, <1>5, <1>6, <1>7 DEF IInv, Shape

LEMMA WriteLockStep ==
  ASSUME IInv, NEW t \in Threads, WriteLock(t)
  PROVE  IInv'
<1>1. /\ Moves(t) /\ pc[t] = "writeLock" /\ pc'[t] = "writeSend"
      /\ On(t)' = On(t) /\ Target(t)' = Target(t)
  BY GotoEffect DEF WriteLock, IInv, TypeOK, Pcs
<1>2. /\ Target(t) \in Conns /\ mtx[Target(t)] = NoThread
      /\ mtx' = [mtx EXCEPT ![Target(t)] = t]
      /\ obj[Target(t)] = "live" /\ indicated[Target(t)] = 0
  BY <1>1 DEF WriteLock, Lock, IInv, Shape, FramesOK, ConnsOK, WritePcs
<1>3. UNCHANGED <<obj, connectionId, registry, intact, indicated, readIO, writeIO,
                  posted>>
  BY DEF WriteLock, sharedVars, readVars, writeVars
<1>4. TypeOK'
  BY <1>1, <1>2 DEF IInv, TypeOK, ControlTypeOK, DataTypeOK, Moves, WriteLock,
         bufferVars, sharedVars, readVars, writeVars
<1>5. FramesOK' /\ UnreadOK' /\ UnwrittenOK' /\ RegistryLive'
  BY <1>1, <1>3 DEF IInv, Shape, Moves, FramesOK, UnreadOK, UnwrittenOK,
         RegistryLive, WritePcs
<1>6. ReadersApart' /\ ReadersLive' /\ ConnsOK' /\ StagesOK'
  BY <1>1, <1>3 DEF IInv, Shape, Moves, ReadersApart, ReadersLive, ConnsOK,
         StagesOK, ReaderPcs, CleaningPcs
<1>7. MutexesOK'
  BY <1>1, <1>2, <1>3, ThreadsAssumption DEF IInv, Shape, TypeOK, ControlTypeOK,
         Moves, FramesOK, MutexesOK, SendPcs, OwnLockPcs
<1>. QED
  BY <1>4, <1>5, <1>6, <1>7 DEF IInv, Shape

\* Write hands the text to IIS and keeps the lock or returns without it.
LEMMA Sending ==
  ASSUME IInv, NEW t \in Threads, Moves(t), On(t)' = On(t), pc[t] \in SendPcs,
         UNCHANGED <<obj, connectionId, registry, intact, indicated, readIO, posted>>,
         \A c \in Conns \ {Target(t)} : writeIO'[c] = writeIO[c],
         \/ pc'[t] \in SendPcs /\ Target(t)' = Target(t) /\ UNCHANGED mtx
         \/ /\ pc'[t] \in {"next", "firstClear", "readClear"}
            /\ Unlock(Target(t))
  PROVE  Shape'
<1>1. FramesOK' /\ UnreadOK' /\ RegistryLive'
  BY DEF IInv, Shape, Moves, FramesOK, UnreadOK, RegistryLive, WritePcs, SendPcs
<1>2. ReadersApart' /\ ReadersLive'
  BY DEF IInv, Shape, Moves, ReadersApart, ReadersLive, ReaderPcs, SendPcs
<1>3. ConnsOK' /\ StagesOK'
  BY DEF IInv, Shape, Moves, ConnsOK, StagesOK, SendPcs, CleaningPcs
<1>4. MutexesOK'
  BY ThreadsAssumption DEF IInv, Shape, TypeOK, ControlTypeOK, Moves, Unlock,
         FramesOK, MutexesOK, WritePcs, SendPcs, OwnLockPcs
<1>5. UnwrittenOK'
  BY DEF IInv, Shape, UnwrittenOK, MutexesOK
<1>. QED
  BY <1>1, <1>2, <1>3, <1>4, <1>5 DEF Shape

LEMMA WriteFragmentType ==
  ASSUME TypeOK, NEW c \in Conns, NEW text \in Text, NEW answer,
         WriteFragment(c, text, answer)
  PROVE  /\ writeIO' \in [Conns -> {"none", "queued", "aborted"}]
         /\ accepted' \in [Conns -> Seq(Text)]
         /\ \A d \in Conns \ {c} : writeIO'[d] = writeIO[d]
         /\ \A d \in Conns \ {c} : accepted'[d] = accepted[d]
<1>1. Append(accepted[c], text) \in Seq(Text)
  BY AppendProperties DEF TypeOK, DataTypeOK
<1>. QED
  BY <1>1 DEF TypeOK, ControlTypeOK, DataTypeOK, WriteFragment

LEMMA WriteSendStep ==
  ASSUME IInv, NEW t \in Threads, WriteSend(t)
  PROVE  IInv'
<1>1. PICK answer \in WriteAnswers(Target(t)) :
        /\ WriteFragment(Target(t), frame[t].text, answer)
        /\ IF answer = "ERROR_IO_PENDING"
             THEN Goto(t, "writeSend", "writeResend") /\ UNCHANGED mtx
             ELSE WriteReturn(t, "writeSend") /\ Unlock(Target(t))
  BY DEF WriteSend
<1>2. pc[t] = "writeSend" /\ Target(t) \in Conns /\ frame[t].text \in Text
  BY DEF WriteSend, IInv, Shape, FramesOK, WritePcs, TypeOK, ControlTypeOK,
         Frame
<1>3. /\ Moves(t) /\ On(t)' = On(t)
      /\ \/ pc'[t] \in SendPcs /\ Target(t)' = Target(t) /\ UNCHANGED mtx
         \/ /\ pc'[t] \in {"next", "firstClear", "readClear"}
            /\ Unlock(Target(t))
  BY <1>1, GotoEffect, WriteReturnEffect DEF IInv, TypeOK, SendPcs, Pcs
<1>4. mtx' \in [Conns -> Threads \cup {NoThread}]
  BY <1>3 DEF Unlock, IInv, TypeOK, ControlTypeOK
<1>5. writeBuffer' \in [Conns -> Text]
  BY <1>2 DEF WriteSend, IInv, TypeOK, DataTypeOK
<1>6. TypeOK'
  BY <1>1, <1>2, <1>3, <1>4, <1>5, WriteFragmentType DEF IInv, TypeOK,
         ControlTypeOK, DataTypeOK, Moves, WriteSend, sharedVars, readVars
<1>7. UNCHANGED <<obj, connectionId, registry, intact, indicated, readIO, posted>>
  BY DEF WriteSend, sharedVars, readVars
<1>8. \A c \in Conns \ {Target(t)} : writeIO'[c] = writeIO[c]
  BY <1>1, <1>2, WriteFragmentType DEF IInv
<1>. QED
  BY <1>2, <1>3, <1>6, <1>7, <1>8, Sending DEF IInv, SendPcs

LEMMA WriteResendStep ==
  ASSUME IInv, NEW t \in Threads, WriteResend(t)
  PROVE  IInv'
<1>1. PICK answer \in WriteAnswers(Target(t)) :
        WriteFragment(Target(t), frame[t].text, answer)
  BY DEF WriteResend
<1>2. /\ Moves(t) /\ On(t)' = On(t) /\ pc[t] = "writeResend"
      /\ pc'[t] \in {"next", "firstClear", "readClear"} /\ Unlock(Target(t))
  BY WriteReturnEffect DEF WriteResend, IInv, TypeOK
<1>3. Target(t) \in Conns /\ frame[t].text \in Text
  BY <1>2 DEF IInv, Shape, FramesOK, WritePcs, TypeOK, ControlTypeOK, Frame
<1>4. TypeOK'
  BY <1>1, <1>2, <1>3, WriteFragmentType DEF IInv, TypeOK, ControlTypeOK,
         DataTypeOK, Moves, Unlock, WriteResend, bufferVars, sharedVars,
         readVars
<1>5. UNCHANGED <<obj, connectionId, registry, intact, indicated, readIO, posted>>
  BY DEF WriteResend, sharedVars, readVars
<1>6. \A c \in Conns \ {Target(t)} : writeIO'[c] = writeIO[c]
  BY <1>1, <1>3, WriteFragmentType DEF IInv
<1>. QED
  BY <1>2, <1>4, <1>5, <1>6, Sending DEF IInv, SendPcs

----------------------------------------------------------------------------
(***************************************************************************)
(* The steps of the reading thread that end the use of a connectionId or   *)
(* hand the buffer to IIS: CheckStatus, the reads, and what follows when   *)
(* one fails.                                                              *)
(***************************************************************************)
ReadStepPcs == {"checkStatus", "firstRead", "firstFailed", "reread",
                "rereadFailed"}

LEMMA ReaderStep ==
  ASSUME IInv, NEW t \in Threads, NEW c \in Conns, c = On(t), Moves(t),
         pc[t] \in ReadStepPcs,
         pc'[t] \in {"firstRead", "firstAppend", "firstFailed", "firstReturn",
                     "rereadFailed", "idle"},
         pc'[t] # "idle" => On(t)' = c,
         pc'[t] \in ReaderPcs => readIO'[c] = "none",
         connectionId'[c] \in {0, connectionId[c]},
         \A d \in Conns \ {c} : /\ connectionId'[d] = connectionId[d]
                                /\ readIO'[d] = readIO[d]
                                /\ writeIO'[d] = writeIO[d],
         UNCHANGED <<obj, mtx, registry, intact, indicated, posted>>
  PROVE  Shape'
<1>1. pc[t] \in ReaderPcs /\ obj[c] = "live"
  BY DEF IInv, Shape, ReadersLive, ReadStepPcs, ReaderPcs
<1>2. \A u \in Threads \ {t} : pc[u] \in ReaderPcs => On(u) # c
  BY <1>1 DEF IInv, Shape, ReadersApart
<1>3. FramesOK' /\ RegistryLive' /\ UnreadOK' /\ UnwrittenOK'
  BY <1>1 DEF IInv, Shape, Moves, FramesOK, RegistryLive, UnreadOK,
              UnwrittenOK, WritePcs
<1>4. ReadersApart'
  BY <1>1, <1>2 DEF IInv, Shape, Moves, ReadersApart, FramesOK, ReaderPcs,
              CleanupPcs
<1>5. ReadersLive'
  BY <1>1 DEF IInv, Shape, Moves, ReadersLive, ReaderPcs, CleanupPcs
<1>6. MutexesOK'
  BY DEF IInv, Shape, Moves, MutexesOK, SendPcs, OwnLockPcs
<1>7. ConnsOK'
  BY DEF IInv, Shape, Moves, ConnsOK, ReadStepPcs
<1>8. StagesOK'
  BY <1>2 DEF IInv, Shape, Moves, StagesOK, FramesOK, ReaderPcs, CleanupPcs,
              CleaningPcs
<1>. QED
  BY <1>3, <1>4, <1>5, <1>6, <1>7, <1>8 DEF Shape

LEMMA ReadFragmentType ==
  ASSUME TypeOK, NEW c \in Conns, NEW answer, ReadFragment(c, answer)
  PROVE  /\ readIO' \in [Conns -> {"none", "outstanding", "aborted"}]
         /\ inbox' \in [Conns -> Text]
         /\ readBuffer' \in [Conns -> Text]
         /\ answer \in {"sync", "failed"} => readIO'[c] = "none"
         /\ \A d \in Conns \ {c} : readIO'[d] = readIO[d]
<1>1. answer \in ReadAnswers(c)
  BY DEF ReadFragment
<1>2. CASE answer = "sync"
  <2>1. inbox[c] # <<>> /\ readIO[c] = "none"
    BY <1>1, <1>2 DEF ReadAnswers
  <2>2. Tail(inbox[c]) \in Text /\ <<Head(inbox[c])>> \in Text
    BY <2>1, HeadTailProperties DEF TypeOK, DataTypeOK, Text
  <2>3. /\ readBuffer' = [readBuffer EXCEPT ![c] = <<Head(inbox[c])>>]
        /\ inbox' = [inbox EXCEPT ![c] = Tail(inbox[c])]
        /\ UNCHANGED readIO
    BY <1>2 DEF ReadFragment, TypeOK, DataTypeOK
  <2>. QED
    BY <2>1, <2>2, <2>3 DEF TypeOK, ControlTypeOK, DataTypeOK
<1>3. CASE answer = "async"
  BY <1>3 DEF ReadFragment, TypeOK, ControlTypeOK, DataTypeOK
<1>4. CASE answer \notin {"sync", "async"}
  BY <1>1, <1>4 DEF ReadFragment, ReadAnswers, TypeOK, ControlTypeOK, DataTypeOK
<1>. QED
  BY <1>2, <1>3, <1>4

LEMMA CancelType ==
  ASSUME TypeOK, NEW c \in Conns, CancelOutstandingIO(c)
  PROVE  /\ readIO' \in [Conns -> {"none", "outstanding", "aborted"}]
         /\ writeIO' \in [Conns -> {"none", "queued", "aborted"}]
         /\ readIO[c] = "none" => readIO'[c] = "none"
         /\ \A d \in Conns \ {c} : readIO'[d] = readIO[d] /\ writeIO'[d] = writeIO[d]
BY DEF CancelOutstandingIO, TypeOK, ControlTypeOK

LEMMA CheckStatusStep ==
  ASSUME IInv, NEW t \in Threads, CheckStatus(t)
  PROVE  IInv'
<1>. DEFINE c == On(t)
<1>1. /\ Moves(t) /\ pc[t] = "checkStatus" /\ pc'[t] = "firstRead"
      /\ On(t)' = On(t)
  BY GotoEffect DEF CheckStatus, IInv, TypeOK, Pcs
<1>2. c \in Conns /\ readIO[c] = "none"
  BY <1>1 DEF IInv, Shape, FramesOK, ReadersApart, ReaderPcs
<1>3. /\ connectionId' \in [Conns -> Conns \cup {0}]
      /\ readIO' \in [Conns -> {"none", "outstanding", "aborted"}]
      /\ writeIO' \in [Conns -> {"none", "queued", "aborted"}]
      /\ readIO'[c] = "none" /\ connectionId'[c] \in {0, connectionId[c]}
      /\ \A d \in Conns \ {c} : /\ connectionId'[d] = connectionId[d]
                                /\ readIO'[d] = readIO[d]
                                /\ writeIO'[d] = writeIO[d]
  <2>1. CASE UNCHANGED <<connectionId, readIO, writeIO>>
    BY <1>2, <2>1 DEF IInv, TypeOK, ControlTypeOK
  <2>2. CASE /\ connectionId' = [connectionId EXCEPT ![c] = 0]
             /\ CancelOutstandingIO(c)
    <3>1. /\ connectionId' \in [Conns -> Conns \cup {0}] /\ connectionId'[c] = 0
          /\ \A d \in Conns \ {c} : connectionId'[d] = connectionId[d]
      BY <1>2, <2>2 DEF IInv, TypeOK, ControlTypeOK
    <3>. QED  BY <1>2, <2>2, <3>1, CancelType DEF IInv
  <2>. QED  BY <2>1, <2>2 DEF CheckStatus
<1>4. readBuffer' \in [Conns -> Text]
  BY EmptySeq DEF CheckStatus, IInv, TypeOK, DataTypeOK, Text
<1>5. TypeOK'
  BY <1>1, <1>3, <1>4 DEF IInv, TypeOK, ControlTypeOK, DataTypeOK, Moves,
         CheckStatus, sharedVars
<1>6. UNCHANGED <<obj, mtx, registry, intact, indicated, posted>>
  BY DEF CheckStatus, sharedVars
<1>7. Shape'
  BY <1>1, <1>2, <1>3, <1>6, ReaderStep DEF ReadStepPcs
<1>. QED
  BY <1>5, <1>7 DEF IInv

LEMMA FirstReadStep ==
  ASSUME IInv, NEW t \in Threads, FirstRead(t)
  PROVE  IInv'
<1>. DEFINE c == On(t)
<1>1. PICK answer \in ReadAnswers(c) :
        /\ ReadFragment(c, answer)
        /\ Goto(t, "firstRead", CASE answer = "sync"   -> "firstAppend"
                                  [] answer = "failed" -> "firstFailed"
                                  [] OTHER             -> "firstReturn")
  BY DEF FirstRead
<1>2. /\ Moves(t) /\ pc[t] = "firstRead" /\ On(t)' = On(t)
      /\ \/ pc'[t] = "firstReturn"
         \/ pc'[t] \in {"firstAppend", "firstFailed"} /\ answer \in {"sync", "failed"}
  <2>1. CASE answer = "sync"
    BY <1>1, <2>1, GotoEffect DEF IInv, TypeOK, Pcs
  <2>2. CASE answer = "failed"
    BY <1>1, <2>2, GotoEffect DEF IInv, TypeOK, Pcs
  <2>3. CASE answer \notin {"sync", "failed"}
    <3>1. Goto(t, "firstRead", "firstReturn")
      BY <1>1, <2>3
    <3>. QED  BY <3>1, GotoEffect DEF IInv, TypeOK, Pcs
  <2>. QED  BY <2>1, <2>2, <2>3
<1>3. c \in Conns
  BY <1>2 DEF IInv, Shape, FramesOK
<1>4. /\ readIO' \in [Conns -> {"none", "outstanding", "aborted"}]
      /\ inbox' \in [Conns -> Text]
      /\ readBuffer' \in [Conns -> Text]
      /\ answer \in {"sync", "failed"} => readIO'[c] = "none"
      /\ \A d \in Conns \ {c} : readIO'[d] = readIO[d]
  BY <1>1, <1>3, ReadFragmentType DEF IInv
<1>5. TypeOK'
  BY <1>2, <1>4 DEF IInv, TypeOK, ControlTypeOK, DataTypeOK, Moves, FirstRead,
         Locking, sharedVars, writeVars
<1>6. UNCHANGED <<obj, connectionId, mtx, registry, intact, indicated, writeIO, posted>>
  BY DEF FirstRead, Locking, sharedVars, writeVars
<1>7. pc'[t] \in ReaderPcs => readIO'[c] = "none"
  BY <1>2, <1>4 DEF ReaderPcs, CleanupPcs
<1>8. Shape'
  BY <1>2, <1>3, <1>4, <1>6, <1>7, ReaderStep DEF ReadStepPcs
<1>. QED
  BY <1>5, <1>8 DEF IInv

LEMMA RereadStep ==
  ASSUME IInv, NEW t \in Threads, Reread(t)
  PROVE  IInv'
<1>. DEFINE c == On(t)
<1>1. PICK answer \in ReadAnswers(c) :
        /\ ReadFragment(c, answer)
        /\ IF answer = "failed" THEN Goto(t, "reread", "rereadFailed")
                                ELSE Return(t, "reread")
  BY DEF Reread
<1>2. /\ Moves(t) /\ pc[t] = "reread"
      /\ \/ pc'[t] = "idle"
         \/ pc'[t] = "rereadFailed" /\ On(t)' = On(t) /\ answer = "failed"
  BY <1>1, GotoEffect, ReturnEffect DEF IInv, TypeOK, Pcs
<1>3. c \in Conns
  BY <1>2 DEF IInv, Shape, FramesOK
<1>4. /\ readIO' \in [Conns -> {"none", "outstanding", "aborted"}]
      /\ inbox' \in [Conns -> Text]
      /\ readBuffer' \in [Conns -> Text]
      /\ answer \in {"sync", "failed"} => readIO'[c] = "none"
      /\ \A d \in Conns \ {c} : readIO'[d] = readIO[d]
  BY <1>1, <1>3, ReadFragmentType DEF IInv
<1>5. TypeOK'
  BY <1>2, <1>4 DEF IInv, TypeOK, ControlTypeOK, DataTypeOK, Moves, Reread,
         Locking, sharedVars, writeVars
<1>6. UNCHANGED <<obj, connectionId, mtx, registry, intact, indicated, writeIO, posted>>
  BY DEF Reread, Locking, sharedVars, writeVars
<1>7. pc'[t] \in ReaderPcs => readIO'[c] = "none"
  BY <1>2, <1>4 DEF ReaderPcs, CleanupPcs
<1>8. Shape'
  BY <1>2, <1>3, <1>4, <1>6, <1>7, ReaderStep DEF ReadStepPcs
<1>. QED
  BY <1>5, <1>8 DEF IInv

LEMMA FailedStep ==
  ASSUME IInv, NEW t \in Threads, FirstFailed(t) \/ RereadFailed(t)
  PROVE  IInv'
<1>. DEFINE c == On(t)
<1>1. /\ Moves(t) /\ pc[t] \in {"firstFailed", "rereadFailed"}
      /\ pc'[t] \in {"firstReturn", "idle"} /\ (pc'[t] # "idle" => On(t)' = On(t))
  <2>1. CASE FirstFailed(t)
    BY <2>1, GotoEffect DEF FirstFailed, IInv, TypeOK, Pcs
  <2>2. CASE RereadFailed(t)
    BY <2>2, ReturnEffect DEF RereadFailed, IInv, TypeOK
  <2>. QED  BY <2>1, <2>2
<1>2. c \in Conns
  BY <1>1 DEF IInv, Shape, FramesOK
<1>3. /\ connectionId' = [connectionId EXCEPT ![c] = 0] /\ CancelOutstandingIO(c)
      /\ UNCHANGED <<data, readBuffer, writeBuffer, registry, intact, counter, obj, mtx,
                     process, indicated, link, inbox, posted, accepted, sent>>
  BY DEF FirstFailed, RereadFailed, bufferVars, sharedVars
<1>4. /\ connectionId' \in [Conns -> Conns \cup {0}] /\ connectionId'[c] = 0
      /\ \A d \in Conns \ {c} : connectionId'[d] = connectionId[d]
  BY <1>2, <1>3 DEF IInv, TypeOK, ControlTypeOK
<1>5. /\ readIO' \in [Conns -> {"none", "outstanding", "aborted"}]
      /\ writeIO' \in [Conns -> {"none", "queued", "aborted"}]
      /\ \A d \in Conns \ {c} : readIO'[d] = readIO[d] /\ writeIO'[d] = writeIO[d]
  BY <1>2, <1>3, CancelType DEF IInv
<1>6. TypeOK'
  BY <1>1, <1>3, <1>4, <1>5 DEF IInv, TypeOK, ControlTypeOK, DataTypeOK, Moves
<1>7. pc'[t] \notin ReaderPcs
  BY <1>1 DEF ReaderPcs, CleanupPcs
<1>8. Shape'
  BY <1>1, <1>2, <1>3, <1>4, <1>5, <1>7, ReaderStep DEF ReadStepPcs
<1>. QED
  BY <1>6, <1>8 DEF IInv

----------------------------------------------------------------------------
(***************************************************************************)
(* ContinuousReadAsyncCompletion and CleanupStoredContext, which holds the *)
(* object's mutex and is the only reader, so that nobody else is in a      *)
(* critical section of the object or uses its connectionId.                *)
(***************************************************************************)
LEMMA ReadLockStep ==
  ASSUME IInv, NEW t \in Threads, ReadLock(t)
  PROVE  IInv'
<1>. DEFINE c == On(t)
<1>1. Goto(t, "readLock", "cleanup") \/ Goto(t, "readLock", "readLocked")
  BY DEF ReadLock
<1>2. /\ Moves(t) /\ pc[t] = "readLock" /\ pc'[t] \in {"cleanup", "readLocked"}
      /\ On(t)' = On(t)
  BY <1>1, GotoEffect DEF IInv, TypeOK, Pcs
<1>3. /\ c \in Conns /\ mtx[c] = NoThread /\ connectionId[c] = c
      /\ mtx' = [mtx EXCEPT ![c] = t]
  BY <1>2 DEF ReadLock, Lock, IInv, Shape, FramesOK, ConnsOK
<1>4. UNCHANGED <<obj, connectionId, registry, intact, indicated, readIO, writeIO,
                  posted>>
  BY DEF ReadLock, sharedVars, readVars, writeVars
<1>5. TypeOK'
  BY <1>2, <1>3 DEF IInv, TypeOK, ControlTypeOK, DataTypeOK, Moves, ReadLock,
         bufferVars, sharedVars, readVars, writeVars
<1>6. FramesOK' /\ UnreadOK' /\ UnwrittenOK' /\ RegistryLive'
  BY <1>2, <1>4 DEF IInv, Shape, Moves, FramesOK, UnreadOK, UnwrittenOK,
         RegistryLive, WritePcs
<1>7. ReadersApart' /\ ReadersLive' /\ ConnsOK'
  BY <1>2, <1>4 DEF IInv, Shape, Moves, ReadersApart, ReadersLive, ConnsOK,
         ReaderPcs, CleanupPcs
<1>8. StagesOK'
  BY <1>2, <1>3, <1>4 DEF IInv, Shape, Moves, StagesOK, CleaningPcs
<1>9. MutexesOK'
  BY <1>2, <1>3, <1>4, ThreadsAssumption DEF IInv, Shape, TypeOK,
         ControlTypeOK, Moves, FramesOK, MutexesOK, WritePcs, SendPcs,
         OwnLockPcs
<1>. QED
  BY <1>5, <1>6, <1>7, <1>8, <1>9 DEF IInv, Shape

\* A thread leaves its critical section on the object it works on.
LEMMA Unlocking ==
  ASSUME IInv, NEW t \in Threads, Moves(t),
         pc[t] \in {"readLocked", "cleanupReturn"},
         \/ pc'[t] = "idle"
         \/ /\ pc[t] = "readLocked" /\ pc'[t] = "writeLock"
            /\ On(t)' = On(t) /\ Target(t)' \in Conns,
         Unlock(On(t)),
         UNCHANGED <<obj, connectionId, registry, intact, indicated, readIO, writeIO,
                     posted>>
  PROVE  Shape' /\ mtx' \in [Conns -> Threads \cup {NoThread}]
<1>1. mtx' = [mtx EXCEPT ![On(t)] = NoThread] /\ On(t) \in Conns
  BY DEF Unlock, IInv, Shape, FramesOK
<1>2. mtx' \in [Conns -> Threads \cup {NoThread}]
  BY <1>1 DEF IInv, TypeOK, ControlTypeOK
<1>3. FramesOK' /\ UnreadOK' /\ UnwrittenOK' /\ RegistryLive'
  BY DEF IInv, Shape, Moves, FramesOK, UnreadOK, UnwrittenOK, RegistryLive,
         WritePcs
<1>4. ReadersApart' /\ ReadersLive'
  BY DEF IInv, Shape, Moves, ReadersApart, ReadersLive, ReaderPcs, CleanupPcs
<1>5. ConnsOK' /\ StagesOK'
  BY DEF IInv, Shape, Moves, ConnsOK, StagesOK, CleaningPcs
<1>6. MutexesOK'
  BY <1>1, ThreadsAssumption DEF IInv, Shape, TypeOK, ControlTypeOK, Moves,
         FramesOK, MutexesOK, WritePcs, SendPcs, OwnLockPcs
<1>. QED
  BY <1>2, <1>3, <1>4, <1>5, <1>6 DEF Shape

LEMMA ReadFinalStep ==
  ASSUME IInv, NEW t \in Threads, ReadFinal(t)
  PROVE  IInv'
<1>. DEFINE c == On(t)
<1>1. c \in Conns /\ pc[t] = "readLocked"
  BY DEF ReadFinal, IInv, Shape, FramesOK
<1>2. data[c] \o readBuffer[c] \in Text /\ data'[c] = data[c] \o readBuffer[c]
  BY <1>1, ConcatProperties DEF ReadFinal, IInv, TypeOK, DataTypeOK, Text
<1>3. CallWrite(t, "readLocked", c, data'[c], "readClear")
  BY DEF ReadFinal
<1>4. Moves(t) /\ pc'[t] = "writeLock" /\ On(t)' = On(t) /\ Target(t)' \in Conns
  BY <1>1, <1>2, <1>3, CallWriteEffect DEF IInv, TypeOK
<1>5. UNCHANGED <<obj, connectionId, registry, intact, indicated, readIO, writeIO,
                  posted>>
  BY DEF ReadFinal, sharedVars, readVars, writeVars
<1>6. Shape' /\ mtx' \in [Conns -> Threads \cup {NoThread}]
  BY <1>1, <1>4, <1>5, Unlocking DEF ReadFinal
<1>7. data' \in [Conns -> Text]
  BY <1>1, <1>2 DEF ReadFinal, IInv, TypeOK, DataTypeOK
<1>8. TypeOK'
  BY <1>4, <1>6, <1>7 DEF IInv, TypeOK, ControlTypeOK, DataTypeOK, Moves,
         ReadFinal, sharedVars, readVars, writeVars
<1>. QED
  BY <1>6, <1>8 DEF IInv

LEMMA CleanupReturnStep ==
  ASSUME IInv, NEW t \in Threads, CleanupReturn(t)
  PROVE  IInv'
<1>1. Moves(t) /\ pc[t] = "cleanupReturn" /\ pc'[t] = "idle"
  BY ReturnEffect DEF CleanupReturn, IInv, TypeOK
<1>2. UNCHANGED <<obj, connectionId, registry, intact, indicated, readIO, writeIO,
                  posted>>
  BY DEF CleanupReturn, sharedVars, readVars, writeVars
<1>3. Shape' /\ mtx' \in [Conns -> Threads \cup {NoThread}]
  BY <1>1, <1>2, Unlocking DEF CleanupReturn
<1>4. TypeOK'
  BY <1>1, <1>3 DEF IInv, TypeOK, ControlTypeOK, DataTypeOK, Moves,
         CleanupReturn, bufferVars, sharedVars, readVars, writeVars
<1>. QED
  BY <1>3, <1>4 DEF IInv

\* What the cleaning thread knows of its object.
LEMMA Cleaning ==
  ASSUME IInv, NEW t \in Threads, pc[t] \in CleanupPcs
  PROVE  /\ On(t) \in Conns /\ obj[On(t)] = "live" /\ readIO[On(t)] = "none"
         /\ mtx[On(t)] = t
         /\ \A u \in Threads \ {t} :
              /\ pc[u] \in ReaderPcs => On(u) # On(t)
              /\ pc[u] \in SendPcs => Target(u) # On(t)
<1>1. pc[t] \in ReaderPcs /\ pc[t] \in OwnLockPcs /\ pc[t] # "idle"
  BY DEF ReaderPcs, CleanupPcs, OwnLockPcs
<1>. QED
  BY <1>1 DEF IInv, Shape, FramesOK, ReadersApart, ReadersLive, MutexesOK

LEMMA CleanupEraseStep ==
  ASSUME IInv, NEW t \in Threads, CleanupErase(t)
  PROVE  IInv'
<1>. DEFINE c == On(t)
<1>1. /\ Moves(t) /\ pc[t] = "cleanup" /\ pc'[t] = "cleanupFinish"
      /\ On(t)' = On(t)
  BY GotoEffect DEF CleanupErase, IInv, TypeOK, Pcs
<1>2. /\ c \in Conns
      /\ \A u \in Threads \ {t} : pc[u] \in ReaderPcs => On(u) # c
  BY <1>1, Cleaning DEF CleanupPcs
<1>3. /\ registry' = registry \ {c}
      /\ connectionId' = [connectionId EXCEPT ![c] = 0]
  BY <1>1 DEF CleanupErase, IInv, Shape, StagesOK
<1>4. UNCHANGED <<obj, mtx, intact, indicated, readIO, writeIO, posted>>
  BY DEF CleanupErase, readVars, writeVars
<1>5. counter' \in [{"websockets", "websocketsRead", "websocketsWrite"} -> Int]
  BY DEF CleanupErase, Count, IInv, TypeOK, DataTypeOK
<1>6. TypeOK'
  BY <1>1, <1>3, <1>5 DEF IInv, TypeOK, ControlTypeOK, DataTypeOK, Moves,
         CleanupErase, bufferVars, readVars, writeVars
<1>7. FramesOK' /\ UnreadOK' /\ UnwrittenOK' /\ RegistryLive'
  BY <1>1, <1>3, <1>4 DEF IInv, Shape, Moves, FramesOK, UnreadOK, UnwrittenOK,
         RegistryLive, WritePcs
<1>8. ReadersApart' /\ ReadersLive' /\ MutexesOK'
  BY <1>1, <1>4 DEF IInv, Shape, Moves, ReadersApart, ReadersLive,
         MutexesOK, ReaderPcs, CleanupPcs, SendPcs, OwnLockPcs
<1>9. ConnsOK' /\ StagesOK'
  BY <1>1, <1>2, <1>3, <1>4 DEF IInv, Shape, TypeOK, ControlTypeOK, Moves,
         FramesOK, ConnsOK, StagesOK, CleaningPcs, ReaderPcs, CleanupPcs
<1>. QED
  BY <1>6, <1>7, <1>8, <1>9 DEF IInv, Shape

LEMMA CleanupFinishStep ==
  ASSUME IInv, NEW t \in Threads, CleanupFinish(t)
  PROVE  IInv'
<1>. DEFINE c == On(t)
<1>1. /\ Moves(t) /\ pc[t] = "cleanupFinish" /\ pc'[t] = "cleanupDelete"
      /\ On(t)' = On(t)
  BY GotoEffect DEF CleanupFinish, IInv, TypeOK, Pcs
<1>2. /\ c \in Conns /\ obj[c] = "live" /\ connectionId[c] = 0
      /\ \A u \in Threads \ {t} : /\ pc[u] \in ReaderPcs => On(u) # c
                                  /\ pc[u] \in SendPcs => Target(u) # c
  BY <1>1, Cleaning DEF CleanupPcs, CleaningPcs, IInv, Shape, StagesOK
<1>3. indicated[c] = 0
  BY <1>1, <1>2 DEF IInv, Shape, ConnsOK, ReaderPcs, CleanupPcs
<1>4. /\ indicated' \in [Conns -> Nat] /\ indicated'[c] = 1
      /\ \A d \in Conns \ {c} : indicated'[d] = indicated[d]
  BY <1>2, <1>3 DEF CleanupFinish, IInv, TypeOK, ControlTypeOK
<1>5. UNCHANGED <<obj, connectionId, mtx, registry, intact, readIO, writeIO, posted>>
  BY DEF CleanupFinish, sharedVars, readVars, writeVars
<1>6. TypeOK'
  BY <1>1, <1>4 DEF IInv, TypeOK, ControlTypeOK, DataTypeOK, Moves,
         CleanupFinish, bufferVars, sharedVars, readVars, writeVars
<1>7. FramesOK' /\ UnreadOK' /\ UnwrittenOK' /\ RegistryLive'
  BY <1>1, <1>5 DEF IInv, Shape, Moves, FramesOK, UnreadOK, UnwrittenOK,
         RegistryLive, WritePcs
<1>8. ReadersApart' /\ ReadersLive'
  BY <1>1, <1>5 DEF IInv, Shape, Moves, ReadersApart, ReadersLive,
         ReaderPcs, CleanupPcs
<1>9. MutexesOK'
  BY <1>1, <1>2, <1>4, <1>5 DEF IInv, Shape, Moves, FramesOK, MutexesOK,
         WritePcs, SendPcs, OwnLockPcs
<1>10. ConnsOK'
  BY <1>1, <1>2, <1>4, <1>5 DEF IInv, Shape, Moves, ConnsOK
<1>11. StagesOK'
  BY <1>1, <1>2, <1>4, <1>5 DEF IInv, Shape, Moves, FramesOK, StagesOK,
         CleaningPcs, ReaderPcs, CleanupPcs
<1>. QED
  BY <1>6, <1>7, <1>8, <1>9, <1>10, <1>11 DEF IInv, Shape

LEMMA CleanupDeleteStep ==
  ASSUME IInv, NEW t \in Threads, CleanupDelete(t)
  PROVE  IInv'
<1>. DEFINE c == On(t)
<1>1. /\ Moves(t) /\ pc[t] = "cleanupDelete" /\ pc'[t] = "cleanupReturn"
      /\ On(t)' = On(t)
  BY GotoEffect DEF CleanupDelete, IInv, TypeOK, Pcs
<1>2. /\ c \in Conns /\ obj[c] = "live" /\ readIO[c] = "none"
      /\ connectionId[c] = 0 /\ (intact => c \notin registry)
      /\ indicated[c] = 1
      /\ mtx[c] = t
      /\ \A u \in Threads \ {t} : /\ pc[u] \in ReaderPcs => On(u) # c
                                  /\ pc[u] \in SendPcs => Target(u) # c
  BY <1>1, Cleaning DEF CleanupPcs, CleaningPcs, IInv, Shape, StagesOK
<1>3. /\ obj' \in [Conns -> {"none", "refused", "live", "deleted"}]
      /\ obj'[c] = "deleted" /\ \A d \in Conns \ {c} : obj'[d] = obj[d]
      /\ link' \in [Conns -> {"up", "closing", "closed", "broken", "reset"}]
  BY <1>2 DEF CleanupDelete, IInv, TypeOK, ControlTypeOK
<1>4. /\ readIO' \in [Conns -> {"none", "outstanding", "aborted"}]
      /\ writeIO' \in [Conns -> {"none", "queued", "aborted"}]
      /\ readIO'[c] = "none"
      /\ \A d \in Conns \ {c} : readIO'[d] = readIO[d] /\ writeIO'[d] = writeIO[d]
  BY <1>2, CancelType DEF CleanupDelete, IInv
<1>5. UNCHANGED <<connectionId, mtx, registry, intact, indicated, posted>>
  BY DEF CleanupDelete, sharedVars
<1>6. TypeOK'
  BY <1>1, <1>3, <1>4 DEF IInv, TypeOK, ControlTypeOK, DataTypeOK, Moves,
         CleanupDelete, bufferVars, sharedVars
<1>7. FramesOK' /\ UnreadOK' /\ UnwrittenOK' /\ RegistryLive'
  BY <1>1, <1>2, <1>3, <1>4, <1>5 DEF IInv, Shape, TypeOK, ControlTypeOK,
         Moves, FramesOK, UnreadOK, UnwrittenOK, RegistryLive, WritePcs
<1>8. ReadersApart' /\ ReadersLive'
  BY <1>1, <1>2, <1>3, <1>4 DEF IInv, Shape, Moves, FramesOK, ReadersApart,
         ReadersLive, ReaderPcs, CleanupPcs
<1>9. MutexesOK'
  BY <1>1, <1>2, <1>3, <1>5 DEF IInv, Shape, Moves, FramesOK, MutexesOK,
         WritePcs, SendPcs, OwnLockPcs
<1>10. ConnsOK'
  BY <1>1, <1>2, <1>3, <1>5 DEF IInv, Shape, Moves, ConnsOK
<1>11. StagesOK'
  BY <1>1, <1>3, <1>5 DEF IInv, Shape, Moves, FramesOK, StagesOK, CleaningPcs
<1>. QED
  BY <1>6, <1>7, <1>8, <1>9, <1>10, <1>11 DEF IInv, Shape

----------------------------------------------------------------------------
(***************************************************************************)
(* Functions that IIS starts in the module.                                *)
(***************************************************************************)
LEMMA BeginRefusedStep ==
  ASSUME IInv, NEW c \in Conns, BeginRefused(c)
  PROVE  IInv'
<1>1. /\ obj[c] = "none" /\ obj'[c] = "refused"
      /\ obj' \in [Conns -> {"none", "refused", "live", "deleted"}]
      /\ \A d \in Conns \ {c} : obj'[d] = obj[d]
  BY DEF BeginRefused, IInv, TypeOK, ControlTypeOK
<1>2. UNCHANGED <<pc, frame, connectionId, mtx, registry, intact, indicated, readIO,
                  writeIO, posted>>
  BY DEF BeginRefused, threadVars, sharedVars, readVars, writeVars
<1>3. TypeOK'
  BY <1>1 DEF IInv, TypeOK, ControlTypeOK, DataTypeOK, BeginRefused,
         threadVars, bufferVars, sharedVars, readVars, writeVars
<1>4. FramesOK' /\ ReadersApart' /\ ReadersLive' /\ RegistryLive'
  BY <1>1, <1>2 DEF IInv, Shape, FramesOK, ReadersApart, ReadersLive,
         RegistryLive, On, Target, ReaderPcs, CleanupPcs, TypeOK, ControlTypeOK
<1>5. MutexesOK' /\ UnreadOK' /\ UnwrittenOK'
  BY <1>1, <1>2 DEF IInv, Shape, FramesOK, MutexesOK, UnreadOK, UnwrittenOK,
         On, Target, WritePcs, SendPcs
<1>6. ConnsOK' /\ StagesOK'
  BY <1>1, <1>2 DEF IInv, Shape, FramesOK, ConnsOK, StagesOK, On
<1>. QED
  BY <1>3, <1>4, <1>5, <1>6 DEF IInv, Shape

LEMMA OnBeginRequestStep ==
  ASSUME IInv, NEW t \in Threads, NEW c \in Conns, OnBeginRequest(t, c)
  PROVE  IInv'
<1>1. Moves(t) /\ pc[t] = "idle" /\ pc'[t] = "insert" /\ On(t)' = c
  BY StartEffect DEF OnBeginRequest, IInv, TypeOK, Pcs
<1>2. /\ obj[c] = "none" /\ obj'[c] = "live"
      /\ obj' \in [Conns -> {"none", "refused", "live", "deleted"}]
      /\ \A d \in Conns \ {c} : obj'[d] = obj[d]
  BY DEF OnBeginRequest, IInv, TypeOK, ControlTypeOK
<1>3. /\ connectionId'[c] = c
      /\ connectionId' \in [Conns -> Conns \cup {0}]
      /\ \A d \in Conns \ {c} : connectionId'[d] = connectionId[d]
  BY DEF OnBeginRequest, IInv, TypeOK, ControlTypeOK
<1>4. counter' \in [{"websockets", "websocketsRead", "websocketsWrite"} -> Int]
  BY DEF OnBeginRequest, Count, IInv, TypeOK, DataTypeOK
<1>5. UNCHANGED <<mtx, registry, intact, indicated, readIO, writeIO, posted>>
  BY DEF OnBeginRequest, readVars, writeVars
<1>6. \A u \in Threads \ {t} : pc[u] # "idle" => On(u) # c
  BY <1>2 DEF IInv, Shape, FramesOK
<1>7. TypeOK'
  BY <1>1, <1>2, <1>3, <1>4 DEF IInv, TypeOK, ControlTypeOK, DataTypeOK, Moves,
         OnBeginRequest, bufferVars, readVars, writeVars
<1>8. FramesOK'
  BY <1>1, <1>2 DEF IInv, Shape, Moves, FramesOK, WritePcs
<1>9. ReadersApart' /\ ReadersLive' /\ RegistryLive'
  BY <1>1, <1>2, <1>5, <1>6 DEF IInv, Shape, TypeOK, ControlTypeOK, Moves,
         FramesOK, ReadersApart, ReadersLive, RegistryLive, UnreadOK,
         ReaderPcs, CleanupPcs
<1>10. MutexesOK' /\ UnreadOK' /\ UnwrittenOK'
  BY <1>1, <1>2, <1>5 DEF IInv, Shape, Moves, FramesOK, MutexesOK, UnreadOK,
         UnwrittenOK, WritePcs, SendPcs, OwnLockPcs
<1>11. ConnsOK'
  BY <1>1, <1>2, <1>3, <1>5 DEF IInv, Shape, Moves, ConnsOK
<1>12. StagesOK'
  BY <1>1, <1>2, <1>3, <1>5, <1>6 DEF IInv, Shape, Moves, FramesOK, StagesOK,
         CleaningPcs
<1>. QED
  BY <1>7, <1>8, <1>9, <1>10, <1>11, <1>12 DEF IInv, Shape

\* A read of c ends and its callback becomes the reader of c.
LEMMA ReadStarts ==
  ASSUME IInv, NEW t \in Threads, NEW c \in Conns, Moves(t), pc[t] = "idle",
         pc'[t] = "readLock", On(t)' = c, readIO[c] # "none",
         readIO' = [readIO EXCEPT ![c] = "none"],
         UNCHANGED <<obj, connectionId, mtx, registry, intact, indicated, writeIO,
                     posted>>
  PROVE  Shape' /\ readIO' \in [Conns -> {"none", "outstanding", "aborted"}]
<1>1. /\ readIO'[c] = "none" /\ \A d \in Conns \ {c} : readIO'[d] = readIO[d]
      /\ readIO' \in [Conns -> {"none", "outstanding", "aborted"}]
  BY DEF IInv, TypeOK, ControlTypeOK
<1>2. obj[c] = "live" /\ \A u \in Threads : pc[u] \in ReaderPcs => On(u) # c
  BY DEF IInv, Shape, UnreadOK, ReadersApart
<1>3. FramesOK' /\ RegistryLive' /\ UnreadOK' /\ UnwrittenOK'
  BY <1>1, <1>2 DEF IInv, Shape, Moves, FramesOK, RegistryLive, UnreadOK,
         UnwrittenOK, WritePcs
<1>4. ReadersApart' /\ ReadersLive'
  BY <1>1, <1>2 DEF IInv, Shape, Moves, ReadersApart, ReadersLive, FramesOK,
         ReaderPcs, CleanupPcs
<1>5. MutexesOK' /\ ConnsOK' /\ StagesOK'
  BY <1>1 DEF IInv, Shape, Moves, MutexesOK, ConnsOK, StagesOK, SendPcs,
         OwnLockPcs, CleaningPcs
<1>. QED
  BY <1>1, <1>3, <1>4, <1>5 DEF Shape

LEMMA ReadCompletesStep ==
  ASSUME IInv, NEW t \in Threads, NEW c \in Conns, ReadCompletes(t, c)
  PROVE  IInv'
<1>. DEFINE first == Head(inbox[c])
<1>1. inbox[c] # <<>> /\ first \in Fragment /\ Tail(inbox[c]) \in Text
  BY HeadTailProperties DEF ReadCompletes, IInv, TypeOK, DataTypeOK, Text
<1>2. Start(t, c, "readLock", first[2] = "final", FALSE)
  BY DEF ReadCompletes
<1>3. Moves(t) /\ pc[t] = "idle" /\ pc'[t] = "readLock" /\ On(t)' = c
  BY <1>2, StartEffect DEF IInv, TypeOK, Pcs
<1>4. Shape' /\ readIO' \in [Conns -> {"none", "outstanding", "aborted"}]
  BY <1>3, ReadStarts DEF ReadCompletes, sharedVars, writeVars
<1>5. <<first>> \in Text
  BY <1>1 DEF Text
<1>6. readBuffer' \in [Conns -> Text] /\ inbox' \in [Conns -> Text]
  BY <1>1, <1>5 DEF ReadCompletes, IInv, TypeOK, DataTypeOK
<1>7. TypeOK'
  BY <1>3, <1>4, <1>6 DEF IInv, TypeOK, ControlTypeOK, DataTypeOK, Moves,
         ReadCompletes, sharedVars, writeVars
<1>. QED
  BY <1>4, <1>7 DEF IInv

LEMMA ReadEndsStep ==
  ASSUME IInv, NEW t \in Threads, NEW c \in Conns,
         ReadCloses(t, c) \/ ReadFails(t, c)
  PROVE  IInv'
<1>1. \E final \in BOOLEAN : Start(t, c, "readLock", final, TRUE)
  BY DEF ReadCloses, ReadFails
<1>2. Moves(t) /\ pc[t] = "idle" /\ pc'[t] = "readLock" /\ On(t)' = c
  BY <1>1, StartEffect DEF IInv, TypeOK, Pcs
<1>3. /\ readIO[c] # "none" /\ readIO' = [readIO EXCEPT ![c] = "none"]
      /\ UNCHANGED <<obj, connectionId, mtx, data, readBuffer, writeBuffer,
                     registry, intact, counter, process, indicated, inbox, writeIO,
                     posted, accepted, sent>>
  BY DEF ReadCloses, ReadFails, bufferVars, sharedVars, writeVars
<1>4. Shape' /\ readIO' \in [Conns -> {"none", "outstanding", "aborted"}]
  BY <1>2, <1>3, ReadStarts
<1>5. link' \in [Conns -> {"up", "closing", "closed", "broken", "reset"}]
  <2>1. CASE ReadCloses(t, c)
    BY <2>1 DEF ReadCloses, IInv, TypeOK, ControlTypeOK
  <2>2. CASE ReadFails(t, c)
    BY <2>2 DEF ReadFails, IInv, TypeOK, ControlTypeOK
  <2>. QED  BY <2>1, <2>2
<1>6. TypeOK'
  BY <1>2, <1>3, <1>4, <1>5 DEF IInv, TypeOK, ControlTypeOK, DataTypeOK, Moves
<1>. QED
  BY <1>4, <1>6 DEF IInv

LEMMA WriteCompletesStep ==
  ASSUME IInv, NEW t \in Threads, NEW c \in Conns, WriteCompletes(t, c)
  PROVE  IInv'
<1>1. Moves(t) /\ pc[t] = "idle" /\ pc'[t] = "writeCb" /\ On(t)' = c
  BY StartEffect DEF WriteCompletes, IInv, TypeOK, Pcs
<1>2. /\ posted[c] \in Nat /\ posted[c] > 0
      /\ posted' = [posted EXCEPT ![c] = posted[c] - 1]
  BY DEF WriteCompletes, IInv, TypeOK, DataTypeOK
<1>3. posted' \in [Conns -> Nat] /\ \A d \in Conns : posted[d] = 0 => posted'[d] = 0
  BY <1>2 DEF IInv, TypeOK, DataTypeOK
<1>4. obj[c] \in {"live", "deleted"}
  BY <1>2 DEF IInv, Shape, UnwrittenOK, TypeOK, ControlTypeOK
<1>5. UNCHANGED <<obj, connectionId, mtx, registry, intact, indicated, readIO, writeIO>>
  BY DEF WriteCompletes, sharedVars, readVars
<1>6. TypeOK'
  BY <1>1, <1>3 DEF IInv, TypeOK, ControlTypeOK, DataTypeOK, Moves,
         WriteCompletes, bufferVars, sharedVars, readVars
<1>7. FramesOK' /\ RegistryLive' /\ UnreadOK' /\ UnwrittenOK'
  BY <1>1, <1>3, <1>4, <1>5 DEF IInv, Shape, Moves, FramesOK, RegistryLive,
         UnreadOK, UnwrittenOK, WritePcs
<1>8. ReadersApart' /\ ReadersLive'
  BY <1>1, <1>5 DEF IInv, Shape, Moves, ReadersApart, ReadersLive,
         ReaderPcs, CleanupPcs
<1>9. MutexesOK' /\ ConnsOK' /\ StagesOK'
  BY <1>1, <1>5 DEF IInv, Shape, Moves, MutexesOK, ConnsOK, StagesOK, SendPcs,
         OwnLockPcs, CleaningPcs
<1>. QED
  BY <1>6, <1>7, <1>8, <1>9 DEF IInv, Shape

----------------------------------------------------------------------------
(***************************************************************************)
(* The clients, the network and the end of the process.                    *)
(***************************************************************************)
LEMMA PeerSendStep ==
  ASSUME IInv, NEW c \in Conns, PeerSend(c)
  PROVE  IInv'
<1>1. PICK text \in {Whole(sent[c] + 1), Split(sent[c] + 1)} :
        inbox' = [inbox EXCEPT ![c] = inbox[c] \o text]
  BY DEF PeerSend, IInv, TypeOK, DataTypeOK
<1>2. sent[c] + 1 \in Nat
  BY DEF IInv, TypeOK, DataTypeOK
<1>3. text \in Text
  <2>. DEFINE m == sent[c] + 1
  <2>1. <<m, "more">> \in Fragment /\ <<m, "final">> \in Fragment
    BY <1>2 DEF Fragment
  <2>2. Whole(m) \in Text
    BY <2>1 DEF Whole, Text
  <2>3. Split(m) \in Text
    BY <2>1 DEF Split, Text
  <2>. QED  BY <1>1, <2>2, <2>3
<1>4. inbox[c] \o text \in Text
  BY <1>3, ConcatProperties DEF IInv, TypeOK, DataTypeOK, Text
<1>5. sent' \in [Conns -> Nat] /\ inbox' \in [Conns -> Text]
  BY <1>1, <1>2, <1>4 DEF PeerSend, IInv, TypeOK, DataTypeOK
<1>6. TypeOK'
  BY <1>5 DEF IInv, TypeOK, ControlTypeOK, DataTypeOK, PeerSend, threadVars,
         bufferVars, sharedVars, writeVars
<1>7. Shape'
  BY OutsideStep DEF PeerSend, IInv, Shape, UnwrittenOK, threadVars,
         sharedVars, writeVars
<1>. QED
  BY <1>6, <1>7 DEF IInv

LEMMA PeerLeavesStep ==
  ASSUME IInv, NEW c \in Conns, PeerLeaves(c)
  PROVE  IInv'
<1>1. link' \in [Conns -> {"up", "closing", "closed", "broken", "reset"}]
  BY DEF PeerLeaves, IInv, TypeOK, ControlTypeOK
<1>2. TypeOK'
  BY <1>1 DEF IInv, TypeOK, ControlTypeOK, DataTypeOK, PeerLeaves, threadVars,
         bufferVars, sharedVars, readVars, writeVars
<1>3. Shape'
  BY OutsideStep DEF PeerLeaves, IInv, Shape, UnwrittenOK, threadVars,
         sharedVars, readVars, writeVars
<1>. QED
  BY <1>2, <1>3 DEF IInv

LEMMA WriteEndsStep ==
  ASSUME IInv, NEW c \in Conns, WriteEnds(c)
  PROVE  IInv'
<1>1. obj[c] \notin {"none", "refused"}
  BY DEF WriteEnds, IInv, Shape, UnwrittenOK
<1>2. /\ writeIO' \in [Conns -> {"none", "queued", "aborted"}]
      /\ posted' \in [Conns -> Nat]
      /\ \A d \in Conns \ {c} : writeIO'[d] = writeIO[d] /\ posted'[d] = posted[d]
  BY DEF WriteEnds, IInv, TypeOK, ControlTypeOK, DataTypeOK
<1>3. TypeOK'
  BY <1>2 DEF IInv, TypeOK, ControlTypeOK, DataTypeOK, WriteEnds, threadVars,
         bufferVars, sharedVars, readVars
<1>4. UnwrittenOK'
  BY <1>1, <1>2 DEF WriteEnds, IInv, Shape, UnwrittenOK
<1>5. Shape'
  BY <1>4, OutsideStep DEF WriteEnds, threadVars, sharedVars, readVars
<1>. QED
  BY <1>3, <1>5 DEF IInv

LEMMA TerminateStep ==
  ASSUME IInv, Terminate
  PROVE  IInv'
<1>1. TypeOK'
  BY DEF IInv, TypeOK, ControlTypeOK, DataTypeOK, Terminate, threadVars,
         bufferVars, sharedVars, readVars, writeVars
<1>2. Shape'
  BY OutsideStep DEF Terminate, IInv, Shape, UnwrittenOK, threadVars,
         sharedVars, readVars, writeVars
<1>. QED
  BY <1>1, <1>2 DEF IInv

----------------------------------------------------------------------------
LEMMA InitIInv == Init => IInv
<1>. SUFFICES ASSUME Init PROVE IInv
  OBVIOUS
<1>1. NoFrame \in Frame /\ <<>> \in Text /\ <<>> \in Seq(Text)
  BY EmptySeq DEF NoFrame, Frame, Text
<1>2. TypeOK
  BY <1>1 DEF Init, TypeOK, ControlTypeOK, DataTypeOK, Pcs
<1>3. Shape
  BY DEF Init, Shape, FramesOK, ReadersApart, ReadersLive, RegistryLive,
         MutexesOK, UnreadOK, UnwrittenOK, ConnsOK, StagesOK, WritePcs,
         SendPcs, OwnLockPcs, CleaningPcs, ReaderPcs, CleanupPcs
<1>. QED
  BY <1>2, <1>3 DEF IInv

LEMMA ThreadStepIInv ==
  ASSUME IInv, NEW t \in Threads, ThreadStep(t)
  PROVE  IInv'
<1>1. CASE Begin(t)
  BY <1>1, InsertStep, NotifyStep, NotifyEndsStep, CheckStatusStep,
     FirstReadStep, FirstAppendStep, FirstClearStep, FailedStep,
     FirstReturnStep DEF Begin
<1>2. CASE Write(t)
  BY <1>2, WriteRefusedStep, WriteLockStep, WriteSendStep, WriteResendStep
     DEF Write
<1>3. CASE Read(t)
  BY <1>3, ReadDisconnectedStep, ReadLockStep, ReadFinalStep, TerminateStep,
     ReadClearStep, RereadStep, FailedStep DEF Read, ReadPartial
<1>4. CASE Cleanup(t)
  BY <1>4, CleanupEraseStep, CleanupFinishStep, CleanupDeleteStep,
     CleanupReturnStep DEF Cleanup
<1>5. CASE Written(t)
  BY <1>5, WriteDoneStep, WriteCountStep DEF Written
<1>. QED
  BY <1>1, <1>2, <1>3, <1>4, <1>5 DEF ThreadStep

LEMMA NextIInv == IInv /\ [Next]_vars => IInv'
<1>. SUFFICES ASSUME IInv, [Next]_vars PROVE IInv'
  OBVIOUS
<1>1. CASE UNCHANGED vars
  BY <1>1 DEF vars, IInv, Shape, TypeOK, ControlTypeOK, DataTypeOK, FramesOK,
         ReadersApart, ReadersLive, RegistryLive, MutexesOK, UnreadOK,
         UnwrittenOK, ConnsOK, StagesOK, On, Target
<1>2. ASSUME NEW t \in Threads, ThreadStep(t) PROVE IInv'
  BY <1>2, ThreadStepIInv
<1>3. ASSUME NEW c \in Conns, PeerSend(c) \/ PeerLeaves(c) \/ BeginRefused(c)
                              \/ WriteEnds(c)
      PROVE  IInv'
  BY <1>3, PeerSendStep, PeerLeavesStep, BeginRefusedStep, WriteEndsStep
<1>4. ASSUME NEW c \in Conns, NEW t \in Threads,
             \/ ReadCompletes(t, c) \/ ReadCloses(t, c) \/ ReadFails(t, c)
             \/ OnBeginRequest(t, c) \/ WriteCompletes(t, c)
      PROVE  IInv'
  BY <1>4, ReadCompletesStep, ReadEndsStep, OnBeginRequestStep,
     WriteCompletesStep
<1>5. CASE MapBreaks \/ Fault
  BY <1>5, MapBreaksStep, TerminateStep DEF Fault
<1>. QED
  BY <1>1, <1>2, <1>3, <1>4, <1>5 DEF Next, Completes

\* IInv holds of every reachable state.
LEMMA Invariance == Spec => []IInv
BY InitIInv, NextIInv, PTL DEF Spec

\* Every variable keeps its type, whatever clients and IIS do: every
\* connectionId is 0 or a connection's, the registry lists connections only.
THEOREM TypeCorrect == Spec => []TypeOK
<1>1. IInv => TypeOK
  BY DEF IInv
<1>. QED
  BY <1>1, Invariance, PTL

\* data and readBuffer, which the code uses outside its lock, are never used
\* by two pool threads at once, nor while IIS reads into the buffer, except by
\* the lines that continuousReading logs last; and of two threads at work on a
\* connection, one is at those lines.
THEOREM ReadersExclusive == Spec => []OneReader
<1>1. IInv => OneReader
  <2>. SUFFICES ASSUME IInv PROVE OneReader
    OBVIOUS
  <2>1. ASSUME NEW t \in Threads, pc[t] \in UsePcs \ {"firstReturn"}
        PROVE  \/ pc[t] \in ReaderPcs /\ obj[On(t)] = "live" /\ readIO[On(t)] = "none"
               \/ /\ pc[t] = "cleanupReturn" /\ mtx[On(t)] = t
                  /\ obj[On(t)] = "deleted" /\ readIO[On(t)] = "none"
    <3>1. pc[t] \in ReaderPcs \cup {"cleanupReturn"}
      BY <2>1 DEF UsePcs, Pcs, ReaderPcs, CleanupPcs
    <3>2. pc[t] = "cleanupReturn" => /\ mtx[On(t)] = t /\ obj[On(t)] = "deleted"
                                     /\ On(t) \in Conns
      BY DEF IInv, Shape, FramesOK, MutexesOK, StagesOK, OwnLockPcs
    <3>. QED
      BY <3>1, <3>2 DEF IInv, Shape, ReadersApart, ReadersLive, UnreadOK
  <2>. QED
    BY <2>1 DEF IInv, Shape, ReadersApart, OneReader
<1>. QED
  BY <1>1, Invariance, PTL

\* The object that a step of a pool thread uses may have been deleted in five
\* places only: the last log lines of continuousReading, the unique_lock of the
\* callback that deleted it, a notice's Write at its lock, and the write
\* callback.  Everywhere else, from OnBeginRequest or the start of a read
\* callback to the next read or the delete, it is there.
THEOREM DeletedObjectUses == Spec => []LateUsesOnly
<1>1. IInv => LateUsesOnly
  <2>. SUFFICES ASSUME IInv, NEW t \in Threads, TouchesDeleted(t),
                       pc[t] \notin {"firstReturn", "cleanupReturn", "writeLock",
                                     "writeCb", "writeCount"}
                PROVE  FALSE
    BY DEF LateUsesOnly
  <2>1. pc[t] \in Pcs \ {"idle"} /\ obj[Object(t)] = "deleted"
    BY DEF TouchesDeleted, IInv, TypeOK, ControlTypeOK
  <2>2. CASE pc[t] \in SendPcs
    BY <2>1, <2>2 DEF Object, WritePcs, SendPcs, IInv, Shape, MutexesOK
  <2>3. CASE pc[t] \notin SendPcs
    <3>1. pc[t] \in ReaderPcs /\ pc[t] \notin WritePcs
      BY <2>1, <2>3 DEF Pcs, ReaderPcs, CleanupPcs, SendPcs, WritePcs
    <3>. QED
      BY <2>1, <3>1 DEF Object, IInv, Shape, ReadersLive
  <2>. QED  BY <2>2, <2>3
<1>. QED
  BY <1>1, Invariance, PTL

\* CleanupStoredContext takes an object out of g_ListWebSocket before it
\* deletes it, so that the map never lists a deleted object, unless two
\* accesses to it met and it may list anything.
THEOREM RegistryListsLiveObjects == Spec => []RegistryLive
<1>1. IInv => RegistryLive
  BY DEF IInv, Shape
<1>. QED
  BY <1>1, Invariance, PTL

\* IndicateCompletion(FINISH_REQUEST) is called once at most, and before the
\* object is deleted; no read can call back on a deleted object.
THEOREM RequestFinishedOnce == Spec => []FinishedOnce
<1>1. IInv => FinishedOnce
  <2>. SUFFICES ASSUME IInv, NEW c \in Conns
                PROVE  /\ indicated[c] <= 1
                       /\ obj[c] = "deleted" => indicated[c] = 1 /\ readIO[c] = "none"
    BY DEF FinishedOnce
  <2>1. indicated[c] \in Nat /\ obj[c] \in {"none", "refused", "live", "deleted"}
    BY DEF IInv, TypeOK, ControlTypeOK
  <2>2. obj[c] = "live" /\ indicated[c] # 0 => indicated[c] = 1
    BY DEF IInv, Shape, ConnsOK, StagesOK
  <2>3. obj[c] # "live" => readIO[c] = "none"
    BY DEF IInv, Shape, UnreadOK
  <2>. QED
    BY <2>1, <2>2, <2>3 DEF IInv, Shape, ConnsOK
<1>. QED
  BY <1>1, Invariance, PTL

\* Write offers a text to IIS with the object's mutex held, and
\* CleanupStoredContext holds it too: no text is accepted for a request that
\* IndicateCompletion has finished.
THEOREM NothingWrittenAfterFinish == Spec => NoWriteAfterFinish
<1>. DEFINE Quiesced == \A c \in Conns : indicated[c] > 0 /\ process' = "up"
                                         => accepted'[c] = accepted[c]
<1>1. ASSUME IInv, [Next]_vars PROVE [Quiesced]_vars
  <2>1. ASSUME NEW t \in Threads, WriteSend(t) \/ WriteResend(t) PROVE Quiesced
    <3>1. pc[t] \in SendPcs /\ Target(t) \in Conns /\ frame[t].text \in Text
      BY <1>1, <2>1 DEF WriteSend, WriteResend, WriteReturn, SendPcs, WritePcs,
             IInv, Shape, FramesOK, TypeOK, ControlTypeOK, Frame
    <3>2. \E answer : WriteFragment(Target(t), frame[t].text, answer)
      BY <2>1 DEF WriteSend, WriteResend
    <3>3. \A c \in Conns \ {Target(t)} : accepted'[c] = accepted[c]
      BY <1>1, <3>1, <3>2, WriteFragmentType DEF IInv
    <3>4. indicated[Target(t)] = 0
      BY <1>1, <3>1 DEF IInv, Shape, MutexesOK
    <3>. QED  BY <3>3, <3>4
  <2>2. ASSUME NEW t \in Threads, ThreadStep(t), ~WriteSend(t), ~WriteResend(t)
        PROVE  UNCHANGED accepted
    BY <2>2 DEF ThreadStep, Begin, Write, Read, Cleanup, Written, Insert,
           Notify, NotifyEnds, CheckStatus, FirstRead, FirstAppend, FirstClear,
           FirstFailed, FirstReturn, WriteRefused, WriteLock, ReadDisconnected,
           ReadLock, ReadFinal, ReadPartial, Terminate, ReadClear, Reread,
           RereadFailed, CleanupErase, CleanupFinish, CleanupDelete,
           CleanupReturn, WriteDone, WriteCount, writeVars
  <2>3. ASSUME NEW c \in Conns, \/ PeerSend(c) \/ PeerLeaves(c)
                                \/ BeginRefused(c) \/ WriteEnds(c)
        PROVE  UNCHANGED accepted
    BY <2>3 DEF PeerSend, PeerLeaves, BeginRefused, WriteEnds, writeVars
  <2>4. ASSUME NEW c \in Conns, NEW t \in Threads,
               \/ ReadCompletes(t, c) \/ ReadCloses(t, c) \/ ReadFails(t, c)
               \/ OnBeginRequest(t, c) \/ WriteCompletes(t, c)
        PROVE  UNCHANGED accepted
    BY <2>4 DEF ReadCompletes, ReadCloses, ReadFails, OnBeginRequest,
           WriteCompletes, writeVars
  <2>5. CASE MapBreaks \/ Fault
    BY <2>5 DEF MapBreaks, Fault, Terminate, writeVars
  <2>. QED
    BY <1>1, <2>1, <2>2, <2>3, <2>4, <2>5 DEF Next, Completes
<1>2. NoWriteAfterFinish <=> [][Quiesced]_vars
  BY DEF NoWriteAfterFinish
<1>. QED
  BY <1>1, <1>2, Invariance, PTL DEF Spec

----------------------------------------------------------------------------
(***************************************************************************)
(* g_IISCounter.websockets.  It is raised when an object is made, and      *)
(* lowered while the object is still there; the threads in between, which  *)
(* are finitely many though the pool need not be, make up the difference.  *)
(***************************************************************************)
LiveConns   == {c \in Conns : obj[c] = "live"}
Cleaners    == {t \in Threads : pc[t] \in CleaningPcs}

CountInv ==
  /\ IsFiniteSet(Cleaners)
  /\ counter.websockets = Cardinality(LiveConns) - Cardinality(Cleaners)

LEMMA CountsLive == IsFiniteSet(LiveConns) /\ Cardinality(LiveConns) \in Nat
BY ConnsAssumption, FS_Subset, FS_CardinalityType DEF LiveConns

\* No object is made or deleted, and thread t is cleaning up before and after
\* the step or neither before nor after it.
LEMMA SameCount ==
  ASSUME CountInv, NEW t \in Threads, \A u \in Threads \ {t} : pc'[u] = pc[u],
         pc[t] \in CleaningPcs <=> pc'[t] \in CleaningPcs,
         UNCHANGED obj, counter'.websockets = counter.websockets
  PROVE  CountInv'
<1>1. LiveConns' = LiveConns /\ Cleaners' = Cleaners
  BY DEF LiveConns, Cleaners
<1>. QED
  BY <1>1 DEF CountInv

\* Where a thread is after a step of its own, and that no other moved.
LEMMA ThreadMoves ==
  ASSUME IInv, NEW t \in Threads,
         Begin(t) \/ Write(t) \/ Read(t) \/ Written(t)
  PROVE  /\ \A u \in Threads \ {t} : pc'[u] = pc[u]
         /\ pc[t] \notin CleaningPcs /\ pc'[t] \notin CleaningPcs
         /\ UNCHANGED obj
<1>. ControlTypeOK /\ pc \in [Threads -> Pcs] /\ frame[t].ret \in {"next", "firstClear", "readClear"}
  BY DEF IInv, TypeOK, ControlTypeOK, Frame
<1>1. CASE Begin(t)
  BY <1>1 DEF Begin, Insert, Notify, NotifyEnds, CheckStatus, FirstRead, FirstAppend,
       FirstClear, FirstFailed, FirstReturn, Goto, Return, CallWrite, CleaningPcs
<1>2. CASE Write(t)
  BY <1>2 DEF Write, WriteRefused, WriteLock, WriteSend, WriteResend, Goto, WriteReturn,
       CleaningPcs
<1>3. CASE Read(t)
  BY <1>3 DEF Read, ReadDisconnected, ReadLock, ReadFinal, ReadPartial, ReadClear, Reread,
       RereadFailed, Goto, Return, CallWrite, Terminate, threadVars, CleaningPcs
<1>4. CASE Written(t)
  BY <1>4 DEF Written, WriteDone, WriteCount, Goto, Return, CleaningPcs
<1>. QED
  BY <1>1, <1>2, <1>3, <1>4

LEMMA ThreadCounts ==
  ASSUME IInv, CountInv, NEW t \in Threads,
         Begin(t) \/ Write(t) \/ Read(t) \/ Written(t)
  PROVE  CountInv'
<1>. counter \in [{"websockets", "websocketsRead", "websocketsWrite"} -> Int]
  BY DEF IInv, TypeOK, DataTypeOK
<1>1. counter'.websockets = counter.websockets
  BY DEF Begin, Insert, Notify, NotifyEnds, CheckStatus, FirstRead, FirstAppend,
       FirstClear, FirstFailed, FirstReturn, Write, WriteRefused, WriteLock, WriteSend,
       WriteResend, Read, ReadDisconnected, ReadLock, ReadFinal, ReadPartial, ReadClear,
       Reread, RereadFailed, Terminate, Written, WriteDone, WriteCount, Count, sharedVars
<1>. QED
  BY <1>1, ThreadMoves, SameCount

LEMMA CleanupCounts ==
  ASSUME IInv, CountInv, NEW t \in Threads, Cleanup(t)
  PROVE  CountInv'
<1>. /\ counter \in [{"websockets", "websocketsRead", "websocketsWrite"} -> Int]
     /\ ControlTypeOK
  BY DEF IInv, TypeOK, DataTypeOK
<1>. IsFiniteSet(Cleaners) /\ Cardinality(Cleaners) \in Nat
  BY FS_CardinalityType DEF CountInv
<1>1. CASE CleanupErase(t)
  <2>1. /\ Goto(t, "cleanup", "cleanupFinish") /\ UNCHANGED obj
        /\ counter' = [counter EXCEPT !["websockets"] = @ + (-1)]
    BY <1>1 DEF CleanupErase, Count
  <2>2. /\ pc[t] = "cleanup" /\ pc'[t] = "cleanupFinish"
        /\ \A u \in Threads \ {t} : pc'[u] = pc[u]
    BY <2>1, GotoEffect DEF Moves, Pcs
  <2>3. counter'.websockets = counter.websockets - 1
    BY <2>1
  <2>4. /\ t \notin Cleaners /\ Cleaners' = Cleaners \cup {t} /\ LiveConns' = LiveConns
    BY <2>1, <2>2 DEF Cleaners, CleaningPcs, LiveConns
  <2>5. IsFiniteSet(Cleaners') /\ Cardinality(Cleaners') = Cardinality(Cleaners) + 1
    BY <2>4, FS_AddElement
  <2>. QED  BY <2>3, <2>4, <2>5, CountsLive DEF CountInv
<1>2. CASE CleanupFinish(t)
  <2>1. Goto(t, "cleanupFinish", "cleanupDelete") /\ UNCHANGED <<obj, counter>>
    BY <1>2 DEF CleanupFinish, sharedVars
  <2>. QED  BY <2>1, GotoEffect, SameCount DEF Moves, Pcs, CleaningPcs
<1>3. CASE CleanupDelete(t)
  <2>1. /\ Goto(t, "cleanupDelete", "cleanupReturn") /\ UNCHANGED counter
        /\ obj' = [obj EXCEPT ![On(t)] = "deleted"]
    BY <1>3 DEF CleanupDelete, sharedVars
  <2>2. /\ pc[t] = "cleanupDelete" /\ pc'[t] = "cleanupReturn"
        /\ \A u \in Threads \ {t} : pc'[u] = pc[u]
    BY <2>1, GotoEffect DEF Moves, Pcs
  <2>3. On(t) \in Conns /\ obj[On(t)] = "live"
    BY <2>2, Cleaning DEF CleanupPcs
  <2>4. On(t) \in LiveConns /\ LiveConns' = LiveConns \ {On(t)}
    BY <2>1, <2>3 DEF LiveConns, ControlTypeOK
  <2>5. t \in Cleaners /\ Cleaners' = Cleaners \ {t}
    BY <2>2 DEF Cleaners, CleaningPcs
  <2>6. IsFiniteSet(Cleaners') /\ Cardinality(Cleaners') = Cardinality(Cleaners) - 1
    BY <2>5, FS_RemoveElement
  <2>7. Cardinality(LiveConns') = Cardinality(LiveConns) - 1
    BY <2>4, CountsLive, FS_RemoveElement
  <2>. QED  BY <2>1, <2>6, <2>7, CountsLive DEF CountInv
<1>4. CASE CleanupReturn(t)
  <2>1. Return(t, "cleanupReturn") /\ UNCHANGED <<obj, counter>>
    BY <1>4 DEF CleanupReturn, sharedVars
  <2>. QED  BY <2>1, ReturnEffect, SameCount DEF Moves, CleaningPcs
<1>. QED
  BY <1>1, <1>2, <1>3, <1>4 DEF Cleanup

LEMMA OutsideCounts ==
  ASSUME IInv, CountInv, NEW c \in Conns,
         \/ PeerSend(c) \/ PeerLeaves(c) \/ WriteEnds(c) \/ BeginRefused(c)
         \/ \E t \in Threads : \/ ReadCompletes(t, c) \/ ReadCloses(t, c)
                               \/ ReadFails(t, c) \/ WriteCompletes(t, c)
                               \/ OnBeginRequest(t, c)
  PROVE  CountInv'
<1>. /\ counter \in [{"websockets", "websocketsRead", "websocketsWrite"} -> Int]
     /\ ControlTypeOK
  BY DEF IInv, TypeOK, DataTypeOK
<1>1. CASE PeerSend(c) \/ PeerLeaves(c) \/ WriteEnds(c) \/ BeginRefused(c)
  <2>1. UNCHANGED <<pc, counter>>
    BY <1>1 DEF PeerSend, PeerLeaves, WriteEnds, BeginRefused, threadVars, sharedVars
  <2>2. LiveConns' = LiveConns
    BY <1>1 DEF PeerSend, PeerLeaves, WriteEnds, BeginRefused, LiveConns, ControlTypeOK
  <2>. QED  BY <2>1, <2>2 DEF CountInv, Cleaners
<1>2. ASSUME NEW t \in Threads,
             \/ ReadCompletes(t, c) \/ ReadCloses(t, c) \/ ReadFails(t, c)
             \/ WriteCompletes(t, c)
      PROVE  CountInv'
  <2>1. /\ UNCHANGED <<obj, counter>> /\ pc[t] = "idle"
        /\ \E to \in {"readLock", "writeCb"} : pc' = [pc EXCEPT ![t] = to]
    BY <1>2 DEF ReadCompletes, ReadCloses, ReadFails, WriteCompletes, Start, sharedVars
  <2>2. pc'[t] \notin CleaningPcs /\ \A u \in Threads \ {t} : pc'[u] = pc[u]
    BY <2>1 DEF ControlTypeOK, CleaningPcs
  <2>. QED  BY <2>1, <2>2, SameCount DEF CleaningPcs
<1>3. ASSUME NEW t \in Threads, OnBeginRequest(t, c) PROVE CountInv'
  <2>1. /\ pc[t] = "idle" /\ pc' = [pc EXCEPT ![t] = "insert"]
        /\ obj[c] = "none" /\ obj' = [obj EXCEPT ![c] = "live"]
        /\ counter' = [counter EXCEPT !["websockets"] = @ + 1]
    BY <1>3 DEF OnBeginRequest, Start, Count
  <2>2. Cleaners' = Cleaners
    BY <2>1 DEF Cleaners, CleaningPcs, ControlTypeOK
  <2>3. c \notin LiveConns /\ LiveConns' = LiveConns \cup {c}
    BY <2>1 DEF LiveConns, ControlTypeOK
  <2>4. Cardinality(LiveConns') = Cardinality(LiveConns) + 1
    BY <2>3, CountsLive, FS_AddElement
  <2>5. counter'.websockets = counter.websockets + 1
    BY <2>1
  <2>6. Cardinality(Cleaners) \in Nat
    BY FS_CardinalityType DEF CountInv
  <2>. QED  BY <2>2, <2>4, <2>5, <2>6, CountsLive DEF CountInv
<1>. QED
  BY <1>1, <1>2, <1>3

\* The counter the page of get_test shows is right at every moment: it counts
\* the objects there are, less those whose cleanup has come past websockets--,
\* however many requests begin and connections end at once.
THEOREM WebsocketsAreCounted == Spec => []WebsocketsCounted
<1>1. Init => CountInv
  <2>. SUFFICES ASSUME Init PROVE CountInv
    OBVIOUS
  <2>1. Cleaners = {} /\ LiveConns = {} /\ counter.websockets = 0
    BY DEF Init, Cleaners, LiveConns, CleaningPcs
  <2>. QED  BY <2>1, FS_EmptySet DEF CountInv
<1>2. IInv /\ CountInv /\ [Next]_vars => CountInv'
  <2>. SUFFICES ASSUME IInv, CountInv, [Next]_vars PROVE CountInv'
    OBVIOUS
  <2>1. CASE UNCHANGED vars \/ MapBreaks \/ Fault
    BY <2>1 DEF vars, MapBreaks, Fault, Terminate, threadVars, sharedVars, CountInv, Cleaners, LiveConns
  <2>2. ASSUME NEW t \in Threads, ThreadStep(t) PROVE CountInv'
    BY <2>2, ThreadCounts, CleanupCounts DEF ThreadStep
  <2>3. CASE Next
    BY <2>1, <2>2, <2>3, OutsideCounts DEF Next, Completes
  <2>. QED  BY <2>1, <2>3
<1>3. CountInv => WebsocketsCounted
  <2>1. CleaningPcs = CleanupPcs \ {"cleanup"}
    BY DEF CleaningPcs, CleanupPcs
  <2>. QED  BY <2>1 DEF CountInv, WebsocketsCounted, Cleaners, LiveConns
<1>. QED
  BY <1>1, <1>2, <1>3, Invariance, PTL DEF Spec

----------------------------------------------------------------------------
(***************************************************************************)
(* std::mutex.  MutexesOK says that a critical section has its lock; this  *)
(* is the converse: a lock that is held is held by a thread in its section *)
(* on that object.                                                         *)
(***************************************************************************)
Owns(t, c) == \/ pc[t] \in OwnLockPcs /\ On(t) = c
              \/ pc[t] \in SendPcs /\ Target(t) = c

OwnerInv == \A t \in Threads, c \in Conns : mtx[c] = t => Owns(t, c)

\* Where a thread waits for a mutex.
LockPcs == {"writeLock", "firstRead", "readLock", "reread"}

\* A thread that holds a mutex waits for none, and is not back in the pool.
NoWaitForWaiter ==
  \A t \in Threads : (\E c \in Conns : mtx[c] = t) => pc[t] \notin LockPcs \cup {"idle"}

LEMMA OwnersKept ==
  ASSUME OwnerInv, NEW t \in Threads, Alone(t),
         \A c \in Conns : mtx'[c] \in {mtx[c], t, NoThread},
         \A c \in Conns : mtx'[c] = t => Owns(t, c)'
  PROVE  OwnerInv'
BY ThreadsAssumption DEF OwnerInv, Owns, Alone, On, Target

\* Thread t is in no critical section and enters none.
LEMMA OwnsNothing ==
  ASSUME OwnerInv, NEW t \in Threads, Alone(t), UNCHANGED mtx,
         pc[t] \notin OwnLockPcs \cup SendPcs
  PROVE  OwnerInv'
<1>1. \A c \in Conns : mtx[c] # t
  BY DEF OwnerInv, Owns
<1>. QED
  BY <1>1, OwnersKept

\* Thread t goes on in its critical section.
LEMMA OwnerStays ==
  ASSUME OwnerInv, NEW t \in Threads, Alone(t), UNCHANGED mtx,
         On(t)' = On(t), Target(t)' = Target(t),
         \/ pc[t] \in OwnLockPcs /\ pc'[t] \in OwnLockPcs
         \/ pc[t] \in SendPcs /\ pc'[t] \in SendPcs
  PROVE  OwnerInv'
<1>1. OwnLockPcs \cap SendPcs = {}
  BY DEF OwnLockPcs, SendPcs
<1>2. \A c \in Conns : mtx'[c] = t => Owns(t, c)'
  BY <1>1 DEF OwnerInv, Owns
<1>. QED
  BY <1>2, OwnersKept

LEMMA OwnerEnters ==
  ASSUME OwnerInv, IInv, NEW t \in Threads, Alone(t), NEW c \in Conns, Lock(c, t),
         pc[t] \notin OwnLockPcs \cup SendPcs, Owns(t, c)'
  PROVE  OwnerInv'
<1>1. \A d \in Conns : mtx'[d] = IF d = c THEN t ELSE mtx[d]
  BY DEF Lock, IInv, TypeOK, ControlTypeOK
<1>2. \A d \in Conns : mtx[d] # t
  BY DEF OwnerInv, Owns
<1>. QED
  BY <1>1, <1>2, OwnersKept

LEMMA OwnerLeaves ==
  ASSUME OwnerInv, IInv, NEW t \in Threads, Alone(t), NEW c \in Conns, Unlock(c),
         \/ pc[t] \in OwnLockPcs /\ On(t) = c
         \/ pc[t] \in SendPcs /\ Target(t) = c
  PROVE  OwnerInv'
<1>1. \A d \in Conns : mtx'[d] = IF d = c THEN NoThread ELSE mtx[d]
  BY DEF Unlock, IInv, TypeOK, ControlTypeOK
<1>2. OwnLockPcs \cap SendPcs = {}
  BY DEF OwnLockPcs, SendPcs
<1>3. \A d \in Conns \ {c} : mtx[d] # t
  BY <1>2 DEF OwnerInv, Owns
<1>. QED
  BY <1>1, <1>3, OwnersKept, ThreadsAssumption

LEMMA ThreadStepAlone ==
  ASSUME IInv, NEW t \in Threads, ThreadStep(t)
  PROVE  Alone(t)
<1>. pc \in [Threads -> Pcs] /\ frame \in [Threads -> Frame]
  BY DEF IInv, TypeOK, ControlTypeOK
<1>1. CASE Begin(t)
  BY <1>1 DEF Begin, Insert, Notify, NotifyEnds, CheckStatus, FirstRead, FirstAppend,
       FirstClear, FirstFailed, FirstReturn, Goto, Return, CallWrite, Alone
<1>2. CASE Write(t)
  BY <1>2 DEF Write, WriteRefused, WriteLock, WriteSend, WriteResend, Goto, WriteReturn,
       Alone
<1>3. CASE Read(t)
  BY <1>3 DEF Read, ReadDisconnected, ReadLock, ReadFinal, ReadPartial, ReadClear, Reread,
       RereadFailed, Goto, Return, CallWrite, Terminate, threadVars, Alone
<1>4. CASE Cleanup(t) \/ Written(t)
  BY <1>4 DEF Cleanup, CleanupErase, CleanupFinish, CleanupDelete, CleanupReturn, Written,
       WriteDone, WriteCount, Goto, Return, Alone
<1>. QED
  BY <1>1, <1>2, <1>3, <1>4 DEF ThreadStep

LEMMA UnlockedOwners ==
  ASSUME OwnerInv, IInv, NEW t \in Threads,
         \/ Begin(t) \/ Written(t) \/ WriteRefused(t) \/ ReadDisconnected(t)
         \/ ReadClear(t) \/ Reread(t) \/ RereadFailed(t)
  PROVE  OwnerInv'
<1>1. UNCHANGED mtx
  BY DEF Begin, Insert, Notify, NotifyEnds, CheckStatus, FirstRead, FirstAppend,
     FirstClear, FirstFailed, FirstReturn, Written, WriteDone, WriteCount,
     WriteRefused, ReadDisconnected, ReadClear, Reread, RereadFailed, Locking
<1>2. Alone(t)
  BY ThreadStepAlone DEF ThreadStep, Write, Read
<1>3. pc[t] \notin OwnLockPcs \cup SendPcs
  BY DEF Begin, Insert, Notify, NotifyEnds, CheckStatus, FirstRead, FirstAppend,
     FirstClear, FirstFailed, FirstReturn, Written, WriteDone, WriteCount,
     WriteRefused, ReadDisconnected, ReadClear, Reread, RereadFailed, Goto,
     Return, CallWrite, WriteReturn, OwnLockPcs, SendPcs
<1>. QED
  BY <1>1, <1>2, <1>3, OwnsNothing

LEMMA WriteOwners ==
  ASSUME OwnerInv, IInv, NEW t \in Threads, WriteLock(t) \/ WriteSend(t) \/ WriteResend(t)
  PROVE  OwnerInv'
<1>1. Alone(t) /\ pc \in [Threads -> Pcs]
  BY ThreadStepAlone DEF ThreadStep, Write, IInv, TypeOK, ControlTypeOK
<1>2. pc[t] \in WritePcs
  BY DEF WriteLock, WriteSend, WriteResend, Goto, WriteReturn, WritePcs
<1>3. PICK c \in Conns : Target(t) = c
  BY <1>2 DEF IInv, Shape, FramesOK
<1>4. CASE WriteLock(t)
  <2>1. /\ pc[t] = "writeLock" /\ pc'[t] = "writeSend" /\ Target(t)' = c
        /\ Lock(c, t)
    BY <1>1, <1>3, <1>4 DEF WriteLock, Goto, Target
  <2>. QED
    BY <1>1, <2>1, OwnerEnters DEF Owns, OwnLockPcs, SendPcs
<1>5. CASE \/ WriteSend(t) /\ Goto(t, "writeSend", "writeResend") /\ UNCHANGED mtx
           \/ (WriteSend(t) \/ WriteResend(t)) /\ Unlock(c)
  <2>1. pc[t] \in SendPcs
    BY <1>5 DEF WriteSend, WriteResend, WriteReturn, SendPcs
  <2>2. CASE Unlock(c)
    BY <1>1, <1>3, <2>1, <2>2, OwnerLeaves
  <2>3. CASE Goto(t, "writeSend", "writeResend") /\ UNCHANGED mtx
    <3>1. pc'[t] = "writeResend" /\ On(t)' = On(t) /\ Target(t)' = Target(t)
      BY <1>1, <2>3 DEF Goto, On, Target
    <3>. QED
      BY <1>1, <2>1, <2>3, <3>1, OwnerStays DEF SendPcs
  <2>. QED  BY <1>5, <2>2, <2>3
<1>. QED
  BY <1>3, <1>4, <1>5 DEF WriteSend, WriteResend

LEMMA ReadOwners ==
  ASSUME OwnerInv, IInv, NEW t \in Threads,
         \/ ReadLock(t) \/ ReadFinal(t) \/ CleanupErase(t) \/ CleanupFinish(t)
         \/ CleanupDelete(t) \/ CleanupReturn(t)
  PROVE  OwnerInv'
<1>1. Alone(t) /\ pc \in [Threads -> Pcs]
  BY ThreadStepAlone DEF ThreadStep, Read, Cleanup, IInv, TypeOK, ControlTypeOK
<1>2. pc[t] \in OwnLockPcs \cup {"readLock"}
  BY DEF ReadLock, ReadFinal, CleanupErase, CleanupFinish, CleanupDelete, CleanupReturn,
     Goto, Return, OwnLockPcs
<1>3. PICK c \in Conns : On(t) = c
  BY <1>2 DEF IInv, Shape, FramesOK, OwnLockPcs
<1>4. CASE ReadLock(t)
  <2>1. PICK to \in {"cleanup", "readLocked"} : Goto(t, "readLock", to) /\ Lock(c, t)
    BY <1>3, <1>4 DEF ReadLock
  <2>2. pc[t] = "readLock" /\ pc'[t] = to /\ On(t)' = c
    BY <1>1, <1>3, <2>1 DEF Goto, On
  <2>. QED
    BY <1>1, <2>1, <2>2, OwnerEnters DEF Owns, OwnLockPcs, SendPcs
<1>5. CASE ReadFinal(t) \/ CleanupReturn(t)
  <2>1. Unlock(c) /\ pc[t] \in OwnLockPcs
    BY <1>3, <1>5 DEF ReadFinal, CleanupReturn, Return, OwnLockPcs
  <2>. QED
    BY <1>1, <1>3, <2>1, OwnerLeaves
<1>6. CASE CleanupErase(t) \/ CleanupFinish(t) \/ CleanupDelete(t)
  <2>1. UNCHANGED mtx
    BY <1>6 DEF CleanupErase, CleanupFinish, CleanupDelete
  <2>2. /\ pc[t] \in OwnLockPcs /\ pc'[t] \in OwnLockPcs
        /\ On(t)' = On(t) /\ Target(t)' = Target(t)
    BY <1>1, <1>6 DEF CleanupErase, CleanupFinish, CleanupDelete, Goto, On, Target,
       OwnLockPcs
  <2>. QED
    BY <1>1, <2>1, <2>2, OwnerStays
<1>. QED  BY <1>4, <1>5, <1>6

LEMMA StartOwners ==
  ASSUME OwnerInv, IInv, NEW t \in Threads, NEW c \in Conns,
         \/ ReadCompletes(t, c) \/ ReadCloses(t, c) \/ ReadFails(t, c)
         \/ OnBeginRequest(t, c) \/ WriteCompletes(t, c)
  PROVE  OwnerInv'
<1>1. UNCHANGED mtx
  BY DEF ReadCompletes, ReadCloses, ReadFails, OnBeginRequest, WriteCompletes
<1>2. PICK to, final, down : Start(t, c, to, final, down)
  BY DEF ReadCompletes, ReadCloses, ReadFails, OnBeginRequest, WriteCompletes
<1>3. Alone(t) /\ pc[t] = "idle"
  BY <1>2 DEF Start, Alone, IInv, TypeOK, ControlTypeOK
<1>. QED
  BY <1>1, <1>3, OwnsNothing DEF OwnLockPcs, SendPcs

LEMMA NextOwners == IInv /\ OwnerInv /\ [Next]_vars => OwnerInv'
<1>. SUFFICES ASSUME IInv, OwnerInv, [Next]_vars PROVE OwnerInv'
  OBVIOUS
<1>1. ASSUME UNCHANGED <<pc, frame, mtx>> PROVE OwnerInv'
  BY <1>1 DEF OwnerInv, Owns, On, Target
<1>2. ASSUME NEW t \in Threads, ThreadStep(t) PROVE OwnerInv'
  <2>1. CASE ReadPartial(t)
    BY <1>1, <2>1 DEF ReadPartial, Terminate, threadVars
  <2>. QED
    BY <1>2, <2>1, UnlockedOwners, WriteOwners, ReadOwners
       DEF ThreadStep, Write, Read, Cleanup
<1>3. ASSUME NEW c \in Conns, PeerSend(c) \/ PeerLeaves(c) \/ BeginRefused(c)
                              \/ WriteEnds(c)
      PROVE  OwnerInv'
  BY <1>1, <1>3 DEF PeerSend, PeerLeaves, BeginRefused, WriteEnds, threadVars
<1>4. ASSUME NEW c \in Conns, NEW t \in Threads,
             \/ ReadCompletes(t, c) \/ ReadCloses(t, c) \/ ReadFails(t, c)
             \/ OnBeginRequest(t, c) \/ WriteCompletes(t, c)
      PROVE  OwnerInv'
  BY <1>4, StartOwners
<1>5. CASE MapBreaks \/ Fault \/ UNCHANGED vars
  BY <1>1, <1>5 DEF MapBreaks, Fault, Terminate, threadVars, vars
<1>. QED
  BY <1>2, <1>3, <1>4, <1>5 DEF Next, Completes

\* The locks cannot end in everyone waiting on everyone: with any number of
\* threads and objects, a thread that holds an object's mutex waits for no
\* mutex, neither another's nor its own, and does not keep one when its
\* callback returns.  lck.unlock() before Write is what makes it so.
THEOREM LocksDoNotNest == Spec => []NoWaitForWaiter
<1>1. Init => OwnerInv
  BY ThreadsAssumption DEF Init, OwnerInv
<1>2. OwnerInv => NoWaitForWaiter
  BY DEF OwnerInv, Owns, NoWaitForWaiter, OwnLockPcs, SendPcs, LockPcs
<1>3. IInv /\ OwnerInv /\ [Next]_vars => OwnerInv'
  BY NextOwners
<1>. QED
  BY <1>1, <1>2, <1>3, Invariance, PTL DEF Spec
=============================================================================
