------------------------- MODULE MyWebSocketSession -------------------------
(***************************************************************************)
(* MyWebSocket implements EchoSession: whatever threads, locks and buffers *)
(* do, each client is told what EchoSession allows, for any connections,   *)
(* any pool of threads and any number of messages.                         *)
(*                                                                         *)
(* Beside IInv of MyWebSocketProofs it takes an invariant of the texts,    *)
(* TextInv: which message each buffer holds, that it was sent and neither  *)
(* it nor a later one was echoed, and how far each thread has come in      *)
(* announcing its connection.  The last section adds NoticeInv: when no    *)
(* write and no insert is lost, two connections cannot have missed each    *)
(* other.                                                                  *)
(***************************************************************************)
EXTENDS MyWebSocketProofs, WellFoundedInduction

\* What was said to c, in the words of EchoSession.
Tells(c, what) == \E i \in 1..Len(accepted[c]) : Says(accepted[c][i]) = what

\* Message m was sent and can be echoed now: earlier ones were echoed, later
\* ones wait.
Due(c, m) ==
  /\ m \in 1..sent[c]
  /\ \A n \in Nat : Tells(c, <<"echo", n>>) => n < m
  /\ \A i \in 1..Len(inbox[c]) : m < inbox[c][i][1]

\* The buffer holds one fragment; when it is final, its message is due.
Holds(c, final) ==
  \E m \in Nat : \E kind \in {"more", "final"} :
    /\ readBuffer[c] = << <<m, kind>> >>
    /\ final <=> kind = "final"
    /\ final => Due(c, m)

Clear(c) == data[c] = <<>> /\ readBuffer[c] = <<>>

\* What Write is called with by those that echo.
Echoes(c, text) ==
  \/ text = <<>> /\ Lost(c)
  \/ \E m \in Nat : text = Whole(m) /\ Due(c, m)

BeforeReadPcs == {"insert", "next", "checkStatus", "firstRead", "reread"}

\* Thread t, which reads from c, finds in the buffers of c what it needs.
Reads(t, c) ==
  /\ pc[t] \in BeforeReadPcs => Clear(c)
  /\ pc[t] = "firstAppend" =>
       data[c] = <<>> /\ \E final \in BOOLEAN : Holds(c, final)
  /\ pc[t] \in {"readLock", "readLocked"} =>
       /\ data[c] = <<>>
       /\ ~frame[t].down =>
            \E final \in BOOLEAN : (frame[t].final <=> final) /\ Holds(c, final)
       /\ frame[t].down =>
            /\ readBuffer[c] = <<>>
            /\ Lost(c) \/ (pc[t] = "readLock" /\ link[c] = "closed")
  /\ pc[t] \in WritePcs /\ frame[t].ret = "next" =>
       Clear(c) /\ frame[t].text = Enter(c)
  /\ pc[t] \in WritePcs /\ frame[t].ret # "next" =>
       /\ Target(t) = c
       /\ \E text \in Text : frame[t].text = text /\ Echoes(c, text)

\* As long as the map is intact, those that were told of c have been passed by
\* the iterator of thread t.
Announces(t, c) ==
  intact => \A d \in Conns : Tells(d, <<"enter", c>>) =>
    /\ pc[t] # "insert"
    /\ pc[t] = "next" => d <= Target(t)
    /\ pc[t] \in WritePcs /\ frame[t].ret = "next" => d < Target(t)

\* Fragments in the order in which they were sent.
Ordered(text) ==
  \A i, j \in 1..Len(text) : i < j =>
    \/ text[i][1] < text[j][1]
    \/ text[i][1] = text[j][1] /\ text[i][2] = "more"

\* Fragments wait in this order, none of a message that was echoed already.
InboxOK(c) ==
  /\ Ordered(inbox[c])
  /\ \A i \in 1..Len(inbox[c]) : /\ inbox[c][i][1] \in 1..sent[c]
                                 /\ inbox[c][i][2] \in {"more", "final"}
  /\ \A n \in Nat : Tells(c, <<"echo", n>>) =>
       n <= sent[c] /\ \A i \in 1..Len(inbox[c]) : n < inbox[c][i][1]

\* IIS reads into empty buffers, and nothing is known of what was not opened.
WaitsOK(c) ==
  /\ readIO[c] # "none" => readIO[c] = "outstanding" /\ Clear(c)
  /\ obj[c] = "none" =>
       Clear(c) /\ link[c] = "up" /\ \A d \in Conns : ~Tells(d, <<"enter", c>>)

TextInv ==
  /\ \A t \in Threads, c \in Conns : On(t) = c => Reads(t, c) /\ Announces(t, c)
  /\ \A c \in Conns : InboxOK(c) /\ WaitsOK(c)

----------------------------------------------------------------------------
(***************************************************************************)
(* What the texts say.                                                     *)
(***************************************************************************)
LEMMA SaysEnter ==
  ASSUME NEW d \in Nat
  PROVE  Says(Enter(d)) = <<"enter", d>>
<1>1. Len(Enter(d)) = 1 /\ Enter(d)[1] = <<d, "enter">>
  BY DEF Enter
<1>2. Enter(d)[1][1] = d /\ Enter(d)[1][2] = "enter"
  BY <1>1
<1>3. IsNotice(Enter(d)) /\ Enter(d) # <<>>
  BY <1>1, <1>2 DEF IsNotice
<1>4. Enter(d) \notin {Whole(d), Split(d)}
  BY <1>1 DEF Whole, Split
<1>. QED
  BY <1>2, <1>3, <1>4 DEF Says

LEMMA SaysNothing == Says(<<>>) = <<"nothing", 0>>
<1>1. ~IsNotice(<<>>)
  BY DEF IsNotice
<1>2. \A m : <<>> \notin {Whole(m), Split(m)}
  BY DEF Whole, Split
<1>. QED
  BY <1>1, <1>2 DEF Says

LEMMA SaysEcho ==
  ASSUME NEW m \in Nat
  PROVE  Says(Whole(m)) = <<"echo", m>>
<1>1. Len(Whole(m)) = 1 /\ Whole(m)[1] = <<m, "final">>
  BY DEF Whole
<1>2. Whole(m)[1][1] = m /\ Whole(m)[1][2] = "final"
  BY <1>1
<1>3. ~IsNotice(Whole(m)) /\ Whole(m) # <<>>
  BY <1>1, <1>2 DEF IsNotice
<1>. QED
  BY <1>2, <1>3 DEF Says

\* A text that is accepted adds what it says, and nothing else.
LEMMA TellsAccepted ==
  ASSUME NEW c \in Conns, accepted \in [Conns -> Seq(Text)], NEW text \in Text,
         accepted'[c] = Append(accepted[c], text), NEW what
  PROVE  Tells(c, what)' <=> Tells(c, what) \/ what = Says(text)
<1>. DEFINE old == accepted[c]
            new == accepted'[c]
<1>1. old \in Seq(Text)
  OBVIOUS
<1>2. /\ new = Append(old, text) /\ Len(new) = Len(old) + 1
      /\ \A i \in 1..Len(old) : new[i] = old[i]
      /\ new[Len(old) + 1] = text
  BY <1>1
<1>3. Len(old) \in Nat
  BY <1>1
<1>4. 1..Len(new) = (1..Len(old)) \cup {Len(old) + 1}
  BY <1>2, <1>3
<1>5. (\E i \in 1..Len(new) : Says(new[i]) = what)
        <=> (\E i \in 1..Len(old) : Says(old[i]) = what) \/ what = Says(text)
  <2>. HIDE DEF old, new
  <2>. QED  BY <1>2, <1>3, <1>4
<1>. QED
  BY <1>5 DEF Tells

LEMMA TellsSame ==
  ASSUME NEW c, accepted'[c] = accepted[c], NEW what
  PROVE  Tells(c, what)' <=> Tells(c, what)
BY DEF Tells

----------------------------------------------------------------------------
(***************************************************************************)
(* What steps do to frames.                                                *)
(***************************************************************************)
LEMMA GotoFrame ==
  ASSUME ControlTypeOK, NEW t \in Threads, NEW from, NEW to, Goto(t, from, to)
  PROVE  Alone(t) /\ pc'[t] = to /\ frame'[t] = frame[t]
BY DEF ControlTypeOK, Goto, Alone

LEMMA ReturnFrame ==
  ASSUME ControlTypeOK, NEW t \in Threads, NEW from, Return(t, from)
  PROVE  Alone(t) /\ pc'[t] = "idle"
BY DEF ControlTypeOK, Return, Alone

LEMMA StartFrame ==
  ASSUME ControlTypeOK, NEW t \in Threads, NEW c \in Conns, NEW to,
         NEW final \in BOOLEAN, NEW down \in BOOLEAN, Start(t, c, to, final, down)
  PROVE  Alone(t) /\ pc[t] = "idle" /\ pc'[t] = to /\ frame'[t].on = c
<1>. DEFINE new == [NoFrame EXCEPT !.on = c, !.final = final, !.down = down]
<1>1. new.on = c
  BY DEF NoFrame
<1>2. frame' = [frame EXCEPT ![t] = new]
  BY DEF Start
<1>. HIDE DEF new
<1>. QED
  BY <1>1, <1>2 DEF ControlTypeOK, Start, Alone

LEMMA CallWriteFrame ==
  ASSUME ControlTypeOK, NEW t \in Threads, NEW from, NEW c, NEW text, NEW ret,
         CallWrite(t, from, c, text, ret)
  PROVE  /\ Alone(t) /\ pc[t] = from /\ pc'[t] = "writeLock"
         /\ frame'[t].on = frame[t].on /\ frame'[t].target = c
         /\ frame'[t].text = text /\ frame'[t].ret = ret
<1>. DEFINE new == [frame[t] EXCEPT !.target = c, !.text = text, !.ret = ret]
<1>1. /\ new.on = frame[t].on /\ new.target = c
      /\ new.text = text /\ new.ret = ret
  BY DEF ControlTypeOK, Frame
<1>2. frame' = [frame EXCEPT ![t] = new]
  BY DEF ControlTypeOK, CallWrite
<1>. HIDE DEF new
<1>. QED
  BY <1>1, <1>2 DEF ControlTypeOK, CallWrite, Alone

LEMMA WriteReturnFrame ==
  ASSUME ControlTypeOK, NEW t \in Threads, NEW from, WriteReturn(t, from)
  PROVE  /\ Alone(t) /\ pc[t] = from /\ pc'[t] = frame[t].ret
         /\ frame'[t].on = frame[t].on
         /\ frame[t].ret = "next" => frame'[t].target = frame[t].target
         /\ frame[t].ret \in {"next", "firstClear", "readClear"}
<1>. DEFINE new == Returned(frame[t])
<1>1. frame[t] \in Frame
  BY DEF ControlTypeOK
<1>2. new.on = frame[t].on /\ (frame[t].ret = "next" => new.target = frame[t].target)
  BY <1>1 DEF Returned, Frame
<1>3. frame' = [frame EXCEPT ![t] = new]
  BY DEF ControlTypeOK, WriteReturn
<1>4. frame[t].ret \in {"next", "firstClear", "readClear"}
  BY <1>1 DEF Frame
<1>. HIDE DEF new
<1>. QED
  BY <1>2, <1>3, <1>4 DEF ControlTypeOK, WriteReturn, Alone

LEMMA NotifyEndsFrame ==
  ASSUME ControlTypeOK, NEW t \in Threads, NotifyEnds(t)
  PROVE  /\ Alone(t) /\ pc[t] = "next" /\ pc'[t] = "checkStatus"
         /\ frame'[t].on = frame[t].on
<1>. DEFINE new == [frame[t] EXCEPT !.target = 0]
<1>1. frame[t] \in Frame
  BY DEF ControlTypeOK
<1>2. new.on = frame[t].on
  BY <1>1 DEF Frame
<1>3. frame' = [frame EXCEPT ![t] = new]
  BY DEF ControlTypeOK, NotifyEnds
<1>. HIDE DEF new
<1>. QED
  BY <1>2, <1>3 DEF ControlTypeOK, NotifyEnds, Alone

----------------------------------------------------------------------------
(***************************************************************************)
(* What a step leaves as it was.                                           *)
(***************************************************************************)
\* What a reader of c relies on.
Keeps(c) ==
  /\ data'[c] = data[c] /\ readBuffer'[c] = readBuffer[c]
  /\ \A m \in Nat : Due(c, m) => Due(c, m)'
  /\ Lost(c) => Lost(c)'
  /\ link[c] = "closed" => link'[c] = "closed"

\* Nobody is told of c.
NoneTold(c) ==
  \A d \in Conns : Tells(d, <<"enter", c>>)' => Tells(d, <<"enter", c>>)

LEMMA Stays ==
  ASSUME NEW u \in Threads, NEW c \in Conns, Reads(u, c), Announces(u, c),
         pc'[u] = pc[u], frame'[u] = frame[u], intact' => intact,
         pc[u] \in ReaderPcs => Keeps(c) /\ NoneTold(c)
  PROVE  Reads(u, c)' /\ Announces(u, c)'
<1>1. On(u)' = On(u) /\ Target(u)' = Target(u)
  BY DEF On, Target
<1>2. CASE pc[u] \notin ReaderPcs
  BY <1>2 DEF Reads, Announces, ReaderPcs, WritePcs, BeforeReadPcs
<1>3. CASE pc[u] \in ReaderPcs
  <2>1. Keeps(c) /\ NoneTold(c)
    BY <1>3
  <2>2. Announces(u, c)'
    BY <1>1, <2>1 DEF Announces, NoneTold
  <2>3. Clear(c) => Clear(c)'
    BY <2>1 DEF Keeps, Clear
  <2>4. \A final : Holds(c, final) => Holds(c, final)'
    BY <2>1 DEF Keeps, Holds
  <2>5. \A text : Echoes(c, text) => Echoes(c, text)'
    BY <2>1 DEF Keeps, Echoes
  <2>6. Reads(u, c)'
    BY <1>1, <2>1, <2>3, <2>4, <2>5 DEF Reads, Keeps
  <2>. QED  BY <2>2, <2>6
<1>. QED  BY <1>2, <1>3

\* Nothing is said to c and nothing arrives from it.
LEMMA SameTexts ==
  ASSUME NEW c \in Conns, accepted'[c] = accepted[c], inbox'[c] = inbox[c],
         sent'[c] = sent[c]
  PROVE  /\ \A what : Tells(c, what)' <=> Tells(c, what)
         /\ \A m \in Nat : Due(c, m)' <=> Due(c, m)
         /\ InboxOK(c)' <=> InboxOK(c)
<1>1. \A what : Tells(c, what)' <=> Tells(c, what)
  BY TellsSame
<1>2. \A m \in Nat : Due(c, m)' <=> Due(c, m)
  BY <1>1 DEF Due
<1>3. InboxOK(c)' <=> InboxOK(c)
  BY <1>1 DEF InboxOK
<1>. QED  BY <1>1, <1>2, <1>3

\* Connections that exist stay, and those that broke stay lost, as does a map.
LinksStay ==
  /\ intact' => intact
  /\ \A c \in Conns :
       /\ Lost(c) => Lost(c)'
       /\ link[c] = "closed" => link'[c] = "closed"
       /\ obj'[c] = "none" => obj[c] = "none" /\ link'[c] = link[c]

\* A step of thread t that neither writes nor takes a fragment, and that
\* changes buffers only of the connection it reads from.
LEMMA LocalStep ==
  ASSUME IInv, TextInv, NEW t \in Threads, Alone(t), LinksStay,
         UNCHANGED <<accepted, inbox, sent, readIO>>,
         \A c \in Conns : \/ data'[c] = data[c] /\ readBuffer'[c] = readBuffer[c]
                          \/ pc[t] \in ReaderPcs /\ On(t) = c,
         \A c \in Conns : On(t)' = c => Reads(t, c)' /\ Announces(t, c)'
  PROVE  TextInv'
<1>1. ASSUME NEW u \in Threads \ {t}, NEW c \in Conns, On(u)' = c
      PROVE  Reads(u, c)' /\ Announces(u, c)'
  <2>1. pc'[u] = pc[u] /\ frame'[u] = frame[u] /\ On(u) = c
    BY <1>1 DEF Alone, On
  <2>2. Reads(u, c) /\ Announces(u, c)
    BY <2>1 DEF TextInv
  <2>3. ASSUME pc[u] \in ReaderPcs
        PROVE  Keeps(c) /\ NoneTold(c)
    <3>1. data'[c] = data[c] /\ readBuffer'[c] = readBuffer[c]
      BY <2>1, <2>3 DEF IInv, Shape, ReadersApart
    <3>2. NoneTold(c)
      BY TellsSame DEF NoneTold
    <3>. QED
      BY <3>1, <3>2, SameTexts DEF Keeps, LinksStay
  <2>. QED
    BY <2>1, <2>2, <2>3, Stays DEF LinksStay
<1>2. ASSUME NEW c \in Conns
      PROVE  InboxOK(c)' /\ WaitsOK(c)'
  <2>1. InboxOK(c) /\ WaitsOK(c)
    BY DEF TextInv
  <2>2. InboxOK(c)'
    BY <2>1, SameTexts
  <2>3. \A d \in Conns : Tells(d, <<"enter", c>>)' => Tells(d, <<"enter", c>>)
    BY TellsSame
  <2>4. CASE data'[c] = data[c] /\ readBuffer'[c] = readBuffer[c]
    BY <2>1, <2>2, <2>3, <2>4 DEF WaitsOK, LinksStay, Clear
  <2>5. CASE pc[t] \in ReaderPcs /\ On(t) = c
    <3>1. readIO[c] = "none" /\ obj[c] = "live"
      BY <2>5 DEF IInv, Shape, ReadersApart, ReadersLive
    <3>. QED
      BY <2>2, <3>1 DEF LinksStay, WaitsOK
  <2>. QED  BY <2>4, <2>5
<1>. QED
  BY <1>1, <1>2 DEF TextInv

----------------------------------------------------------------------------
(***************************************************************************)
(* The steps of a thread that neither write nor take a fragment.           *)
(***************************************************************************)
\* Places in which a thread needs nothing from the buffers.
FreePcs == {"idle", "firstClear", "firstFailed", "firstReturn", "readClear",
            "rereadFailed", "cleanup", "cleanupFinish", "cleanupDelete",
            "cleanupReturn", "writeCb", "writeCount"}

LEMMA NeedsNothing ==
  ASSUME NEW t \in Threads, pc'[t] \in FreePcs, NEW c \in Conns
  PROVE  Reads(t, c)' /\ Announces(t, c)'
BY DEF FreePcs, Reads, Announces, WritePcs, BeforeReadPcs

LEMMA LinksSame == UNCHANGED <<link, obj, intact>> => LinksStay
BY DEF LinksStay, Lost

\* The thread that reads from a connection has no read of its own to cancel.
LEMMA NoReadCancelled ==
  ASSUME IInv, NEW t \in Threads, pc[t] \in ReaderPcs, CancelOutstandingIO(On(t))
  PROVE  readIO' = readIO
BY DEF IInv, TypeOK, ControlTypeOK, Shape, ReadersApart, CancelOutstandingIO

LEMMA ClearsOrFails ==
  ASSUME IInv, TextInv, NEW t \in Threads,
         FirstClear(t) \/ FirstFailed(t) \/ RereadFailed(t)
  PROVE  TextInv'
<1>1. pc[t] \in ReaderPcs
  BY DEF FirstClear, FirstFailed, RereadFailed, Goto, Return, ReaderPcs
<1>2. Alone(t) /\ pc'[t] \in FreePcs
  BY GotoFrame, ReturnFrame DEF IInv, TypeOK, FirstClear, FirstFailed,
         RereadFailed, FreePcs
<1>3. UNCHANGED <<accepted, inbox, sent, readIO, link, obj, intact>>
  BY <1>1, NoReadCancelled DEF FirstClear, FirstFailed, RereadFailed,
         readVars, writeVars, sharedVars
<1>4. \A c \in Conns : \/ data'[c] = data[c] /\ readBuffer'[c] = readBuffer[c]
                       \/ pc[t] \in ReaderPcs /\ On(t) = c
  BY <1>1 DEF IInv, TypeOK, DataTypeOK, FirstClear, FirstFailed, RereadFailed,
         bufferVars
<1>5. \A c \in Conns : Reads(t, c)' /\ Announces(t, c)'
  BY <1>2, NeedsNothing
<1>. QED
  BY <1>2, <1>3, <1>4, <1>5, LinksSame, LocalStep

LEMMA Leaves ==
  ASSUME IInv, TextInv, NEW t \in Threads,
         \/ FirstReturn(t) \/ ReadDisconnected(t) \/ CleanupErase(t)
         \/ CleanupFinish(t) \/ CleanupReturn(t) \/ WriteDone(t) \/ WriteCount(t)
  PROVE  TextInv'
<1>. USE DEF FirstReturn, ReadDisconnected, CleanupErase, CleanupFinish,
             CleanupReturn, WriteDone, WriteCount
<1>1. Alone(t) /\ pc'[t] \in FreePcs
  BY GotoFrame, ReturnFrame DEF IInv, TypeOK, FreePcs
<1>2. UNCHANGED <<accepted, inbox, sent, readIO, link, obj, intact, data, readBuffer>>
  BY DEF readVars, writeVars, bufferVars, sharedVars
<1>3. \A c \in Conns : Reads(t, c)' /\ Announces(t, c)'
  BY <1>1, NeedsNothing
<1>. QED
  <2>. HIDE DEF FirstReturn, ReadDisconnected, CleanupErase, CleanupFinish,
                CleanupReturn, WriteDone, WriteCount
  <2>. QED  BY <1>1, <1>2, <1>3, LinksSame, LocalStep

LEMMA Deletes ==
  ASSUME IInv, TextInv, NEW t \in Threads, CleanupDelete(t)
  PROVE  TextInv'
<1>1. pc[t] = "cleanupDelete" /\ pc[t] \in ReaderPcs /\ On(t) \in Conns
  BY DEF CleanupDelete, Goto, ReaderPcs, CleanupPcs, IInv, Shape, FramesOK
<1>2. Alone(t) /\ pc'[t] \in FreePcs
  BY GotoFrame DEF IInv, TypeOK, CleanupDelete, FreePcs
<1>3. UNCHANGED <<accepted, inbox, sent, readIO, data, readBuffer, intact>>
  BY <1>1, NoReadCancelled DEF CleanupDelete, bufferVars, sharedVars
<1>4. \A c \in Conns :
        /\ link'[c] = IF c = On(t) /\ ~Lost(c) THEN "closed" ELSE link[c]
        /\ obj'[c] = IF c = On(t) THEN "deleted" ELSE obj[c]
  BY <1>1 DEF IInv, TypeOK, ControlTypeOK, CleanupDelete
<1>5. LinksStay
  BY <1>3, <1>4 DEF LinksStay, Lost
<1>6. \A c \in Conns : Reads(t, c)' /\ Announces(t, c)'
  BY <1>2, NeedsNothing
<1>. QED
  BY <1>2, <1>3, <1>5, <1>6, LocalStep

LEMMA TargetIsNat ==
  ASSUME ControlTypeOK, NEW t \in Threads
  PROVE  Target(t) \in Nat
<1>1. frame[t] \in Frame
  BY DEF ControlTypeOK
<1>2. Target(t) \in Conns \cup {0}
  BY <1>1 DEF Frame, Target
<1>3. \A x \in Conns : x \in Nat
  BY ConnsAssumption
<1>. QED
  BY <1>2, <1>3

\* The steps of the announcement.
LEMMA Announcing ==
  ASSUME IInv, TextInv, NEW t \in Threads, Insert(t) \/ NotifyEnds(t) \/ Notify(t)
  PROVE  TextInv'
<1>1. /\ UNCHANGED <<accepted, inbox, sent, readIO, link, obj, intact, data, readBuffer>>
      /\ pc[t] \in {"insert", "next"}
  <2>1. pc[t] \in {"insert", "next"}
    BY DEF Insert, NotifyEnds, Notify, Goto, CallWrite
  <2>. QED
    BY <2>1 DEF Insert, NotifyEnds, Notify, readVars, writeVars, bufferVars, sharedVars
<1>2. PICK c \in Conns : On(t) = c
  BY <1>1 DEF IInv, Shape, FramesOK
<1>3. Reads(t, c) /\ Announces(t, c) /\ Clear(c) /\ Clear(c)'
  BY <1>1, <1>2 DEF TextInv, Reads, BeforeReadPcs, Clear
<1>4. \A d \in Conns : Tells(d, <<"enter", c>>)' <=> Tells(d, <<"enter", c>>)
  BY <1>1, TellsSame
<1>5. CASE Insert(t)
  <2>1. Alone(t) /\ pc[t] = "insert" /\ pc'[t] = "next" /\ On(t)' = c
    BY <1>2, <1>5, GotoFrame DEF IInv, TypeOK, Insert, Goto, On
  <2>2. Reads(t, c)' /\ Announces(t, c)'
    BY <1>1, <1>3, <1>4, <2>1 DEF Reads, Announces, BeforeReadPcs, WritePcs
  <2>. QED
    BY <1>1, <2>1, <2>2, LinksSame, LocalStep
<1>6. CASE NotifyEnds(t)
  <2>1. Alone(t) /\ pc'[t] = "checkStatus" /\ On(t)' = c
    BY <1>2, <1>6, NotifyEndsFrame DEF IInv, TypeOK, On
  <2>2. Reads(t, c)' /\ Announces(t, c)'
    BY <1>3, <2>1 DEF Reads, Announces, BeforeReadPcs, WritePcs
  <2>. QED
    BY <1>1, <2>1, <2>2, LinksSame, LocalStep
<1>7. CASE Notify(t)
  <2>1. PICK e \in NextKey(Target(t)) : CallWrite(t, "next", e, Enter(c), "next")
    BY <1>2, <1>7 DEF Notify
  <2>2. /\ Alone(t) /\ pc[t] = "next" /\ pc'[t] = "writeLock" /\ On(t)' = c
        /\ Target(t)' = e /\ frame'[t].text = Enter(c) /\ frame'[t].ret = "next"
    BY <1>2, <2>1, CallWriteFrame DEF IInv, TypeOK, On, Target
  <2>3. intact => Target(t) \in Nat /\ e \in Nat /\ Target(t) < e
    BY <2>1, TargetIsNat, ConnsAssumption
       DEF NextKey, Later, IInv, TypeOK, ControlTypeOK
  <2>4. Reads(t, c)'
    BY <1>3, <2>2 DEF Reads, BeforeReadPcs, WritePcs
  <2>5. Announces(t, c)'
    BY <1>1, <1>3, <1>4, <2>2, <2>3, ConnsAssumption DEF Announces, WritePcs
  <2>. QED
    BY <1>1, <2>2, <2>4, <2>5, LinksSame, LocalStep
<1>. QED  BY <1>5, <1>6, <1>7

\* Write, as long as its text is not accepted.
LEMMA Offering ==
  ASSUME IInv, TextInv, NEW t \in Threads, pc[t] \in WritePcs,
         NEW from, NEW to \in WritePcs, WriteReturn(t, from) \/ Goto(t, from, to),
         UNCHANGED <<accepted, inbox, sent, readIO, link, obj, intact, data, readBuffer>>
  PROVE  TextInv'
<1>1. PICK c \in Conns : On(t) = c
  BY DEF IInv, Shape, FramesOK, WritePcs
<1>2. Reads(t, c) /\ Announces(t, c)
  BY <1>1 DEF TextInv
<1>3. \A d \in Conns : Tells(d, <<"enter", c>>)' <=> Tells(d, <<"enter", c>>)
  BY TellsSame
<1>4. CASE WriteReturn(t, from)
  <2>1. /\ Alone(t) /\ pc'[t] = frame[t].ret /\ On(t)' = c
        /\ frame[t].ret \in {"next", "firstClear", "readClear"}
        /\ frame[t].ret = "next" => Target(t)' = Target(t)
    BY <1>1, <1>4, WriteReturnFrame DEF IInv, TypeOK, On, Target
  <2>2. Target(t) \in Nat
    BY TargetIsNat DEF IInv, TypeOK
  <2>3. Reads(t, c)' /\ Announces(t, c)'
    <3>1. CASE frame[t].ret = "next"
      <4>1. Clear(c)'
        BY <1>2, <3>1 DEF Reads, WritePcs, Clear
      <4>2. Reads(t, c)'
        BY <2>1, <3>1, <4>1 DEF Reads, BeforeReadPcs, WritePcs
      <4>3. Announces(t, c)'
        BY <1>2, <1>3, <2>1, <2>2, <3>1, ConnsAssumption
           DEF Announces, WritePcs
      <4>. QED  BY <4>2, <4>3
    <3>2. CASE frame[t].ret # "next"
      BY <2>1, <3>2, NeedsNothing DEF FreePcs
    <3>. QED  BY <3>1, <3>2
  <2>. QED
    BY <2>1, <2>3, LinksSame, LocalStep
<1>5. CASE Goto(t, from, to)
  <2>1. Alone(t) /\ pc'[t] = to /\ frame'[t] = frame[t]
    BY <1>5, GotoFrame DEF IInv, TypeOK
  <2>2. On(t)' = c /\ Target(t)' = Target(t)
    BY <1>1, <2>1 DEF On, Target
  <2>3. Clear(c)' <=> Clear(c)
    BY DEF Clear
  <2>4. \A text : Echoes(c, text)' <=> Echoes(c, text)
    BY SameTexts DEF Echoes, Lost
  <2>5. Reads(t, c)'
    BY <1>2, <2>1, <2>2, <2>3, <2>4 DEF Reads, BeforeReadPcs, WritePcs
  <2>6. Announces(t, c)'
    BY <1>2, <1>3, <2>1, <2>2 DEF Announces, WritePcs
  <2>. QED
    BY <2>1, <2>2, <2>5, <2>6, LinksSame, LocalStep
<1>. QED  BY <1>4, <1>5

LEMMA OfferingTexts ==
  ASSUME IInv, TextInv, NEW t \in Threads, WriteRefused(t) \/ WriteLock(t)
  PROVE  TextInv'
<1>1. /\ UNCHANGED <<accepted, inbox, sent, readIO, link, obj, intact, data, readBuffer>>
      /\ pc[t] \in WritePcs
      /\ WriteReturn(t, "writeLock") \/ Goto(t, "writeLock", "writeSend")
  BY DEF WriteRefused, WriteLock, Goto, WriteReturn, readVars, writeVars,
         bufferVars, WritePcs, sharedVars
<1>. QED
  BY <1>1, Offering DEF WritePcs

\* The steps that make the buffers ready for a read.
LEMMA Preparing ==
  ASSUME IInv, TextInv, NEW t \in Threads, CheckStatus(t) \/ ReadClear(t)
  PROVE  TextInv'
<1>1. pc[t] \in {"checkStatus", "readClear"} /\ pc[t] \in ReaderPcs
  BY DEF CheckStatus, ReadClear, Goto, ReaderPcs
<1>2. PICK c \in Conns : On(t) = c
  BY <1>1 DEF IInv, Shape, FramesOK
<1>3. Reads(t, c)
  BY <1>2 DEF TextInv
<1>4. UNCHANGED <<accepted, inbox, sent, link, obj, intact>>
  BY DEF CheckStatus, ReadClear, readVars, writeVars, sharedVars
<1>5. UNCHANGED readIO
  BY <1>1, NoReadCancelled DEF CheckStatus, ReadClear, readVars
<1>6. data'[c] = <<>> /\ readBuffer'[c] = <<>>
  <2>1. CASE CheckStatus(t)
    BY <1>2, <1>3, <2>1 DEF CheckStatus, Goto, Reads, BeforeReadPcs, Clear,
           IInv, TypeOK, DataTypeOK
  <2>2. CASE ReadClear(t)
    BY <1>2, <2>2 DEF ReadClear, IInv, TypeOK, DataTypeOK
  <2>. QED  BY <2>1, <2>2
<1>7. \A d \in Conns : \/ data'[d] = data[d] /\ readBuffer'[d] = readBuffer[d]
                       \/ pc[t] \in ReaderPcs /\ On(t) = d
  BY <1>1 DEF CheckStatus, ReadClear, IInv, TypeOK, DataTypeOK
<1>8. /\ Alone(t) /\ pc'[t] \in {"firstRead", "reread"}
      /\ On(t)' = c
  BY <1>2, GotoFrame DEF CheckStatus, ReadClear, IInv, TypeOK, On
<1>9. Reads(t, c)' /\ Announces(t, c)'
  BY <1>6, <1>8 DEF Reads, Announces, Clear, BeforeReadPcs, WritePcs
<1>. QED
  BY <1>4, <1>5, <1>7, <1>8, <1>9, LinksSame, LocalStep

LEMMA OneFragment ==
  ASSUME NEW c \in Conns, NEW final \in BOOLEAN, Holds(c, final),
         data[c] = <<>>, data'[c] = data[c] \o readBuffer[c],
         UNCHANGED <<accepted, inbox, sent>>
  PROVE  /\ final <=> Head(readBuffer[c])[2] = "final"
         /\ final => \E text \in Text : data'[c] = text /\ Echoes(c, text)'
<1>1. PICK m \in Nat, kind \in {"more", "final"} :
        /\ readBuffer[c] = << <<m, kind>> >>
        /\ final <=> kind = "final"
        /\ final => Due(c, m)
  BY DEF Holds
<1>2. data'[c] = << <<m, kind>> >>
  BY <1>1
<1>3. Head(readBuffer[c])[2] = kind
  BY <1>1
<1>4. ASSUME final
      PROVE  \E text \in Text : data'[c] = text /\ Echoes(c, text)'
  <2>1. data'[c] = Whole(m) /\ Whole(m) \in Text
    BY <1>1, <1>2, <1>4 DEF Whole, Text, Fragment
  <2>2. Due(c, m)'
    BY <1>1, <1>4, SameTexts
  <2>. QED
    BY <2>1, <2>2 DEF Echoes
<1>. QED  BY <1>1, <1>3, <1>4

\* A thread that calls Write to echo has what it needs.
LEMMA CallsEcho ==
  ASSUME NEW t \in Threads, NEW c \in Conns, NEW text \in Text,
         pc'[t] = "writeLock", frame'[t].ret \in {"firstClear", "readClear"},
         frame'[t].target = c, frame'[t].text = text, Echoes(c, text)'
  PROVE  Reads(t, c)' /\ Announces(t, c)'
<1>1. frame'[t].ret # "next" /\ Target(t)' = c
  BY DEF Target
<1>2. Reads(t, c)'
  BY <1>1 DEF Reads, BeforeReadPcs, WritePcs
<1>3. Announces(t, c)'
  BY <1>1 DEF Announces
<1>. QED  BY <1>2, <1>3

LEMMA AppendsFirst ==
  ASSUME IInv, TextInv, NEW t \in Threads, FirstAppend(t)
  PROVE  TextInv'
<1>1. pc[t] = "firstAppend" /\ pc[t] \in ReaderPcs
  BY DEF FirstAppend, ReaderPcs
<1>2. PICK c \in Conns : On(t) = c
  BY <1>1 DEF IInv, Shape, FramesOK
<1>3. data[c] = <<>> /\ \E final \in BOOLEAN : Holds(c, final)
  BY <1>1, <1>2 DEF TextInv, Reads
<1>4. PICK final \in BOOLEAN : Holds(c, final)
  BY <1>3
<1>5. UNCHANGED <<accepted, inbox, sent, link, obj, intact, readIO, readBuffer>>
  BY DEF FirstAppend, readVars, writeVars, sharedVars
<1>6. data' = [data EXCEPT ![c] = data[c] \o readBuffer[c]]
  BY <1>2 DEF FirstAppend
<1>7. /\ data'[c] = data[c] \o readBuffer[c]
      /\ \A d \in Conns \ {c} : data'[d] = data[d]
  BY <1>6 DEF IInv, TypeOK, DataTypeOK
<1>8. /\ final <=> Head(readBuffer[c])[2] = "final"
      /\ final => \E text \in Text : data'[c] = text /\ Echoes(c, text)'
  BY <1>3, <1>4, <1>5, <1>7, OneFragment
<1>9. IF final THEN CallWrite(t, "firstAppend", c, data'[c], "firstClear")
               ELSE Goto(t, "firstAppend", "firstReturn")
  BY <1>2, <1>8 DEF FirstAppend
<1>10. Alone(t) /\ On(t)' = c /\ Reads(t, c)' /\ Announces(t, c)'
  <2>1. CASE final
    <3>1. PICK text \in Text : data'[c] = text /\ Echoes(c, text)'
      BY <1>8, <2>1
    <3>2. CallWrite(t, "firstAppend", c, text, "firstClear")
      BY <1>9, <2>1, <3>1
    <3>3. /\ Alone(t) /\ pc'[t] = "writeLock" /\ frame'[t].on = frame[t].on
          /\ frame'[t].target = c /\ frame'[t].text = text
          /\ frame'[t].ret = "firstClear"
      BY <3>2, CallWriteFrame DEF IInv, TypeOK
    <3>. QED
      BY <1>2, <3>1, <3>3, CallsEcho DEF On
  <2>2. CASE ~final
    <3>1. Alone(t) /\ pc'[t] = "firstReturn" /\ frame'[t] = frame[t]
      BY <1>9, <2>2, GotoFrame DEF IInv, TypeOK
    <3>. QED
      BY <1>2, <3>1, NeedsNothing DEF On, FreePcs
  <2>. QED  BY <2>1, <2>2
<1>. QED
  BY <1>1, <1>2, <1>5, <1>7, <1>10, LinksSame, LocalStep

LEMMA LocksRead ==
  ASSUME IInv, TextInv, NEW t \in Threads, ReadLock(t)
  PROVE  TextInv'
<1>1. pc[t] = "readLock"
  BY DEF ReadLock
<1>2. PICK c \in Conns : On(t) = c
  BY <1>1 DEF IInv, Shape, FramesOK
<1>3. Reads(t, c)
  BY <1>2 DEF TextInv
<1>4. UNCHANGED <<accepted, inbox, sent, link, obj, intact, readIO, data, readBuffer>>
  BY DEF ReadLock, readVars, writeVars, bufferVars, sharedVars
<1>5. PICK to \in {"readLocked", "cleanup"} :
        Goto(t, "readLock", to) /\ (to = "readLocked" /\ frame[t].down => link[c] # "closed")
  <2>1. ASSUME frame[t].down, link[c] = "closed"
        PROVE  Goto(t, "readLock", "cleanup")
    <3>1. CloseStatus(c) = {TRUE}
      BY <2>1 DEF CloseStatus, Lost
    <3>. QED
      BY <1>2, <2>1, <3>1 DEF ReadLock
  <2>2. Goto(t, "readLock", "cleanup") \/ Goto(t, "readLock", "readLocked")
    BY DEF ReadLock
  <2>. QED  BY <2>1, <2>2
<1>6. Alone(t) /\ pc'[t] = to /\ frame'[t] = frame[t] /\ On(t)' = c
  BY <1>2, <1>5, GotoFrame DEF IInv, TypeOK, On
<1>7. Reads(t, c)' /\ Announces(t, c)'
  <2>1. CASE to = "cleanup"
    BY <1>6, <2>1, NeedsNothing DEF FreePcs
  <2>2. CASE to = "readLocked"
    <3>1. \A final : Holds(c, final)' <=> Holds(c, final)
      BY <1>4, SameTexts DEF Holds
    <3>2. Lost(c)' <=> Lost(c)
      BY <1>4 DEF Lost
    <3>3. Reads(t, c)'
      BY <1>1, <1>3, <1>4, <1>5, <1>6, <2>2, <3>1, <3>2
         DEF Reads, BeforeReadPcs, WritePcs
    <3>4. Announces(t, c)'
      BY <1>6, <2>2 DEF Announces, WritePcs
    <3>. QED  BY <3>3, <3>4
  <2>. QED  BY <2>1, <2>2
<1>. QED
  BY <1>4, <1>6, <1>7, LinksSame, LocalStep

LEMMA EchoesRead ==
  ASSUME IInv, TextInv, NEW t \in Threads, ReadFinal(t)
  PROVE  TextInv'
<1>1. pc[t] = "readLocked" /\ frame[t].final /\ pc[t] \in ReaderPcs
  BY DEF ReadFinal, ReaderPcs
<1>2. PICK c \in Conns : On(t) = c
  BY <1>1 DEF IInv, Shape, FramesOK
<1>3. Reads(t, c)
  BY <1>2 DEF TextInv
<1>4. UNCHANGED <<accepted, inbox, sent, link, obj, intact, readIO, readBuffer>>
  BY DEF ReadFinal, readVars, writeVars, sharedVars
<1>5. data' = [data EXCEPT ![c] = data[c] \o readBuffer[c]]
  BY <1>2 DEF ReadFinal
<1>6. /\ data'[c] = data[c] \o readBuffer[c]
      /\ \A d \in Conns \ {c} : data'[d] = data[d]
  BY <1>5 DEF IInv, TypeOK, DataTypeOK
<1>7. PICK text \in Text : data'[c] = text /\ Echoes(c, text)'
  <2>1. data[c] = <<>>
    BY <1>1, <1>3 DEF Reads
  <2>2. CASE frame[t].down
    <3>1. readBuffer[c] = <<>> /\ Lost(c)
      BY <1>1, <1>3, <2>2 DEF Reads
    <3>2. data'[c] = <<>> /\ Lost(c)' /\ <<>> \in Text
      BY <1>4, <1>6, <2>1, <3>1 DEF Lost, Text
    <3>3. Echoes(c, <<>>)'
      BY <3>2 DEF Echoes
    <3>. QED  BY <3>2, <3>3
  <2>3. CASE ~frame[t].down
    <3>1. Holds(c, TRUE)
      <4>1. \E final \in BOOLEAN : (frame[t].final <=> final) /\ Holds(c, final)
        BY <1>1, <1>3, <2>3 DEF Reads
      <4>2. PICK final \in BOOLEAN : (frame[t].final <=> final) /\ Holds(c, final)
        BY <4>1
      <4>3. final
        BY <1>1, <4>2
      <4>. QED  BY <4>2, <4>3 DEF Holds
    <3>. QED
      BY <1>4, <1>6, <2>1, <3>1, OneFragment
  <2>. QED  BY <2>2, <2>3
<1>8. CallWrite(t, "readLocked", c, text, "readClear")
  BY <1>2, <1>7 DEF ReadFinal
<1>9. /\ Alone(t) /\ pc'[t] = "writeLock" /\ frame'[t].on = frame[t].on
      /\ frame'[t].target = c /\ frame'[t].text = text
      /\ frame'[t].ret = "readClear"
  BY <1>8, CallWriteFrame DEF IInv, TypeOK
<1>10. On(t)' = c /\ Reads(t, c)' /\ Announces(t, c)'
  BY <1>2, <1>7, <1>9, CallsEcho DEF On
<1>. QED
  BY <1>1, <1>2, <1>4, <1>6, <1>9, <1>10, LinksSame, LocalStep

----------------------------------------------------------------------------
(***************************************************************************)
(* Fragments are read and connections opened.                              *)
(***************************************************************************)
Rests(u) == pc'[u] = pc[u] /\ frame'[u] = frame[u]

\* A step that concerns connection c, which no thread that rests reads from.
LEMMA OneConnStep ==
  ASSUME IInv, TextInv, NEW c \in Conns, UNCHANGED <<accepted, sent>>, LinksStay,
         \A d \in Conns \ {c} : /\ inbox'[d] = inbox[d] /\ readIO'[d] = readIO[d]
                                /\ data'[d] = data[d]
                                /\ readBuffer'[d] = readBuffer[d],
         InboxOK(c)', WaitsOK(c)',
         \A u \in Threads :
           \/ Rests(u) /\ (pc[u] \in ReaderPcs => On(u) # c)
           \/ \A d \in Conns : On(u)' = d => Reads(u, d)' /\ Announces(u, d)'
  PROVE  TextInv'
<1>1. ASSUME NEW u \in Threads, NEW d \in Conns, On(u)' = d,
             Rests(u), pc[u] \in ReaderPcs => On(u) # c
      PROVE  Reads(u, d)' /\ Announces(u, d)'
  <2>1. On(u) = d
    BY <1>1 DEF Rests, On
  <2>2. Reads(u, d) /\ Announces(u, d)
    BY <2>1 DEF TextInv
  <2>3. ASSUME pc[u] \in ReaderPcs
        PROVE  Keeps(d) /\ NoneTold(d)
    <3>1. d # c
      BY <1>1, <2>1, <2>3
    <3>2. NoneTold(d)
      BY TellsSame DEF NoneTold
    <3>. QED
      BY <3>1, <3>2, SameTexts DEF Keeps, LinksStay
  <2>. QED
    BY <1>1, <2>2, <2>3, Stays DEF Rests, LinksStay
<1>2. ASSUME NEW d \in Conns \ {c}
      PROVE  InboxOK(d)' /\ WaitsOK(d)'
  <2>1. InboxOK(d) /\ WaitsOK(d)
    BY DEF TextInv
  <2>2. InboxOK(d)'
    BY <2>1, SameTexts
  <2>3. \A e \in Conns : Tells(e, <<"enter", d>>)' => Tells(e, <<"enter", d>>)
    BY TellsSame
  <2>4. WaitsOK(d)'
    BY <2>1, <2>3 DEF WaitsOK, LinksStay, Clear
  <2>. QED  BY <2>2, <2>4
<1>. QED
  BY <1>1, <1>2 DEF TextInv

LEMMA OrderedTail ==
  ASSUME NEW text \in Text, text # <<>>, Ordered(text)
  PROVE  /\ Ordered(Tail(text)) /\ Head(text) = text[1] /\ 1 \in 1..Len(text)
         /\ \A i \in 1..Len(Tail(text)) :
              i + 1 \in 1..Len(text) /\ Tail(text)[i] = text[i + 1]
         /\ Head(text)[2] # "more" =>
              \A i \in 1..Len(Tail(text)) : Head(text)[1] < Tail(text)[i][1]
<1>. DEFINE rest == Tail(text)
<1>1. /\ Len(text) \in Nat /\ Len(text) > 0 /\ Len(rest) = Len(text) - 1
      /\ \A i \in 1..Len(rest) : rest[i] = text[i + 1]
      /\ Head(text) = text[1]
  BY DEF Text
<1>2. /\ 1 \in 1..Len(text)
      /\ \A i \in 1..Len(rest) : i + 1 \in 1..Len(text) /\ 1 < i + 1
  BY <1>1
<1>. HIDE DEF rest
<1>3. ASSUME NEW i \in 1..Len(rest), NEW j \in 1..Len(rest), i < j
      PROVE  \/ rest[i][1] < rest[j][1]
             \/ rest[i][1] = rest[j][1] /\ rest[i][2] = "more"
  <2>1. /\ i + 1 \in 1..Len(text) /\ j + 1 \in 1..Len(text) /\ i + 1 < j + 1
        /\ rest[i] = text[i + 1] /\ rest[j] = text[j + 1]
    BY <1>1, <1>2, <1>3
  <2>2. \/ text[i + 1][1] < text[j + 1][1]
        \/ text[i + 1][1] = text[j + 1][1] /\ text[i + 1][2] = "more"
    BY <2>1 DEF Ordered
  <2>. QED  BY <2>1, <2>2
<1>4. ASSUME text[1][2] # "more", NEW i \in 1..Len(rest)
      PROVE  text[1][1] < rest[i][1]
  BY <1>1, <1>2, <1>4 DEF Ordered
<1>5. Ordered(rest)
  BY <1>3 DEF Ordered
<1>. QED
  BY <1>1, <1>2, <1>4, <1>5 DEF rest

\* The first fragment in the inbox is read into the buffer.
LEMMA TakesHead ==
  ASSUME NEW c \in Conns, InboxOK(c), inbox[c] \in Text, inbox[c] # <<>>,
         readBuffer'[c] = <<Head(inbox[c])>>, inbox'[c] = Tail(inbox[c]),
         UNCHANGED <<accepted, sent>>
  PROVE  /\ InboxOK(c)'
         /\ \E final \in BOOLEAN : /\ final <=> Head(inbox[c])[2] = "final"
                                   /\ Holds(c, final)'
<1>1. PICK text \in Text : text = inbox[c] /\ text # <<>>
  OBVIOUS
<1>2. PICK rest : rest = Tail(text) /\ inbox'[c] = rest
  BY <1>1
<1>3. /\ \A i \in 1..Len(text) : /\ text[i][1] \in 1..sent[c]
                                 /\ text[i][2] \in {"more", "final"}
      /\ \A n \in Nat : Tells(c, <<"echo", n>>) =>
           n <= sent[c] /\ \A i \in 1..Len(text) : n < text[i][1]
  BY <1>1 DEF InboxOK
<1>4. /\ Ordered(rest) /\ Head(text) = text[1] /\ 1 \in 1..Len(text)
      /\ \A i \in 1..Len(rest) : i + 1 \in 1..Len(text) /\ rest[i] = text[i + 1]
      /\ Head(text)[2] # "more" => \A i \in 1..Len(rest) : Head(text)[1] < rest[i][1]
  BY <1>1, <1>2, OrderedTail DEF InboxOK
<1>5. PICK m \in 1..sent[c], kind \in {"more", "final"} :
        m = text[1][1] /\ kind = text[1][2]
  BY <1>3, <1>4
<1>6. \A what : Tells(c, what)' <=> Tells(c, what)
  BY TellsSame
<1>7. InboxOK(c)'
  BY <1>2, <1>3, <1>4, <1>6 DEF InboxOK
<1>8. Due(c, m)' \/ kind = "more"
  BY <1>2, <1>3, <1>4, <1>5, <1>6 DEF Due
<1>9. Head(text) = <<m, kind>>
  <2>1. text[1] \in Fragment
    BY <1>1, <1>4 DEF Text
  <2>. QED
    BY <1>4, <1>5, <2>1 DEF Fragment
<1>10. readBuffer'[c] = << <<m, kind>> >> /\ m \in Nat
  BY <1>1, <1>5, <1>9
<1>11. Holds(c, kind = "final")'
  BY <1>5, <1>8, <1>10 DEF Holds
<1>. QED
  BY <1>1, <1>4, <1>5, <1>7, <1>11

\* ReadFragment, called on empty buffers by the thread that reads from c.
LEMMA ReadsFragment ==
  ASSUME IInv, TextInv, NEW t \in Threads, NEW c \in Conns, On(t) = c,
         pc[t] \in {"firstRead", "reread"}, Alone(t),
         NEW answer, ReadFragment(c, answer),
         UNCHANGED <<accepted, sent, link, obj, intact, data>>,
         pc'[t] \in FreePcs \cup {"firstAppend"},
         pc'[t] = "firstAppend" => answer = "sync" /\ On(t)' = c
  PROVE  TextInv'
<1>1. /\ pc[t] \in ReaderPcs /\ readIO[c] = "none" /\ obj[c] = "live"
      /\ \A u \in Threads \ {t} : pc[u] \in ReaderPcs => On(u) # c
  BY DEF ReaderPcs, IInv, Shape, ReadersApart, ReadersLive
<1>2. Clear(c) /\ InboxOK(c)
  BY DEF TextInv, Reads, BeforeReadPcs
<1>3. LinksStay
  BY LinksSame
<1>4. \A u \in Threads \ {t} : Rests(u) /\ (pc[u] \in ReaderPcs => On(u) # c)
  BY <1>1 DEF Alone, Rests
<1>5. CASE answer = "sync"
  <2>1. inbox[c] # <<>>
    BY <1>1, <1>5 DEF ReadFragment, ReadAnswers
  <2>2. /\ readBuffer' = [readBuffer EXCEPT ![c] = <<Head(inbox[c])>>]
        /\ inbox' = [inbox EXCEPT ![c] = Tail(@)]
        /\ readIO' = readIO
    BY <1>5 DEF ReadFragment
  <2>3. /\ readBuffer'[c] = <<Head(inbox[c])>> /\ inbox'[c] = Tail(inbox[c])
        /\ \A d \in Conns \ {c} : inbox'[d] = inbox[d] /\ readBuffer'[d] = readBuffer[d]
        /\ inbox[c] \in Text
    BY <2>2 DEF IInv, TypeOK, DataTypeOK
  <2>4. InboxOK(c)' /\ \E final \in BOOLEAN : Holds(c, final)'
    BY <1>2, <2>1, <2>3, TakesHead
  <2>5. WaitsOK(c)'
    BY <1>1, <2>2 DEF WaitsOK
  <2>6. data'[c] = <<>>
    BY <1>2 DEF Clear
  <2>7. \A d \in Conns : On(t)' = d => Reads(t, d)' /\ Announces(t, d)'
    <3>1. CASE pc'[t] \in FreePcs
      BY <3>1, NeedsNothing
    <3>2. CASE pc'[t] = "firstAppend"
      BY <2>4, <2>6, <3>2 DEF Reads, Announces, BeforeReadPcs, WritePcs
    <3>. QED  BY <3>1, <3>2
  <2>. QED
    BY <1>3, <1>4, <2>2, <2>3, <2>4, <2>5, <2>7, OneConnStep
<1>6. CASE answer # "sync"
  <2>1. \A d \in Conns : Reads(t, d)' /\ Announces(t, d)'
    BY <1>6, NeedsNothing
  <2>2. readBuffer' = readBuffer /\ inbox' = inbox
    BY <1>6 DEF ReadFragment
  <2>3. readIO' = readIO \/ readIO' = [readIO EXCEPT ![c] = "outstanding"]
    BY <1>6 DEF ReadFragment
  <2>4. /\ readIO'[c] \in {"none", "outstanding"}
        /\ \A d \in Conns \ {c} : readIO'[d] = readIO[d]
    BY <1>1, <2>3 DEF IInv, TypeOK, ControlTypeOK
  <2>5. InboxOK(c)'
    BY <1>2, <2>2, SameTexts
  <2>6. WaitsOK(c)'
    BY <1>1, <1>2, <2>2, <2>4 DEF WaitsOK, Clear
  <2>. QED
    BY <1>3, <1>4, <2>1, <2>2, <2>4, <2>5, <2>6, OneConnStep
<1>. QED  BY <1>5, <1>6

LEMMA FirstReadTexts ==
  ASSUME IInv, TextInv, NEW t \in Threads, FirstRead(t)
  PROVE  TextInv'
<1>1. pc[t] = "firstRead" /\ UNCHANGED <<accepted, sent, link, obj, intact, data>>
  BY DEF FirstRead, writeVars, sharedVars
<1>2. PICK c \in Conns : On(t) = c
  BY <1>1 DEF IInv, Shape, FramesOK
<1>3. PICK answer \in ReadAnswers(c), to \in {"firstAppend", "firstFailed", "firstReturn"} :
        /\ ReadFragment(c, answer) /\ Goto(t, "firstRead", to)
        /\ to = "firstAppend" => answer = "sync"
  BY <1>2 DEF FirstRead
<1>4. Alone(t) /\ pc'[t] = to /\ On(t)' = c
  BY <1>2, <1>3, GotoFrame DEF IInv, TypeOK, On
<1>. QED
  BY <1>1, <1>2, <1>3, <1>4, ReadsFragment DEF FreePcs

LEMMA RereadTexts ==
  ASSUME IInv, TextInv, NEW t \in Threads, Reread(t)
  PROVE  TextInv'
<1>1. pc[t] = "reread" /\ UNCHANGED <<accepted, sent, link, obj, intact, data>>
  BY DEF Reread, writeVars, sharedVars
<1>2. PICK c \in Conns : On(t) = c
  BY <1>1 DEF IInv, Shape, FramesOK
<1>3. PICK answer \in ReadAnswers(c) :
        /\ ReadFragment(c, answer)
        /\ Goto(t, "reread", "rereadFailed") \/ Return(t, "reread")
  BY <1>2 DEF Reread
<1>4. Alone(t) /\ pc'[t] \in FreePcs
  BY <1>3, GotoFrame, ReturnFrame DEF IInv, TypeOK, FreePcs
<1>5. pc'[t] # "firstAppend"
  BY <1>4 DEF FreePcs
<1>. QED
  BY <1>1, <1>2, <1>3, <1>4, <1>5, ReadsFragment

\* A read completes, with or without a fragment, or a request begins.
LEMMA ReadCompletesTexts ==
  ASSUME IInv, TextInv, NEW t \in Threads, NEW c \in Conns, ReadCompletes(t, c)
  PROVE  TextInv'
<1>1. PICK final \in BOOLEAN : /\ Start(t, c, "readLock", final, FALSE)
                               /\ final <=> Head(inbox[c])[2] = "final"
  BY DEF ReadCompletes
<1>2. /\ Alone(t) /\ pc'[t] = "readLock" /\ frame'[t].on = c
      /\ ~frame'[t].down /\ (frame'[t].final <=> final)
  <2>1. Start(t, c, "readLock", final, FALSE)
    BY <1>1
  <2>2. ~frame'[t].down /\ (frame'[t].final <=> final)
    BY <2>1 DEF IInv, TypeOK, ControlTypeOK, Start, NoFrame
  <2>3. Alone(t) /\ pc'[t] = "readLock" /\ frame'[t].on = c
    BY <2>1, StartFrame DEF IInv, TypeOK
  <2>. QED  BY <2>2, <2>3
<1>3. readIO[c] = "outstanding" /\ inbox[c] # <<>>
  BY DEF ReadCompletes
<1>4. UNCHANGED <<accepted, sent, link, obj, intact, data>>
  BY DEF ReadCompletes, writeVars, sharedVars
<1>5. /\ readBuffer'[c] = <<Head(inbox[c])>> /\ inbox'[c] = Tail(inbox[c])
      /\ readIO'[c] = "none" /\ inbox[c] \in Text
      /\ \A d \in Conns \ {c} : /\ inbox'[d] = inbox[d] /\ readIO'[d] = readIO[d]
                                /\ readBuffer'[d] = readBuffer[d]
  BY DEF ReadCompletes, IInv, TypeOK, ControlTypeOK, DataTypeOK
<1>6. Clear(c) /\ InboxOK(c)
  BY <1>3 DEF TextInv, WaitsOK
<1>7. InboxOK(c)' /\ Holds(c, final)'
  <2>1. PICK same \in BOOLEAN : /\ same <=> Head(inbox[c])[2] = "final"
                                /\ Holds(c, same)'
    BY <1>3, <1>4, <1>5, <1>6, TakesHead
  <2>2. same = final
    BY <1>1, <2>1
  <2>3. InboxOK(c)'
    BY <1>3, <1>4, <1>5, <1>6, TakesHead
  <2>. QED  BY <2>1, <2>2, <2>3
<1>8. obj[c] = "live" /\ \A u \in Threads : pc[u] \in ReaderPcs => On(u) # c
  BY <1>3 DEF IInv, Shape, UnreadOK, ReadersApart
<1>9. WaitsOK(c)'
  BY <1>4, <1>5, <1>8 DEF WaitsOK
<1>10. data'[c] = <<>>
  BY <1>4, <1>6 DEF Clear
<1>11. \A d \in Conns : On(t)' = d => Reads(t, d)' /\ Announces(t, d)'
  BY <1>2, <1>7, <1>10 DEF Reads, Announces, BeforeReadPcs, WritePcs, On
<1>12. \A u \in Threads \ {t} : Rests(u) /\ (pc[u] \in ReaderPcs => On(u) # c)
  BY <1>2, <1>8 DEF Alone, Rests
<1>. QED
  BY <1>4, <1>5, <1>7, <1>9, <1>11, <1>12, LinksSame, OneConnStep

LEMMA ReadEndsTexts ==
  ASSUME IInv, TextInv, NEW t \in Threads, NEW c \in Conns,
         ReadCloses(t, c) \/ ReadFails(t, c)
  PROVE  TextInv'
<1>1. \E final \in BOOLEAN : Start(t, c, "readLock", final, TRUE)
  BY DEF ReadCloses, ReadFails
<1>2. Alone(t) /\ pc'[t] = "readLock" /\ frame'[t].on = c /\ frame'[t].down
  <2>1. PICK final \in BOOLEAN : Start(t, c, "readLock", final, TRUE)
    BY <1>1
  <2>2. frame'[t].down
    BY <2>1 DEF IInv, TypeOK, ControlTypeOK, Start, NoFrame
  <2>3. Alone(t) /\ pc'[t] = "readLock" /\ frame'[t].on = c
    BY <2>1, StartFrame DEF IInv, TypeOK
  <2>. QED  BY <2>2, <2>3
<1>3. /\ readIO[c] # "none"
      /\ UNCHANGED <<accepted, sent, obj, intact, data, readBuffer, inbox>>
  BY DEF ReadCloses, ReadFails, bufferVars, sharedVars, writeVars
<1>4. /\ obj[c] = "live" /\ readIO[c] = "outstanding" /\ Clear(c) /\ InboxOK(c)
      /\ \A u \in Threads : pc[u] \in ReaderPcs => On(u) # c
  BY <1>3 DEF IInv, Shape, UnreadOK, ReadersApart, TextInv, WaitsOK
<1>5. /\ readIO'[c] = "none"
      /\ \A d \in Conns \ {c} : readIO'[d] = readIO[d] /\ link'[d] = link[d]
  BY DEF ReadCloses, ReadFails, IInv, TypeOK, ControlTypeOK
<1>6. \/ link[c] = "closing" /\ link'[c] = "closed"
      \/ link[c] = "broken" /\ link'[c] = "reset"
  BY <1>4 DEF ReadCloses, ReadFails, IInv, TypeOK, ControlTypeOK
<1>7. LinksStay
  BY <1>3, <1>4, <1>5, <1>6 DEF LinksStay, Lost
<1>8. InboxOK(c)' /\ WaitsOK(c)'
  <2>1. InboxOK(c)'
    BY <1>3, <1>4, SameTexts
  <2>2. WaitsOK(c)'
    BY <1>3, <1>4, <1>5 DEF WaitsOK
  <2>. QED  BY <2>1, <2>2
<1>9. data'[c] = <<>> /\ readBuffer'[c] = <<>>
  BY <1>3, <1>4 DEF Clear
<1>10. Reads(t, c)' /\ Announces(t, c)'
  BY <1>2, <1>6, <1>9 DEF Reads, Announces, BeforeReadPcs, WritePcs, Lost
<1>11. \A d \in Conns : On(t)' = d => d = c
  BY <1>2 DEF On
<1>12. \A u \in Threads \ {t} : Rests(u) /\ (pc[u] \in ReaderPcs => On(u) # c)
  BY <1>2, <1>4 DEF Alone, Rests
<1>. QED
  BY <1>3, <1>5, <1>7, <1>8, <1>10, <1>11, <1>12, OneConnStep

LEMMA BeginTexts ==
  ASSUME IInv, TextInv, NEW t \in Threads, NEW c \in Conns, OnBeginRequest(t, c)
  PROVE  TextInv'
<1>1. /\ obj[c] = "none"
      /\ UNCHANGED <<accepted, sent, data, readBuffer, inbox, link, intact, readIO>>
  BY DEF OnBeginRequest, bufferVars, writeVars, readVars
<1>2. obj'[c] = "live" /\ \A d \in Conns \ {c} : obj'[d] = obj[d]
  BY DEF OnBeginRequest, IInv, TypeOK, ControlTypeOK
<1>3. Alone(t) /\ pc'[t] = "insert" /\ frame'[t].on = c
  BY StartFrame DEF OnBeginRequest, IInv, TypeOK
<1>4. readIO[c] = "none" /\ \A u \in Threads : pc[u] \in ReaderPcs => On(u) # c
  BY <1>1 DEF IInv, Shape, UnreadOK, ReadersLive
<1>5. InboxOK(c) /\ Clear(c) /\ \A d \in Conns : ~Tells(d, <<"enter", c>>)
  BY <1>1 DEF TextInv, WaitsOK
<1>6. InboxOK(c)' /\ WaitsOK(c)'
  <2>1. InboxOK(c)'
    BY <1>1, <1>5, SameTexts
  <2>2. WaitsOK(c)'
    BY <1>1, <1>2, <1>4 DEF WaitsOK
  <2>. QED  BY <2>1, <2>2
<1>7. Clear(c)' /\ \A d \in Conns : ~Tells(d, <<"enter", c>>)'
  <2>1. Clear(c)'
    BY <1>1, <1>5 DEF Clear
  <2>2. \A d \in Conns : ~Tells(d, <<"enter", c>>)'
    BY <1>1, <1>5, TellsSame
  <2>. QED  BY <2>1, <2>2
<1>8. Reads(t, c)' /\ Announces(t, c)'
  BY <1>3, <1>7 DEF Reads, Announces, BeforeReadPcs, WritePcs
<1>9. \A d \in Conns : On(t)' = d => d = c
  BY <1>3 DEF On
<1>10. \A u \in Threads \ {t} : Rests(u) /\ (pc[u] \in ReaderPcs => On(u) # c)
  BY <1>3, <1>4 DEF Alone, Rests
<1>11. LinksStay
  BY <1>1, <1>2 DEF LinksStay, Lost
<1>. QED
  BY <1>1, <1>6, <1>8, <1>9, <1>10, <1>11, OneConnStep

\* What changes neither threads nor texts nor reads.
LEMMA ElsewhereTexts ==
  ASSUME IInv, TextInv, LinksStay,
         UNCHANGED <<pc, frame, accepted, inbox, sent, readIO, data, readBuffer>>
  PROVE  TextInv'
<1>1. ASSUME NEW u \in Threads, NEW c \in Conns, On(u)' = c
      PROVE  Reads(u, c)' /\ Announces(u, c)'
  <2>1. pc'[u] = pc[u] /\ frame'[u] = frame[u] /\ On(u) = c
    BY <1>1 DEF On
  <2>2. Reads(u, c) /\ Announces(u, c)
    BY <2>1 DEF TextInv
  <2>3. NoneTold(c)
    BY TellsSame DEF NoneTold
  <2>4. Keeps(c)
    BY SameTexts DEF Keeps, LinksStay
  <2>. QED
    BY <2>1, <2>2, <2>3, <2>4, Stays DEF LinksStay
<1>2. ASSUME NEW c \in Conns
      PROVE  InboxOK(c)' /\ WaitsOK(c)'
  <2>1. InboxOK(c) /\ WaitsOK(c)
    BY DEF TextInv
  <2>2. InboxOK(c)'
    BY <2>1, SameTexts
  <2>3. \A d \in Conns : Tells(d, <<"enter", c>>)' => Tells(d, <<"enter", c>>)
    BY TellsSame
  <2>4. WaitsOK(c)'
    BY <2>1, <2>3 DEF WaitsOK, LinksStay, Clear
  <2>. QED  BY <2>2, <2>4
<1>. QED
  BY <1>1, <1>2 DEF TextInv

LEMMA OutsideTexts ==
  ASSUME IInv, TextInv, NEW c \in Conns,
         PeerLeaves(c) \/ BeginRefused(c) \/ WriteEnds(c)
  PROVE  TextInv'
<1>1. UNCHANGED <<pc, frame, accepted, inbox, sent, readIO, data, readBuffer, intact>>
  BY DEF PeerLeaves, BeginRefused, WriteEnds, threadVars, bufferVars, sharedVars,
         readVars, writeVars
<1>2. LinksStay
  <2>1. CASE PeerLeaves(c)
    <3>1. /\ obj' = obj /\ obj[c] = "live" /\ link[c] \in {"up", "closing"}
          /\ \A d \in Conns \ {c} : link'[d] = link[d]
      BY <2>1 DEF PeerLeaves, IInv, TypeOK, ControlTypeOK
    <3>. QED
      BY <1>1, <3>1 DEF LinksStay, Lost
  <2>2. CASE BeginRefused(c)
    <3>1. link' = link /\ \A d \in Conns : obj'[d] = "none" => obj[d] = "none"
      BY <2>2 DEF BeginRefused, IInv, TypeOK, ControlTypeOK
    <3>. QED
      BY <1>1, <3>1 DEF LinksStay, Lost
  <2>3. CASE WriteEnds(c)
    BY <1>1, <2>3, LinksSame DEF WriteEnds
  <2>. QED  BY <2>1, <2>2, <2>3
<1>. QED
  BY <1>1, <1>2, ElsewhereTexts

LEMMA WriteCompletesTexts ==
  ASSUME IInv, TextInv, NEW t \in Threads, NEW c \in Conns, WriteCompletes(t, c)
  PROVE  TextInv'
<1>1. UNCHANGED <<accepted, inbox, sent, readIO, link, obj, intact, data, readBuffer>>
  BY DEF WriteCompletes, bufferVars, readVars, writeVars, sharedVars
<1>2. Alone(t) /\ pc'[t] \in FreePcs
  BY StartFrame DEF WriteCompletes, IInv, TypeOK, FreePcs
<1>3. \A d \in Conns : Reads(t, d)' /\ Announces(t, d)'
  BY <1>2, NeedsNothing
<1>. QED
  BY <1>1, <1>2, <1>3, LinksSame, LocalStep

\* The fragments of message k + 1 follow those of messages up to k.
LEMMA OrderedFollow ==
  ASSUME NEW old \in Text, NEW text \in Text, Ordered(old), Ordered(text),
         NEW k \in Nat, \A i \in 1..Len(old) : old[i][1] \in 1..k,
         \A i \in 1..Len(text) : text[i][1] = k + 1
  PROVE  /\ Ordered(old \o text)
         /\ \A i \in 1..Len(old \o text) :
              \/ i \in 1..Len(old) /\ (old \o text)[i] = old[i]
              \/ \E j \in 1..Len(text) : (old \o text)[i] = text[j]
<1>. DEFINE new == old \o text
<1>1. /\ Len(old) \in Nat /\ Len(text) \in Nat /\ Len(new) = Len(old) + Len(text)
      /\ \A i \in 1..Len(new) :
           new[i] = IF i <= Len(old) THEN old[i] ELSE text[i - Len(old)]
  BY ConcatProperties DEF Text
<1>. HIDE DEF new
<1>2. \A i \in 1..Len(new) :
        \/ i \in 1..Len(old) /\ new[i] = old[i]
        \/ i - Len(old) \in 1..Len(text) /\ i > Len(old) /\ new[i] = text[i - Len(old)]
  BY <1>1
<1>3. ASSUME NEW i \in 1..Len(new), NEW j \in 1..Len(new), i < j
      PROVE  \/ new[i][1] < new[j][1]
             \/ new[i][1] = new[j][1] /\ new[i][2] = "more"
  <2>1. CASE j \in 1..Len(old) /\ new[j] = old[j]
    <3>1. i \in 1..Len(old) /\ new[i] = old[i]
      BY <1>1, <1>2, <1>3, <2>1
    <3>2. \/ old[i][1] < old[j][1]
          \/ old[i][1] = old[j][1] /\ old[i][2] = "more"
      BY <1>3, <2>1, <3>1 DEF Ordered
    <3>. QED  BY <2>1, <3>1, <3>2
  <2>2. CASE j - Len(old) \in 1..Len(text) /\ new[j] = text[j - Len(old)]
    <3>1. new[j][1] = k + 1
      BY <2>2
    <3>2. CASE i \in 1..Len(old) /\ new[i] = old[i]
      <4>1. new[i][1] \in 1..k
        BY <3>2
      <4>. QED  BY <3>1, <4>1
    <3>3. CASE i - Len(old) \in 1..Len(text) /\ new[i] = text[i - Len(old)]
      <4>1. i - Len(old) < j - Len(old)
        BY <1>1, <1>3
      <4>2. \/ text[i - Len(old)][1] < text[j - Len(old)][1]
            \/ /\ text[i - Len(old)][1] = text[j - Len(old)][1]
               /\ text[i - Len(old)][2] = "more"
        BY <2>2, <3>3, <4>1 DEF Ordered
      <4>. QED  BY <2>2, <3>3, <4>2
    <3>. QED  BY <1>2, <3>2, <3>3
  <2>. QED  BY <1>2, <2>1, <2>2
<1>4. Ordered(new)
  BY <1>3 DEF Ordered
<1>. QED
  BY <1>2, <1>4 DEF new

LEMMA SentText ==
  ASSUME NEW m \in Nat, NEW text \in {Whole(m), Split(m)}
  PROVE  /\ text \in Text /\ Ordered(text)
         /\ \A i \in 1..Len(text) : text[i][1] = m /\ text[i][2] \in {"more", "final"}
<1>1. CASE text = Whole(m)
  <2>1. text \in Text /\ Len(text) = 1 /\ text[1] = <<m, "final">>
    BY <1>1 DEF Whole, Text, Fragment
  <2>2. \A i \in 1..Len(text) : i = 1
    BY <2>1
  <2>3. text[1][1] = m /\ text[1][2] = "final"
    BY <2>1
  <2>. QED
    BY <2>1, <2>2, <2>3 DEF Ordered
<1>2. CASE text = Split(m)
  <2>1. /\ text \in Text /\ Len(text) = 2
        /\ text[1] = <<m, "more">> /\ text[2] = <<m, "final">>
    BY <1>2 DEF Split, Text, Fragment
  <2>2. \A i \in 1..Len(text) : i = 1 \/ i = 2
    BY <2>1
  <2>3. /\ text[1][1] = m /\ text[1][2] = "more"
        /\ text[2][1] = m /\ text[2][2] = "final"
    BY <2>1
  <2>. QED
    BY <2>1, <2>2, <2>3 DEF Ordered
<1>. QED  BY <1>1, <1>2

LEMMA PeerSendTexts ==
  ASSUME IInv, TextInv, NEW c \in Conns, PeerSend(c)
  PROVE  TextInv'
<1>1. UNCHANGED <<pc, frame, accepted, readIO, data, readBuffer, link, obj, intact>>
  BY DEF PeerSend, threadVars, bufferVars, writeVars, sharedVars
<1>2. PICK k \in Nat : sent[c] = k
  BY DEF IInv, TypeOK, DataTypeOK
<1>3. PICK text \in {Whole(k + 1), Split(k + 1)} :
        inbox' = [inbox EXCEPT ![c] = inbox[c] \o text]
  BY <1>2 DEF PeerSend
<1>4. PICK old \in Text : old = inbox[c]
  BY DEF IInv, TypeOK, DataTypeOK
<1>5. PICK new : new = old \o text
  OBVIOUS
<1>6. /\ sent'[c] = k + 1 /\ inbox'[c] = new
      /\ \A d \in Conns \ {c} : sent'[d] = sent[d] /\ inbox'[d] = inbox[d]
  BY <1>2, <1>3, <1>4, <1>5 DEF PeerSend, IInv, TypeOK, DataTypeOK
<1>7. InboxOK(c)
  BY DEF TextInv
<1>8. /\ text \in Text /\ Ordered(text)
      /\ \A i \in 1..Len(text) : text[i][1] = k + 1 /\ text[i][2] \in {"more", "final"}
  BY <1>2, SentText
<1>9. /\ Ordered(new)
      /\ \A i \in 1..Len(new) : \/ i \in 1..Len(old) /\ new[i] = old[i]
                                \/ \E j \in 1..Len(text) : new[i] = text[j]
  <2>1. Ordered(old) /\ \A i \in 1..Len(old) : old[i][1] \in 1..k
    BY <1>2, <1>4, <1>7 DEF InboxOK
  <2>. QED
    BY <1>5, <1>8, <2>1, OrderedFollow
<1>10. \A what : Tells(c, what)' <=> Tells(c, what)
  BY <1>1, TellsSame
<1>11. InboxOK(c)'
  <2>1. ASSUME NEW i \in 1..Len(new)
        PROVE  /\ new[i][1] \in 1..(k + 1) /\ new[i][2] \in {"more", "final"}
               /\ \A n \in Nat : Tells(c, <<"echo", n>>) => n < new[i][1]
    <3>1. CASE i \in 1..Len(old) /\ new[i] = old[i]
      BY <1>2, <1>4, <1>7, <3>1 DEF InboxOK
    <3>2. CASE \E j \in 1..Len(text) : new[i] = text[j]
      <4>1. new[i][1] = k + 1 /\ new[i][2] \in {"more", "final"}
        BY <1>8, <3>2
      <4>2. \A n \in Nat : Tells(c, <<"echo", n>>) => n <= k
        BY <1>2, <1>7 DEF InboxOK
      <4>. QED  BY <4>1, <4>2
    <3>. QED  BY <1>9, <3>1, <3>2
  <2>2. \A n \in Nat : Tells(c, <<"echo", n>>) => n <= k + 1
    BY <1>2, <1>7 DEF InboxOK
  <2>. QED
    BY <1>6, <1>9, <1>10, <2>1, <2>2 DEF InboxOK
<1>12. ASSUME NEW m \in Nat, Due(c, m)
       PROVE  Due(c, m)'
  <2>1. /\ m \in 1..k /\ \A n \in Nat : Tells(c, <<"echo", n>>) => n < m
        /\ \A i \in 1..Len(old) : m < old[i][1]
    BY <1>2, <1>4, <1>12 DEF Due
  <2>2. \A i \in 1..Len(new) : m < new[i][1]
    BY <1>8, <1>9, <2>1
  <2>. QED
    BY <1>6, <1>10, <2>1, <2>2 DEF Due
<1>13. ASSUME NEW d \in Conns
       PROVE  Keeps(d) /\ NoneTold(d) /\ InboxOK(d)' /\ WaitsOK(d)'
  <2>1. InboxOK(d) /\ WaitsOK(d)
    BY DEF TextInv
  <2>2. NoneTold(d)
    BY <1>1, TellsSame DEF NoneTold
  <2>3. InboxOK(d)' /\ \A m \in Nat : Due(d, m) => Due(d, m)'
    <3>1. CASE d = c
      BY <1>11, <1>12, <3>1
    <3>2. CASE d # c
      BY <1>1, <1>6, <2>1, <3>2, SameTexts
    <3>. QED  BY <3>1, <3>2
  <2>4. Keeps(d)
    BY <1>1, <2>3 DEF Keeps, Lost
  <2>5. \A e \in Conns : Tells(e, <<"enter", d>>)' => Tells(e, <<"enter", d>>)
    BY <1>1, TellsSame
  <2>6. WaitsOK(d)'
    BY <1>1, <2>1, <2>5 DEF WaitsOK, Clear
  <2>. QED  BY <2>2, <2>3, <2>4, <2>6
<1>14. ASSUME NEW u \in Threads, NEW d \in Conns, On(u)' = d
       PROVE  Reads(u, d)' /\ Announces(u, d)'
  <2>1. pc'[u] = pc[u] /\ frame'[u] = frame[u] /\ On(u) = d
    BY <1>1, <1>14 DEF On
  <2>2. Reads(u, d) /\ Announces(u, d)
    BY <2>1 DEF TextInv
  <2>. QED
    BY <1>1, <1>13, <2>1, <2>2, Stays
<1>. QED
  BY <1>13, <1>14 DEF TextInv

----------------------------------------------------------------------------
(***************************************************************************)
(* A text is accepted.                                                     *)
(***************************************************************************)
\* What Write is about to send is a notice that its target was not told, or
\* for the client whose message it answers.
LEMMA Sendable ==
  ASSUME IInv, TextInv, NEW t \in Threads, pc[t] \in SendPcs
  PROVE  \E c, e \in Conns :
           /\ On(t) = c /\ Target(t) = e /\ obj[c] = "live" /\ pc[t] \in ReaderPcs
           /\ obj[e] = "live" /\ indicated[e] = 0
           /\ \/ /\ frame[t].ret = "next" /\ frame[t].text = Enter(c) /\ Clear(c)
                 /\ intact => \A d \in Conns : Tells(d, <<"enter", c>>) => d < e
              \/ /\ frame[t].ret # "next" /\ c = e /\ frame[t].text = <<>> /\ Lost(c)
              \/ /\ frame[t].ret # "next" /\ c = e
                 /\ \E m \in Nat : frame[t].text = Whole(m) /\ Due(c, m)
<1>1. /\ pc[t] \in WritePcs /\ pc[t] \in ReaderPcs /\ obj[On(t)] = "live"
      /\ obj[Target(t)] = "live" /\ indicated[Target(t)] = 0
  BY DEF SendPcs, WritePcs, ReaderPcs, IInv, Shape, ReadersLive, MutexesOK
<1>2. PICK c, e \in Conns : On(t) = c /\ Target(t) = e
  BY <1>1 DEF IInv, Shape, FramesOK, WritePcs
<1>3. Reads(t, c) /\ Announces(t, c)
  BY <1>2 DEF TextInv
<1>4. CASE frame[t].ret = "next"
  BY <1>1, <1>2, <1>3, <1>4 DEF Reads, Announces
<1>5. CASE frame[t].ret # "next"
  <2>1. c = e /\ \E text \in Text : frame[t].text = text /\ Echoes(c, text)
    BY <1>1, <1>2, <1>3, <1>5 DEF Reads
  <2>. QED
    BY <1>1, <1>2, <1>5, <2>1 DEF Echoes
<1>. QED  BY <1>4, <1>5

\* A step that tells a client something, about c or in answer to c.
LEMMA AcceptStep ==
  ASSUME IInv, TextInv, NEW t \in Threads, NEW c \in Conns, On(t) = c,
         pc[t] \in ReaderPcs, obj[c] = "live", Alone(t), On(t)' = c,
         UNCHANGED <<inbox, sent, readIO, link, obj, intact, data, readBuffer>>,
         \A d \in Conns \ {c} : \A n \in Nat :
           Tells(d, <<"echo", n>>)' => Tells(d, <<"echo", n>>),
         \A d \in Conns : \A x \in Conns \ {c} :
           Tells(d, <<"enter", x>>)' => Tells(d, <<"enter", x>>),
         InboxOK(c)', Reads(t, c)', Announces(t, c)'
  PROVE  TextInv'
<1>1. ASSUME NEW d \in Conns \ {c}
      PROVE  Keeps(d) /\ NoneTold(d) /\ InboxOK(d)' /\ WaitsOK(d)'
  <2>1. InboxOK(d) /\ WaitsOK(d)
    BY DEF TextInv
  <2>2. NoneTold(d)
    BY DEF NoneTold
  <2>3. \A m \in Nat : Due(d, m) => Due(d, m)'
    BY DEF Due
  <2>4. Keeps(d)
    BY <2>3 DEF Keeps, Lost
  <2>5. InboxOK(d)'
    BY <2>1 DEF InboxOK
  <2>6. WaitsOK(d)'
    BY <2>1 DEF WaitsOK, Clear
  <2>. QED  BY <2>2, <2>4, <2>5, <2>6
<1>2. ASSUME NEW u \in Threads \ {t}, NEW d \in Conns, On(u)' = d
      PROVE  Reads(u, d)' /\ Announces(u, d)'
  <2>1. pc'[u] = pc[u] /\ frame'[u] = frame[u] /\ On(u) = d
    BY <1>2 DEF Alone, On
  <2>2. Reads(u, d) /\ Announces(u, d)
    BY <2>1 DEF TextInv
  <2>3. pc[u] \in ReaderPcs => d # c
    BY <2>1 DEF IInv, Shape, ReadersApart
  <2>. QED
    BY <1>1, <2>1, <2>2, <2>3, Stays
<1>3. WaitsOK(c)'
  <2>1. readIO[c] = "none"
    BY DEF IInv, Shape, ReadersApart
  <2>. QED
    BY <2>1 DEF WaitsOK
<1>. QED
  BY <1>1, <1>2, <1>3 DEF TextInv

LEMMA Accepts ==
  ASSUME IInv, TextInv, NEW t \in Threads, pc[t] \in SendPcs,
         NEW from, WriteReturn(t, from),
         accepted' = [accepted EXCEPT ![Target(t)] = Append(@, frame[t].text)],
         UNCHANGED <<inbox, sent, readIO, link, obj, intact, data, readBuffer>>
  PROVE  TextInv'
<1>1. PICK c \in Conns, e \in Conns :
        /\ On(t) = c /\ Target(t) = e /\ obj[c] = "live" /\ pc[t] \in ReaderPcs
        /\ \/ /\ frame[t].ret = "next" /\ frame[t].text = Enter(c) /\ Clear(c)
              /\ intact => \A d \in Conns : Tells(d, <<"enter", c>>) => d < e
           \/ /\ frame[t].ret # "next" /\ c = e /\ frame[t].text = <<>> /\ Lost(c)
           \/ /\ frame[t].ret # "next" /\ c = e
              /\ \E m \in Nat : frame[t].text = Whole(m) /\ Due(c, m)
  BY Sendable
<1>2. PICK text \in Text : text = frame[t].text
  <2>1. frame[t] \in Frame
    BY DEF IInv, TypeOK, ControlTypeOK
  <2>. QED  BY <2>1 DEF Frame
<1>3. /\ accepted'[e] = Append(accepted[e], text)
      /\ \A d \in Conns \ {e} : accepted'[d] = accepted[d]
      /\ accepted \in [Conns -> Seq(Text)]
  BY <1>1, <1>2 DEF IInv, TypeOK, DataTypeOK
<1>4. \A what : Tells(e, what)' <=> Tells(e, what) \/ what = Says(text)
  BY <1>2, <1>3, TellsAccepted
<1>5. \A d \in Conns \ {e} : \A what : Tells(d, what)' <=> Tells(d, what)
  BY <1>3, TellsSame
<1>6. /\ Alone(t) /\ pc'[t] = frame[t].ret /\ On(t)' = c
      /\ frame[t].ret \in {"next", "firstClear", "readClear"}
      /\ frame[t].ret = "next" => Target(t)' = e
  BY <1>1, WriteReturnFrame DEF IInv, TypeOK, On, Target
<1>7. InboxOK(c)
  BY DEF TextInv
<1>8. c \in Nat /\ e \in Nat
  BY ConnsAssumption
<1>9. CASE frame[t].ret = "next"
  <2>1. /\ text = Enter(c) /\ Clear(c)
        /\ intact => \A d \in Conns : Tells(d, <<"enter", c>>) => d < e
    BY <1>1, <1>2, <1>9
  <2>2. Says(text) = <<"enter", c>>
    BY <1>8, <2>1, SaysEnter
  <2>3. \A d \in Conns : \A n \in Nat : Tells(d, <<"echo", n>>)' => Tells(d, <<"echo", n>>)
    BY <1>4, <1>5, <2>2
  <2>4. \A d \in Conns : \A x \in Conns \ {c} :
          Tells(d, <<"enter", x>>)' => Tells(d, <<"enter", x>>)
    BY <1>4, <1>5, <2>2
  <2>5. InboxOK(c)'
    BY <1>7, <2>3 DEF InboxOK
  <2>6. intact => \A d \in Conns : Tells(d, <<"enter", c>>)' => d <= e
    BY <1>4, <1>5, <1>8, <2>1, ConnsAssumption
  <2>7. Reads(t, c)'
    BY <1>6, <1>9, <2>1 DEF Reads, Clear, BeforeReadPcs, WritePcs
  <2>8. Announces(t, c)'
    BY <1>6, <1>9, <2>6 DEF Announces, WritePcs
  <2>. QED
    BY <1>1, <1>6, <2>3, <2>4, <2>5, <2>7, <2>8, AcceptStep
<1>10. CASE frame[t].ret # "next"
  <2>1. /\ c = e
        /\ text = <<>> \/ \E m \in Nat : text = Whole(m) /\ Due(c, m)
    BY <1>1, <1>2, <1>10
  <2>2. \A d \in Conns \ {c} : \A n \in Nat :
          Tells(d, <<"echo", n>>)' => Tells(d, <<"echo", n>>)
    BY <1>5, <2>1
  <2>3. Reads(t, c)' /\ Announces(t, c)'
    BY <1>6, <1>10, NeedsNothing DEF FreePcs
  <2>4. CASE text = <<>>
    <3>1. Says(text) = <<"nothing", 0>>
      BY <2>4, SaysNothing
    <3>2. \A d \in Conns : \A x \in Conns \ {c} :
            Tells(d, <<"enter", x>>)' => Tells(d, <<"enter", x>>)
      BY <1>4, <1>5, <3>1
    <3>3. \A n \in Nat : Tells(c, <<"echo", n>>)' => Tells(c, <<"echo", n>>)
      BY <1>4, <2>1, <3>1
    <3>4. InboxOK(c)'
      BY <1>7, <3>3 DEF InboxOK
    <3>. QED
      BY <1>1, <1>6, <2>2, <2>3, <3>2, <3>4, AcceptStep
  <2>5. CASE \E m \in Nat : text = Whole(m) /\ Due(c, m)
    <3>1. PICK m \in Nat : text = Whole(m) /\ Due(c, m)
      BY <2>5
    <3>2. Says(text) = <<"echo", m>>
      BY <3>1, SaysEcho
    <3>3. \A d \in Conns : \A x \in Conns \ {c} :
            Tells(d, <<"enter", x>>)' => Tells(d, <<"enter", x>>)
      BY <1>4, <1>5, <3>2
    <3>4. \A n \in Nat : Tells(c, <<"echo", n>>)' => Tells(c, <<"echo", n>>) \/ n = m
      BY <1>4, <2>1, <3>2
    <3>5. m <= sent[c] /\ \A i \in 1..Len(inbox[c]) : m < inbox[c][i][1]
      BY <3>1 DEF Due
    <3>6. InboxOK(c)'
      BY <1>7, <3>4, <3>5 DEF InboxOK
    <3>. QED
      BY <1>1, <1>6, <2>2, <2>3, <3>3, <3>6, AcceptStep
  <2>. QED  BY <2>1, <2>4, <2>5
<1>. QED  BY <1>9, <1>10

\* What a write does to the texts: it is accepted and Write returns, or not.
LEMMA SendEffect ==
  ASSUME NEW t \in Threads, WriteSend(t) \/ WriteResend(t)
  PROVE  /\ pc[t] \in SendPcs
         /\ UNCHANGED <<inbox, sent, readIO, link, obj, intact, data, readBuffer, indicated>>
         /\ \E from \in SendPcs :
              \/ /\ WriteReturn(t, from)
                 /\ accepted' = [accepted EXCEPT ![Target(t)] = Append(@, frame[t].text)]
              \/ /\ UNCHANGED accepted
                 /\ WriteReturn(t, from) \/ Goto(t, from, "writeResend")
<1>1. CASE WriteSend(t)
  <2>1. PICK answer \in WriteAnswers(Target(t)) :
          /\ WriteFragment(Target(t), frame[t].text, answer)
          /\ IF answer = "ERROR_IO_PENDING"
               THEN Goto(t, "writeSend", "writeResend")
               ELSE WriteReturn(t, "writeSend")
    BY <1>1 DEF WriteSend
  <2>2. /\ pc[t] \in SendPcs
        /\ UNCHANGED <<inbox, sent, readIO, link, obj, intact, data, readBuffer, indicated>>
    BY <1>1 DEF WriteSend, readVars, SendPcs, sharedVars
  <2>. QED
    BY <2>1, <2>2 DEF WriteFragment, SendPcs
<1>2. CASE WriteResend(t)
  <2>1. PICK answer \in WriteAnswers(Target(t)) :
          WriteFragment(Target(t), frame[t].text, answer)
    BY <1>2 DEF WriteResend
  <2>2. /\ WriteReturn(t, "writeResend") /\ pc[t] \in SendPcs
        /\ UNCHANGED <<inbox, sent, readIO, link, obj, intact, data, readBuffer, indicated>>
    BY <1>2 DEF WriteResend, WriteReturn, readVars, bufferVars, SendPcs, sharedVars
  <2>. QED
    BY <2>1, <2>2 DEF WriteFragment, SendPcs
<1>. QED  BY <1>1, <1>2

LEMMA SendTexts ==
  ASSUME IInv, TextInv, NEW t \in Threads, WriteSend(t) \/ WriteResend(t)
  PROVE  TextInv'
<1>1. /\ pc[t] \in SendPcs /\ pc[t] \in WritePcs /\ "writeResend" \in WritePcs
      /\ UNCHANGED <<inbox, sent, readIO, link, obj, intact, data, readBuffer>>
  BY SendEffect DEF SendPcs, WritePcs, sharedVars
<1>2. PICK from \in SendPcs :
        \/ /\ WriteReturn(t, from)
           /\ accepted' = [accepted EXCEPT ![Target(t)] = Append(@, frame[t].text)]
        \/ /\ UNCHANGED accepted
           /\ WriteReturn(t, from) \/ Goto(t, from, "writeResend")
  BY SendEffect
<1>. QED
  BY <1>1, <1>2, Accepts, Offering

----------------------------------------------------------------------------
(***************************************************************************)
(* TextInv is inductive, together with IInv.                               *)
(***************************************************************************)
LEMMA InitTextInv == Init => TextInv
<1>. SUFFICES ASSUME Init PROVE TextInv
  OBVIOUS
<1>1. \A c \in Conns : \A what : ~Tells(c, what)
  BY DEF Init, Tells
<1>2. ASSUME NEW t \in Threads, NEW c \in Conns
      PROVE  Reads(t, c) /\ Announces(t, c)
  BY DEF Init, Reads, Announces, BeforeReadPcs, WritePcs
<1>3. ASSUME NEW c \in Conns
      PROVE  InboxOK(c) /\ WaitsOK(c)
  <2>1. inbox[c] = <<>> /\ readIO[c] = "none" /\ Clear(c) /\ link[c] = "up"
    BY DEF Init, Clear
  <2>. QED
    BY <1>1, <2>1 DEF InboxOK, Ordered, WaitsOK
<1>. QED
  BY <1>2, <1>3 DEF TextInv

LEMMA MapBreaksTexts ==
  ASSUME IInv, TextInv, MapBreaks
  PROVE  TextInv'
<1>1. /\ UNCHANGED <<pc, frame, accepted, inbox, sent, readIO, data, readBuffer, link, obj>>
      /\ intact' => intact
  BY DEF MapBreaks, threadVars, bufferVars, readVars, writeVars
<1>2. LinksStay
  BY <1>1 DEF LinksStay, Lost
<1>. QED
  BY <1>1, <1>2, ElsewhereTexts

LEMMA TerminateTexts ==
  ASSUME IInv, TextInv, Terminate
  PROVE  TextInv'
<1>1. UNCHANGED <<pc, frame, accepted, inbox, sent, readIO, data, readBuffer, link, obj, intact>>
  BY DEF Terminate, threadVars, bufferVars, sharedVars, readVars, writeVars
<1>. QED
  BY <1>1, LinksSame, ElsewhereTexts

LEMMA ThreadStepTexts ==
  ASSUME IInv, TextInv, NEW t \in Threads, ThreadStep(t)
  PROVE  TextInv'
<1>1. CASE Begin(t)
  BY <1>1, Announcing, Preparing, FirstReadTexts, AppendsFirst, ClearsOrFails,
     Leaves DEF Begin
<1>2. CASE Write(t)
  BY <1>2, OfferingTexts, SendTexts DEF Write
<1>3. CASE Read(t)
  BY <1>3, Leaves, LocksRead, EchoesRead, TerminateTexts, Preparing,
     RereadTexts, ClearsOrFails DEF Read, ReadPartial
<1>4. CASE Cleanup(t)
  BY <1>4, Leaves, Deletes DEF Cleanup
<1>5. CASE Written(t)
  BY <1>5, Leaves DEF Written
<1>. QED
  BY <1>1, <1>2, <1>3, <1>4, <1>5 DEF ThreadStep

LEMMA NextTextInv == IInv /\ TextInv /\ [Next]_vars => TextInv'
<1>. SUFFICES ASSUME IInv, TextInv, [Next]_vars PROVE TextInv'
  OBVIOUS
<1>1. CASE UNCHANGED vars
  <2>1. UNCHANGED <<pc, frame, accepted, inbox, sent, readIO, data, readBuffer, link, obj, intact>>
    BY <1>1 DEF vars
  <2>. QED
    BY <2>1, LinksSame, ElsewhereTexts
<1>2. ASSUME NEW t \in Threads, ThreadStep(t) PROVE TextInv'
  BY <1>2, ThreadStepTexts
<1>3. ASSUME NEW c \in Conns, PeerSend(c) \/ PeerLeaves(c) \/ BeginRefused(c)
                              \/ WriteEnds(c)
      PROVE  TextInv'
  BY <1>3, PeerSendTexts, OutsideTexts
<1>4. ASSUME NEW c \in Conns, NEW t \in Threads,
             \/ ReadCompletes(t, c) \/ ReadCloses(t, c) \/ ReadFails(t, c)
             \/ OnBeginRequest(t, c) \/ WriteCompletes(t, c)
      PROVE  TextInv'
  BY <1>4, ReadCompletesTexts, ReadEndsTexts, BeginTexts, WriteCompletesTexts
<1>5. CASE MapBreaks \/ Fault
  BY <1>5, MapBreaksTexts, TerminateTexts DEF Fault
<1>. QED
  BY <1>1, <1>2, <1>3, <1>4, <1>5 DEF Next, Completes

LEMMA TextInvariance == Spec => [](IInv /\ TextInv)
BY InitIInv, NextIInv, InitTextInv, NextTextInv, PTL DEF Spec

----------------------------------------------------------------------------
(***************************************************************************)
(* The refinement.                                                         *)
(***************************************************************************)
ToldTo(text) == [i \in 1..Len(text) |-> Says(text[i])]
LEMMA ToldLength ==
  ASSUME NEW said \in Seq(Text)
  PROVE  /\ Len(ToldTo(said)) = Len(said)
         /\ \A i \in 1..Len(said) : ToldTo(said)[i] = Says(said[i])
<1>. DEFINE n == Len(said)
            S == {Says(x) : x \in Text}
            told == ToldTo(said)
<1>1. n \in Nat /\ \A i \in 1..n : said[i] \in Text
  OBVIOUS
<1>2. told \in [1..n -> S]
  BY <1>1 DEF ToldTo
<1>3. Len(told) = n
  <2>. HIDE DEF told, S
  <2>. QED  BY <1>1, <1>2
<1>. QED
  BY <1>3 DEF ToldTo

LEMMA ToldAppend ==
  ASSUME NEW said \in Seq(Text), NEW text \in Text
  PROVE  ToldTo(Append(said, text)) = Append(ToldTo(said), Says(text))
<1>. DEFINE n == Len(said)
            S == {Says(x) : x \in Text}
            old == ToldTo(said)
            new == ToldTo(Append(said, text))
            app == Append(old, Says(text))
<1>1. /\ n \in Nat /\ Len(Append(said, text)) = n + 1
      /\ \A i \in 1..n : Append(said, text)[i] = said[i] /\ said[i] \in Text
      /\ Append(said, text)[n + 1] = text
  OBVIOUS
<1>2. old \in [1..n -> S] /\ Says(text) \in S
  BY <1>1 DEF ToldTo
<1>3. old \in Seq(S) /\ Len(old) = n
  BY <1>1, <1>2
<1>4. /\ app \in Seq(S) /\ Len(app) = n + 1 /\ app[n + 1] = Says(text)
      /\ \A i \in 1..n : app[i] = old[i]
  <2>. HIDE DEF old, S
  <2>. QED  BY <1>2, <1>3
<1>5. new \in [1..(n + 1) -> S]
  <2>1. \A i \in 1..(n + 1) : i \in 1..n \/ i = n + 1
    BY <1>1
  <2>2. \A i \in 1..(n + 1) : Says(Append(said, text)[i]) \in S
    BY <1>1, <2>1
  <2>. HIDE DEF S
  <2>. QED  BY <1>1, <2>2 DEF ToldTo
<1>6. new \in Seq(S) /\ Len(new) = n + 1
  <2>. HIDE DEF new, S
  <2>. QED  BY <1>1, <1>5
<1>7. \A i \in 1..(n + 1) : new[i] = app[i]
  <2>1. \A i \in 1..(n + 1) : i \in 1..n \/ i = n + 1
    BY <1>1
  <2>2. \A i \in 1..n : old[i] = Says(said[i])
    BY DEF ToldTo
  <2>3. \A i \in 1..(n + 1) : new[i] = Says(Append(said, text)[i])
    BY <1>1 DEF ToldTo
  <2>. HIDE DEF old, new, app, n
  <2>. QED  BY <1>1, <1>4, <2>1, <2>2, <2>3
<1>8. new = app
  <2>1. \A s, t \in Seq(S) :
          Len(s) = Len(t) /\ (\A i \in 1..Len(s) : s[i] = t[i]) => s = t
    BY SeqEqual
  <2>. HIDE DEF new, app, S, n
  <2>. QED  BY <1>4, <1>6, <1>7, <2>1
<1>. QED  BY <1>8

LEMMA LifeValues ==
  ASSUME NEW c \in Conns, ControlTypeOK
  PROVE  /\ obj[c] = "none" => Life(c) = "new"
         /\ obj[c] # "none" => Life(c) # "new"
         /\ obj[c] = "refused" => Life(c) = "done"
         /\ obj[c] # "none" /\ indicated[c] > 0 => Life(c) = "done"
         /\ obj[c] = "live" /\ indicated[c] = 0 /\ Lost(c) => Life(c) = "lost"
         /\ obj[c] = "live" /\ indicated[c] = 0 /\ ~Lost(c) => Life(c) = "open"
<1>1. obj[c] \in {"none", "refused", "live", "deleted"} /\ indicated[c] \in Nat
  BY DEF ControlTypeOK
<1>2. Lost(c) \in BOOLEAN
  BY DEF Lost
<1>. HIDE DEF Lost
<1>. QED
  BY <1>1, <1>2 DEF Life

LEMMA LifeSame ==
  ASSUME NEW c \in Conns, obj'[c] = obj[c], indicated'[c] = indicated[c],
         Lost(c)' <=> Lost(c)
  PROVE  Life(c)' = Life(c)
BY DEF Life, Lost

\* A step that changes neither the life of a connection nor its texts.
LEMMA Stutters ==
  ASSUME UNCHANGED <<sent, accepted, intact>>, \A c \in Conns : Life(c)' = Life(c)
  PROVE  UNCHANGED Session!vars
BY DEF Session!vars

LEMMA StuttersQuietly ==
  ASSUME UNCHANGED <<sent, accepted, obj, indicated, link, intact>>
  PROVE  UNCHANGED Session!vars
<1>1. \A c \in Conns : Life(c)' = Life(c)
  BY LifeSame DEF Lost
<1>. QED  BY <1>1, Stutters

LEMMA InitSession == Init => Session!Init
<1>. SUFFICES ASSUME Init PROVE Session!Init
  OBVIOUS
<1>1. \A c \in Conns : Life(c) = "new"
  BY DEF Init, Life
<1>2. \A c \in Conns : [i \in 1..Len(accepted[c]) |-> Says(accepted[c][i])] = <<>>
  BY DEF Init
<1>. QED
  BY <1>1, <1>2 DEF Session!Init, Init

\* What Session sees is changed by one step of EchoSession, or not at all.
SessionStep == Session!Next \/ UNCHANGED Session!vars

LEMMA LifeMoves ==
  ASSUME NEW c \in Conns, NEW to, Life(c)' = to,
         \A d \in Conns \ {c} : Life(d)' = Life(d)
  PROVE  [d \in Conns |-> Life(d)]' = [[d \in Conns |-> Life(d)] EXCEPT ![c] = to]
OBVIOUS

LEMMA OpensSession ==
  ASSUME IInv, TextInv, NEW t \in Threads, NEW c \in Conns, OnBeginRequest(t, c)
  PROVE  SessionStep
<1>1. /\ obj[c] = "none" /\ UNCHANGED <<accepted, sent, link, indicated, intact>>
      /\ obj'[c] = "live" /\ \A d \in Conns \ {c} : obj'[d] = obj[d]
  BY DEF OnBeginRequest, writeVars, sharedVars, IInv, TypeOK, ControlTypeOK
<1>2. link[c] = "up" /\ indicated[c] = 0
  BY <1>1 DEF TextInv, WaitsOK, IInv, Shape, ConnsOK
<1>3. Life(c) = "new" /\ Life(c)' = "open"
  BY <1>1, <1>2 DEF Life, Lost
<1>4. \A d \in Conns \ {c} : Life(d)' = Life(d)
  BY <1>1, LifeSame DEF Lost
<1>5. Session!Open(c)
  BY <1>1, <1>3, <1>4, LifeMoves DEF Session!Open
<1>. QED
  BY <1>5 DEF SessionStep, Session!Next

LEMMA FinishesSession ==
  ASSUME IInv, NEW c \in Conns, Life(c) # "done", Life(c)' = "done",
         \A d \in Conns \ {c} : Life(d)' = Life(d), UNCHANGED <<accepted, sent, intact>>
  PROVE  SessionStep
<1>1. Session!Finish(c)
  BY LifeMoves DEF Session!Finish
<1>. QED
  BY <1>1 DEF SessionStep, Session!Next

LEMMA RefusesSession ==
  ASSUME IInv, NEW c \in Conns, BeginRefused(c)
  PROVE  SessionStep
<1>1. /\ obj[c] = "none" /\ UNCHANGED <<accepted, sent, link, indicated, intact>>
      /\ obj'[c] = "refused" /\ \A d \in Conns \ {c} : obj'[d] = obj[d]
  BY DEF BeginRefused, writeVars, sharedVars, IInv, TypeOK, ControlTypeOK
<1>2. Life(c) # "done" /\ Life(c)' = "done"
  BY <1>1 DEF Life
<1>3. \A d \in Conns \ {c} : Life(d)' = Life(d)
  BY <1>1, LifeSame DEF Lost
<1>. QED
  BY <1>1, <1>2, <1>3, FinishesSession

LEMMA CleansSession ==
  ASSUME IInv, NEW t \in Threads, CleanupFinish(t)
  PROVE  SessionStep
<1>1. pc[t] = "cleanupFinish" /\ UNCHANGED <<accepted, sent, link, obj, intact>>
  BY DEF CleanupFinish, Goto, writeVars, sharedVars
<1>2. PICK c \in Conns : On(t) = c /\ obj[c] = "live" /\ pc[t] \in ReaderPcs
  BY <1>1 DEF IInv, Shape, FramesOK, ReadersLive, ReaderPcs, CleanupPcs
<1>3. /\ indicated'[c] = indicated[c] + 1 /\ indicated[c] \in Nat
      /\ \A d \in Conns \ {c} : indicated'[d] = indicated[d]
  BY <1>2 DEF CleanupFinish, IInv, TypeOK, ControlTypeOK
<1>4. indicated[c] = 0
  BY <1>1, <1>2 DEF IInv, Shape, ConnsOK, ReadersApart, ReaderPcs, CleanupPcs
<1>5. Life(c) # "done" /\ Life(c)' = "done"
  BY <1>1, <1>2, <1>3, <1>4 DEF Life
<1>6. \A d \in Conns \ {c} : Life(d)' = Life(d)
  BY <1>1, <1>3, LifeSame DEF Lost
<1>. QED
  BY <1>1, <1>5, <1>6, FinishesSession

LEMMA SendsInSession ==
  ASSUME IInv, NEW c \in Conns, PeerSend(c)
  PROVE  SessionStep
<1>1. /\ obj[c] = "live" /\ UNCHANGED <<accepted, link, obj, indicated, intact>>
      /\ sent' = [sent EXCEPT ![c] = sent[c] + 1]
  BY DEF PeerSend, writeVars, sharedVars
<1>2. Life(c) # "new"
  BY <1>1, LifeValues DEF IInv, TypeOK
<1>3. \A d \in Conns : Life(d)' = Life(d)
  BY <1>1, LifeSame DEF Lost
<1>4. Session!Send(c)
  BY <1>1, <1>2, <1>3 DEF Session!Send
<1>. QED
  BY <1>4 DEF SessionStep, Session!Next

LEMMA LosesSession ==
  ASSUME IInv, NEW c \in Conns, PeerLeaves(c)
  PROVE  SessionStep
<1>1. /\ obj[c] = "live" /\ UNCHANGED <<accepted, sent, obj, indicated, intact>>
      /\ link[c] \in {"up", "closing"} /\ link'[c] \in {"closing", "broken"}
      /\ \A d \in Conns \ {c} : link'[d] = link[d]
  BY DEF PeerLeaves, writeVars, sharedVars, IInv, TypeOK, ControlTypeOK
<1>2. \A d \in Conns \ {c} : Life(d)' = Life(d)
  BY <1>1, LifeSame DEF Lost
<1>3. CASE Life(c)' = Life(c)
  BY <1>1, <1>2, <1>3, Stutters DEF SessionStep
<1>4. CASE Life(c)' # Life(c)
  <2>1. Life(c) = "open" /\ Life(c)' = "lost"
    BY <1>1, <1>4 DEF Life, Lost
  <2>2. Session!Lose(c)
    BY <1>1, <1>2, <2>1, LifeMoves DEF Session!Lose
  <2>. QED
    BY <2>2 DEF SessionStep, Session!Next
<1>. QED  BY <1>3, <1>4

LEMMA ReportsLoss ==
  ASSUME IInv, TextInv, NEW t \in Threads, NEW c \in Conns,
         ReadCloses(t, c) \/ ReadFails(t, c)
  PROVE  SessionStep
<1>1. UNCHANGED <<accepted, sent, obj, indicated, intact>>
  BY DEF ReadCloses, ReadFails, writeVars, sharedVars
<1>2. readIO[c] # "none" /\ readIO[c] # "aborted"
  BY DEF ReadCloses, ReadFails, TextInv, WaitsOK
<1>3. \A d \in Conns : Lost(d)' <=> Lost(d)
  BY <1>2 DEF ReadCloses, ReadFails, Lost, IInv, TypeOK, ControlTypeOK
<1>4. \A d \in Conns : Life(d)' = Life(d)
  BY <1>1, <1>3, LifeSame
<1>. QED
  BY <1>1, <1>4, Stutters DEF SessionStep

LEMMA DeletesSession ==
  ASSUME IInv, NEW t \in Threads, CleanupDelete(t)
  PROVE  SessionStep
<1>1. pc[t] = "cleanupDelete" /\ UNCHANGED <<accepted, sent, indicated, intact>>
  BY DEF CleanupDelete, Goto, sharedVars
<1>2. PICK c \in Conns : On(t) = c /\ obj[c] = "live" /\ indicated[c] = 1
  BY <1>1 DEF IInv, Shape, FramesOK, ReadersLive, StagesOK, ReaderPcs,
         CleanupPcs
<1>3. /\ obj'[c] = "deleted"
      /\ \A d \in Conns \ {c} : obj'[d] = obj[d] /\ link'[d] = link[d]
  BY <1>2 DEF CleanupDelete, IInv, TypeOK, ControlTypeOK
<1>4. Life(c) = "done" /\ Life(c)' = "done"
  BY <1>1, <1>2, <1>3 DEF Life
<1>5. \A d \in Conns \ {c} : Life(d)' = Life(d)
  BY <1>1, <1>3, LifeSame DEF Lost
<1>. QED
  BY <1>1, <1>4, <1>5, Stutters DEF SessionStep

\* A text is accepted: a notice, an echo or, on a lost connection, nothing.
LEMMA TellsSession ==
  ASSUME IInv, TextInv, NEW t \in Threads, WriteSend(t) \/ WriteResend(t),
         accepted' = [accepted EXCEPT ![Target(t)] = Append(@, frame[t].text)]
  PROVE  SessionStep
<1>1. pc[t] \in SendPcs /\ UNCHANGED <<sent, link, obj, indicated, intact>>
  BY SendEffect
<1>2. PICK c \in Conns, e \in Conns :
        /\ Target(t) = e /\ obj[c] = "live" /\ obj[e] = "live" /\ indicated[e] = 0
        /\ \/ /\ frame[t].text = Enter(c)
              /\ intact => \A d \in Conns : Tells(d, <<"enter", c>>) => d < e
           \/ c = e /\ frame[t].text = <<>> /\ Lost(c)
           \/ c = e /\ \E m \in Nat : frame[t].text = Whole(m) /\ Due(c, m)
  BY <1>1, Sendable
<1>3. PICK text \in Text : text = frame[t].text
  <2>1. frame[t] \in Frame
    BY DEF IInv, TypeOK, ControlTypeOK
  <2>. QED  BY <2>1 DEF Frame
<1>. DEFINE told  == [d \in Conns |-> ToldTo(accepted[d])]
            Tell(what) == told' = [told EXCEPT ![e] = Append(@, what)]
<1>4. Tell(Says(text))
  <2>1. /\ accepted'[e] = Append(accepted[e], text) /\ accepted[e] \in Seq(Text)
        /\ \A d \in Conns \ {e} : accepted'[d] = accepted[d]
    BY <1>2, <1>3 DEF IInv, TypeOK, DataTypeOK
  <2>2. ToldTo(accepted'[e]) = Append(ToldTo(accepted[e]), Says(text))
    BY <2>1, ToldAppend
  <2>3. \A d \in Conns \ {e} : ToldTo(accepted'[d]) = ToldTo(accepted[d])
    BY <2>1
  <2>4. told' = [d \in Conns |-> ToldTo(accepted'[d])]
    OBVIOUS
  <2>5. told[e] = ToldTo(accepted[e])
    OBVIOUS
  <2>6. \A d \in Conns \ {e} : told[d] = ToldTo(accepted[d])
    OBVIOUS
  <2>7. told = [d \in Conns |-> told[d]]
    OBVIOUS
  <2>. HIDE DEF told
  <2>. QED  BY <2>2, <2>3, <2>4, <2>5, <2>6, <2>7
<1>5. Life(e) \in {"open", "lost"} /\ (Lost(e) => Life(e) = "lost") /\ Life(c) # "new"
  BY <1>2, LifeValues DEF IInv, TypeOK
<1>6. \A d \in Conns : Life(d)' = Life(d)
  BY <1>1, LifeSame DEF Lost
<1>7. \A what : Tell(what) => Session!Tell(e, what)
  BY <1>1, <1>5, <1>6 DEF Session!Tell, ToldTo
<1>. HIDE DEF Tell
<1>8. c \in Nat /\ sent[e] \in Nat
  BY ConnsAssumption DEF IInv, TypeOK, DataTypeOK
<1>9. /\ Len(told[e]) = Len(accepted[e])
       /\ \A i \in 1..Len(accepted[e]) : told[e][i] = Says(accepted[e][i])
  BY ToldLength DEF IInv, TypeOK, DataTypeOK
<1>10. \A what : (\E i \in 1..Len(told[e]) : told[e][i] = what) => Tells(e, what)
  BY <1>9 DEF Tells
<1>11. CASE text = Enter(c) /\ (intact => \A d \in Conns : Tells(d, <<"enter", c>>) => d < e)
  <2>1. Session!Tell(e, <<"enter", c>>)
    BY <1>4, <1>7, <1>8, <1>11, SaysEnter
  <2>2. intact => ~Tells(e, <<"enter", c>>)
    BY <1>11, ConnsAssumption
  <2>3. Session!Enter(e, c)
    BY <1>5, <1>10, <2>1, <2>2 DEF Session!Enter, ToldTo
  <2>. QED
    BY <2>3 DEF SessionStep, Session!Next
<1>12. CASE text = <<>> /\ Lost(e)
  <2>1. Session!Nothing(e)
    BY <1>4, <1>5, <1>7, <1>12, SaysNothing DEF Session!Nothing
  <2>. QED
    BY <2>1 DEF SessionStep, Session!Next
<1>13. CASE \E m \in Nat : text = Whole(m) /\ Due(e, m)
  <2>1. PICK m \in Nat : text = Whole(m) /\ Due(e, m)
    BY <1>13
  <2>2. Session!Tell(e, <<"echo", m>>)
    BY <1>4, <1>7, <2>1, SaysEcho
  <2>3. m \in 1..sent[e] /\ \A n \in Nat : Tells(e, <<"echo", n>>) => n < m
    BY <2>1 DEF Due
  <2>4. \A n \in Session!Echoed(e) : n < m
    <3>1. \A n \in Session!Echoed(e) :
            n \in 1..sent[e] /\ \E i \in 1..Len(told[e]) : told[e][i] = <<"echo", n>>
      BY DEF Session!Echoed, ToldTo
    <3>. HIDE DEF told
    <3>2. ASSUME NEW n \in Session!Echoed(e)
          PROVE  n < m
      <4>1. n \in Nat
        BY <1>8, <3>1
      <4>2. Tells(e, <<"echo", n>>)
        BY <1>10, <3>1
      <4>. QED  BY <2>3, <4>1, <4>2
    <3>. QED  BY <3>2
  <2>5. Session!Echo(e, m)
    BY <2>2, <2>4 DEF Session!Echo
  <2>. QED
    BY <2>3, <2>5 DEF SessionStep, Session!Next
<1>. QED
  BY <1>2, <1>3, <1>11, <1>12, <1>13

LEMMA ThreadStepSession ==
  ASSUME IInv, TextInv, NEW t \in Threads, ThreadStep(t)
  PROVE  SessionStep
<1>1. CASE WriteSend(t) \/ WriteResend(t)
  <2>1. UNCHANGED <<sent, link, obj, indicated, intact>>
    BY <1>1, SendEffect
  <2>2. CASE UNCHANGED accepted
    BY <2>1, <2>2, StuttersQuietly DEF SessionStep
  <2>3. CASE accepted' = [accepted EXCEPT ![Target(t)] = Append(@, frame[t].text)]
    BY <1>1, <2>3, TellsSession
  <2>. QED
    BY <1>1, <2>2, <2>3, SendEffect
<1>2. CASE CleanupFinish(t) \/ CleanupDelete(t)
  BY <1>2, CleansSession, DeletesSession
<1>3. CASE /\ ~WriteSend(t) /\ ~WriteResend(t)
           /\ ~CleanupFinish(t) /\ ~CleanupDelete(t)
  <2>1. UNCHANGED <<sent, accepted, obj, indicated, link, intact>>
    BY <1>3 DEF ThreadStep, Begin, Write, Read, Cleanup, Written, Insert,
           Notify, NotifyEnds, CheckStatus, FirstRead, FirstAppend, FirstClear,
           FirstFailed, FirstReturn, WriteRefused, WriteLock, ReadDisconnected,
           ReadLock, ReadFinal, ReadPartial, Terminate, ReadClear, Reread,
           RereadFailed, CleanupErase, CleanupReturn, WriteDone, WriteCount,
           writeVars, sharedVars
  <2>. QED
    BY <2>1, StuttersQuietly DEF SessionStep
<1>. QED  BY <1>1, <1>2, <1>3

LEMMA NextSession == IInv /\ TextInv /\ [Next]_vars => SessionStep
<1>. SUFFICES ASSUME IInv, TextInv, [Next]_vars PROVE SessionStep
  OBVIOUS
<1>1. CASE UNCHANGED vars
  <2>1. UNCHANGED <<sent, accepted, obj, indicated, link, intact>>
    BY <1>1 DEF vars
  <2>. QED
    BY <2>1, StuttersQuietly DEF SessionStep
<1>2. ASSUME NEW t \in Threads, ThreadStep(t) PROVE SessionStep
  BY <1>2, ThreadStepSession
<1>3. ASSUME NEW c \in Conns, PeerSend(c) \/ PeerLeaves(c) \/ BeginRefused(c)
      PROVE  SessionStep
  BY <1>3, SendsInSession, LosesSession, RefusesSession
<1>4. ASSUME NEW c \in Conns, WriteEnds(c) \/ \E t \in Threads :
                                ReadCompletes(t, c) \/ WriteCompletes(t, c)
      PROVE  SessionStep
  <2>1. UNCHANGED <<sent, accepted, obj, indicated, link, intact>>
    BY <1>4 DEF WriteEnds, ReadCompletes, WriteCompletes, writeVars, sharedVars
  <2>. QED
    BY <2>1, StuttersQuietly DEF SessionStep
<1>5. ASSUME NEW c \in Conns, NEW t \in Threads,
             ReadCloses(t, c) \/ ReadFails(t, c) \/ OnBeginRequest(t, c)
      PROVE  SessionStep
  BY <1>5, ReportsLoss, OpensSession
<1>6. CASE MapBreaks
  <2>1. /\ intact = TRUE /\ intact' = FALSE
        /\ UNCHANGED <<sent, accepted, obj, indicated, link>>
    BY <1>6 DEF MapBreaks, writeVars, IInv, TypeOK, ControlTypeOK
  <2>2. \A c \in Conns : Life(c)' = Life(c)
    BY <2>1, LifeSame DEF Lost
  <2>3. Session!LoseOrder
    BY <2>1, <2>2 DEF Session!LoseOrder
  <2>. QED
    BY <2>3 DEF SessionStep, Session!Next
<1>7. CASE Fault
  <2>1. UNCHANGED <<sent, accepted, obj, indicated, link, intact>>
    BY <1>7 DEF Fault, Terminate, writeVars, sharedVars
  <2>. QED
    BY <2>1, StuttersQuietly DEF SessionStep
<1>. QED
  BY <1>1, <1>2, <1>3, <1>4, <1>5, <1>6, <1>7 DEF Next, Completes

\* Whatever the pool threads, the locks, the shared buffers and the network
\* do, MyWebSocket keeps the promise of EchoSession: a client is sent one
\* whole message of its own at a time, in the order in which it sent them and
\* none twice, the notice of a connection at most once (unless two accesses to
\* the map met: then only of connections that were made), nothing after its
\* request is finished, and an empty text only when the connection broke.
THEOREM ImplementsEchoSession == Spec => EchoService
<1>1. Init => Session!Init
  BY InitSession
<1>2. IInv /\ TextInv /\ [Next]_vars =>
        [Session!vars' # Session!vars => Session!Next]_(Session!vars)
  BY NextSession DEF SessionStep
<1>. QED
  BY <1>1, <1>2, TextInvariance, PTL DEF Spec, EchoService, Session!Spec

----------------------------------------------------------------------------
(***************************************************************************)
(* The order in which a client hears the echoes.                           *)
(***************************************************************************)
Said(c, i) == Says(accepted[c][i])

\* Of two echoes the later one is of a later message, and a notice comes once
\* unless the map broke.
InOrder(c) ==
  \A i, j \in 1..Len(accepted[c]) : i < j =>
    /\ \A m, n \in Nat : Said(c, i) = <<"echo", m>> /\ Said(c, j) = <<"echo", n>> => m < n
    /\ intact => \A d \in Conns :
         ~(Said(c, i) = <<"enter", d>> /\ Said(c, j) = <<"enter", d>>)

OnlySent(c) == \A n \in Nat : Tells(c, <<"echo", n>>) => n <= sent[c]

HeardInOrder == \A c \in Conns : InOrder(c) /\ OnlySent(c)

LEMMA AcceptedChanges ==
  ASSUME [Next]_vars
  PROVE  /\ intact' => intact
         /\ \/ UNCHANGED accepted
            \/ \E t \in Threads :
                 /\ pc[t] \in SendPcs
                 /\ accepted' = [accepted EXCEPT ![Target(t)] = Append(@, frame[t].text)]
<1>1. ASSUME NEW t \in Threads, WriteSend(t) \/ WriteResend(t)
      PROVE  /\ UNCHANGED intact
             /\ \/ UNCHANGED accepted
                \/ /\ pc[t] \in SendPcs
                   /\ accepted' = [accepted EXCEPT ![Target(t)] = Append(@, frame[t].text)]
  BY <1>1, SendEffect
<1>2. ASSUME NEW t \in Threads, ThreadStep(t), ~WriteSend(t), ~WriteResend(t)
      PROVE  UNCHANGED <<accepted, intact>>
  BY <1>2 DEF ThreadStep, Begin, Write, Read, Cleanup, Written, Insert, Notify,
       NotifyEnds, CheckStatus, FirstRead, FirstAppend, FirstClear, FirstFailed,
       FirstReturn, WriteRefused, WriteLock, ReadDisconnected, ReadLock, ReadFinal,
       ReadPartial, Terminate, ReadClear, Reread, RereadFailed, CleanupErase,
       CleanupFinish, CleanupDelete, CleanupReturn, WriteDone, WriteCount, writeVars,
       sharedVars
<1>3. ASSUME NEW c \in Conns,
             \/ PeerSend(c) \/ PeerLeaves(c) \/ BeginRefused(c) \/ WriteEnds(c)
             \/ \E t \in Threads : \/ ReadCompletes(t, c) \/ ReadCloses(t, c)
                                   \/ ReadFails(t, c) \/ OnBeginRequest(t, c)
                                   \/ WriteCompletes(t, c)
      PROVE  UNCHANGED <<accepted, intact>>
  BY <1>3 DEF PeerSend, PeerLeaves, BeginRefused, WriteEnds, ReadCompletes,
       ReadCloses, ReadFails, OnBeginRequest, WriteCompletes, writeVars, sharedVars
<1>4. ASSUME MapBreaks \/ Fault \/ UNCHANGED vars
      PROVE  UNCHANGED accepted /\ (intact' => intact)
  BY <1>4 DEF MapBreaks, Fault, Terminate, writeVars, sharedVars, vars
<1>. QED
  BY <1>1, <1>2, <1>3, <1>4 DEF Next, Completes

\* Where two places of an extended sequence lie: the earlier one in what was
\* there, the later one there too or at the element that was added.
LEMMA AppendPlaces ==
  ASSUME NEW S, NEW old \in Seq(S), NEW e \in S,
         NEW i \in 1..Len(Append(old, e)), NEW j \in 1..Len(Append(old, e)), i < j
  PROVE  /\ i \in 1..Len(old) /\ Append(old, e)[i] = old[i]
         /\ \/ j \in 1..Len(old) /\ Append(old, e)[j] = old[j]
            \/ Append(old, e)[j] = e
<1>1. Len(old) \in Nat /\ Len(Append(old, e)) = Len(old) + 1
  OBVIOUS
<1>2. i \in 1..Len(old)
  BY <1>1
<1>3. j \in 1..Len(old) \/ j = Len(old) + 1
  BY <1>1
<1>. QED
  BY <1>1, <1>2, <1>3

\* The text that is added is new among what was said.
LEMMA OrderAppends ==
  ASSUME NEW e \in Conns, InOrder(e), accepted \in [Conns -> Seq(Text)],
         NEW text \in Text, accepted'[e] = Append(accepted[e], text),
         \A m, n \in Nat : Tells(e, <<"echo", m>>) /\ Says(text) = <<"echo", n>> => m < n,
         intact' => /\ intact
                    /\ \A d \in Conns :
                         Says(text) = <<"enter", d>> => ~Tells(e, <<"enter", d>>)
  PROVE  InOrder(e)'
<1>. DEFINE old == accepted[e]
            new == accepted'[e]
<1>1. old \in Seq(Text) /\ Len(old) \in Nat
  OBVIOUS
<1>2. new = Append(old, text)
  OBVIOUS
<1>3. ASSUME NEW i \in 1..Len(new), NEW j \in 1..Len(new), i < j
      PROVE  /\ i \in 1..Len(old) /\ new[i] = old[i]
             /\ \/ j \in 1..Len(old) /\ new[j] = old[j]
                \/ new[j] = text
  <2>. HIDE DEF old, new
  <2>1. i \in 1..Len(Append(old, text)) /\ j \in 1..Len(Append(old, text))
    BY <1>2, <1>3
  <2>2. /\ i \in 1..Len(old) /\ Append(old, text)[i] = old[i]
        /\ \/ j \in 1..Len(old) /\ Append(old, text)[j] = old[j]
           \/ Append(old, text)[j] = text
    BY ONLY <1>1, <1>3, <2>1, AppendPlaces
  <2>. QED  BY <1>2, <2>2
<1>4. ASSUME NEW i \in 1..Len(new), NEW j \in 1..Len(new), i < j
      PROVE  /\ \A m, n \in Nat : Says(new[i]) = <<"echo", m>> /\ Says(new[j]) = <<"echo", n>> => m < n
             /\ intact' => \A d \in Conns :
                  ~(Says(new[i]) = <<"enter", d>> /\ Says(new[j]) = <<"enter", d>>)
  <2>1. CASE new[j] = text
    <3>1. \A what : Says(new[i]) = what => Tells(e, what)
      BY <1>3, <1>4 DEF Tells
    <3>2. ASSUME intact', NEW d \in Conns
          PROVE  ~(Says(new[i]) = <<"enter", d>> /\ Says(text) = <<"enter", d>>)
      BY <3>1, <3>2
    <3>3. \A m, n \in Nat : Says(new[i]) = <<"echo", m>> /\ Says(text) = <<"echo", n>> => m < n
      BY <3>1
    <3>. QED
      <4>. HIDE DEF old, new
      <4>. QED  BY <2>1, <3>2, <3>3
  <2>2. CASE j \in 1..Len(old) /\ new[j] = old[j]
    <3>1. i \in 1..Len(old) /\ new[i] = old[i]
      BY <1>3, <1>4
    <3>. QED
      BY <1>4, <2>2, <3>1 DEF InOrder, Said
  <2>. QED  BY <1>3, <1>4, <2>1, <2>2
<1>. QED
  BY <1>4 DEF InOrder, Said

LEMMA NextInOrder ==
  ASSUME IInv, TextInv, \A c \in Conns : InOrder(c), [Next]_vars
  PROVE  \A c \in Conns : InOrder(c)'
<1>. intact' => intact
  BY AcceptedChanges
<1>1. CASE UNCHANGED accepted
  <2>1. ASSUME NEW c \in Conns PROVE InOrder(c)'
    <3>1. accepted'[c] = accepted[c] /\ InOrder(c)
      BY <1>1
    <3>. QED
      BY <3>1 DEF InOrder, Said
  <2>. QED  BY <2>1
<1>2. ASSUME NEW t \in Threads, pc[t] \in SendPcs,
             accepted' = [accepted EXCEPT ![Target(t)] = Append(@, frame[t].text)]
      PROVE  \A c \in Conns : InOrder(c)'
  <2>1. PICK c, e \in Conns :
          /\ Target(t) = e
          /\ \/ /\ frame[t].text = Enter(c)
                /\ intact => \A d \in Conns : Tells(d, <<"enter", c>>) => d < e
             \/ frame[t].text = <<>>
             \/ /\ c = e
                /\ \E m \in Nat : frame[t].text = Whole(m) /\ Due(c, m)
    BY <1>2, Sendable
  <2>2. PICK text \in Text : frame[t].text = text
    <3>1. frame[t] \in Frame
      BY DEF IInv, TypeOK, ControlTypeOK
    <3>. QED
      BY <3>1 DEF Frame
  <2>3. accepted \in [Conns -> Seq(Text)]
    BY DEF IInv, TypeOK, DataTypeOK
  <2>4. /\ accepted'[e] = Append(accepted[e], text)
        /\ \A d \in Conns \ {e} : accepted'[d] = accepted[d]
    BY <1>2, <2>1, <2>2, <2>3
  <2>5. c \in Nat /\ e \in Nat
    BY ConnsAssumption
  <2>6. /\ \A m, n \in Nat : Tells(e, <<"echo", m>>) /\ Says(text) = <<"echo", n>> => m < n
        /\ intact => \A d \in Conns :
             Says(text) = <<"enter", d>> => ~Tells(e, <<"enter", d>>)
    <3>1. CASE text = Enter(c) /\ (intact => \A d \in Conns : Tells(d, <<"enter", c>>) => d < e)
      <4>1. Says(text) = <<"enter", c>>
        BY <2>5, <3>1, SaysEnter
      <4>2. intact => ~Tells(e, <<"enter", c>>)
        BY <2>5, <3>1
      <4>. QED
        BY <4>1, <4>2
    <3>2. CASE text = <<>>
      BY <3>2, SaysNothing
    <3>3. CASE \E m \in Nat : text = Whole(m) /\ Due(e, m)
      <4>1. PICK m \in Nat : text = Whole(m) /\ Due(e, m)
        BY <3>3
      <4>2. Says(text) = <<"echo", m>>
        BY <4>1, SaysEcho
      <4>3. \A n \in Nat : Tells(e, <<"echo", n>>) => n < m
        BY <4>1 DEF Due
      <4>. QED
        BY <4>2, <4>3
    <3>. QED
      BY <2>1, <2>2, <3>1, <3>2, <3>3
  <2>7. InOrder(e)'
    BY <2>3, <2>4, <2>6, OrderAppends
  <2>8. ASSUME NEW d \in Conns \ {e} PROVE InOrder(d)'
    <3>1. accepted'[d] = accepted[d] /\ InOrder(d)
      BY <2>4
    <3>. QED
      BY <3>1 DEF InOrder, Said
  <2>. QED  BY <2>7, <2>8
<1>. QED
  BY <1>1, <1>2, AcceptedChanges

\* What a client hears, however callbacks, writers and fragments interleave:
\* echoes only of messages it has sent, each once and in the order in which
\* it sent them, and no notice twice unless two accesses to the map met.
THEOREM EchoesInOrder == Spec => []HeardInOrder
<1>. DEFINE Orderly == \A c \in Conns : InOrder(c)
<1>1. Init => Orderly
  BY DEF Init, InOrder
<1>2. IInv /\ TextInv /\ Orderly /\ [Next]_vars => Orderly'
  BY NextInOrder
<1>3. TextInv /\ Orderly => HeardInOrder
  BY DEF TextInv, InboxOK, OnlySent, HeardInOrder
<1>. QED
  BY <1>1, <1>2, <1>3, TextInvariance, PTL DEF Spec

----------------------------------------------------------------------------
(***************************************************************************)
(* NoticeReachesOne.  As long as all links are up and the map is intact,   *)
(* the registry only grows, and an iterator that has passed a key has told *)
(* its connection.                                                         *)
(***************************************************************************)
Undisturbed == intact /\ \A c \in Conns : link[c] = "up"

\* What takes a connection down is done only when its link is.
SeveredPcs == {"cleanup", "cleanupFinish", "cleanupDelete", "firstFailed",
               "rereadFailed"}
Severed == \A t \in Threads : pc[t] \in SeveredPcs => link[On(t)] # "up"

\* The iterator of thread t stands at a key, or before all of them.
Standing(t) ==
  /\ pc[t] = "insert" => Target(t) = 0
  /\ pc[t] = "next" => Target(t) \in registry \cup {0}
  /\ pc[t] \in WritePcs /\ frame[t].ret = "next" => Target(t) \in registry

Entering(t, c) == pc[t] = "insert" /\ On(t) = c

\* Thread t has announced c to d, if announcing c is what it does.
PassedBy(t, c, d) ==
  On(t) = c =>
    /\ pc[t] # "insert"
    /\ pc[t] = "next" => d <= Target(t)
    /\ pc[t] \in WritePcs /\ frame[t].ret = "next" => d < Target(t)

Listed(c) == connectionId[c] = c /\ (c \in registry \/ \E t \in Threads : Entering(t, c))

Mutual(c, d) ==
  (\A t \in Threads : PassedBy(t, c, d) /\ PassedBy(t, d, c)) => Told(c, d) \/ Told(d, c)

Noticed ==
  /\ \A t \in Threads : Standing(t)
  /\ \A c \in Conns : obj[c] = "live" => Listed(c)
  /\ \A c, d \in registry : Mutual(c, d)

NoticeInv == Severed /\ (Undisturbed => Noticed)

LEMMA ToldKept ==
  ASSUME NEW c \in Conns, accepted \in [Conns -> Seq(Text)], NEW text \in Text,
         accepted'[c] = Append(accepted[c], text), NEW d
  PROVE  Told(c, d)' <=> Told(c, d) \/ text = Enter(d)
<1>. DEFINE old == accepted[c]
            new == accepted'[c]
            notice == Enter(d)
<1>1. old \in Seq(Text)
  OBVIOUS
<1>2. /\ new = Append(old, text) /\ Len(new) = Len(old) + 1
      /\ \A i \in 1..Len(old) : new[i] = old[i]
      /\ new[Len(old) + 1] = text
  BY <1>1
<1>3. Len(old) \in Nat
  BY <1>1
<1>4. 1..Len(new) = (1..Len(old)) \cup {Len(old) + 1}
  BY <1>2, <1>3
<1>5. (\E i \in 1..Len(new) : new[i] = notice)
        <=> (\E i \in 1..Len(old) : old[i] = notice) \/ text = notice
  <2>. HIDE DEF old, new, notice
  <2>. QED  BY <1>2, <1>3, <1>4
<1>. QED
  BY <1>5 DEF Told, Enter

\* A step that opens and deletes no object and erases nothing: each thread
\* rests, or stands where it should and passes a key only if it told it.
LEMMA NoticeKept ==
  ASSUME Noticed, registry' = registry, connectionId' = connectionId,
         \A c \in Conns : obj'[c] = "live" => obj[c] = "live",
         \A c, d \in Conns : Told(c, d) => Told(c, d)',
         registry \subseteq Conns,
         \A t \in Threads : Rests(t) \/
           /\ Standing(t)' /\ pc[t] # "insert"
           /\ \A c, d \in registry : PassedBy(t, c, d)' => PassedBy(t, c, d) \/ Told(d, c)'
  PROVE  Noticed'
<1>1. \A t \in Threads : Rests(t) => On(t)' = On(t) /\ Target(t)' = Target(t)
  BY DEF Rests, On, Target
<1>2. ASSUME NEW t \in Threads PROVE Standing(t)'
  BY <1>1 DEF Noticed, Standing, Rests
<1>3. ASSUME NEW c \in Conns, obj'[c] = "live" PROVE Listed(c)'
  <2>1. Listed(c)
    BY <1>3 DEF Noticed
  <2>2. ASSUME NEW t \in Threads, Entering(t, c) PROVE Entering(t, c)'
    BY <1>1, <2>2 DEF Entering, Rests
  <2>. QED
    BY <2>1, <2>2 DEF Listed
<1>4. ASSUME NEW c \in registry, NEW d \in registry PROVE Mutual(c, d)'
  <2>1. ASSUME NEW t \in Threads, PassedBy(t, c, d)', PassedBy(t, d, c)',
               ~Told(c, d)', ~Told(d, c)'
        PROVE  PassedBy(t, c, d) /\ PassedBy(t, d, c)
    <3>1. CASE Rests(t)
      BY <1>1, <2>1, <3>1 DEF Rests, PassedBy
    <3>2. CASE ~Rests(t)
      BY <2>1, <3>2
    <3>. QED  BY <3>1, <3>2
  <2>2. Mutual(c, d)
    BY DEF Noticed
  <2>3. c \in Conns /\ d \in Conns
    OBVIOUS
  <2>. QED
    BY <2>1, <2>2, <2>3 DEF Mutual
<1>. QED
  BY <1>2, <1>3, <1>4 DEF Noticed

\* Thread t announces nothing.
Silent(t) == pc[t] \notin {"insert", "next"} /\ (pc[t] \in WritePcs => frame[t].ret # "next")

\* A step of a thread that announces nothing, or stays at the same key.
LEMMA SilentStep ==
  ASSUME Noticed, NEW t \in Threads, Alone(t), IInv,
         UNCHANGED <<registry, connectionId, obj>>,
         \A c, d \in Conns : Told(c, d) => Told(c, d)',
         \/ Silent(t) /\ Silent(t)'
         \/ pc[t] \in WritePcs /\ pc'[t] \in WritePcs /\ frame'[t] = frame[t]
  PROVE  Noticed'
<1>1. registry \subseteq Conns
  BY DEF IInv, TypeOK, ControlTypeOK
<1>3. \A u \in Threads \ {t} : Rests(u)
  BY DEF Alone, Rests
<1>4. CASE Silent(t) /\ Silent(t)'
  <2>1. Standing(t)' /\ pc[t] # "insert"
    BY <1>4 DEF Silent, Standing, WritePcs
  <2>2. \A c, d \in registry : PassedBy(t, c, d)
    BY <1>4 DEF Silent, PassedBy, WritePcs
  <2>. QED
    BY <1>1, <1>3, <2>1, <2>2, NoticeKept
<1>5. CASE pc[t] \in WritePcs /\ pc'[t] \in WritePcs /\ frame'[t] = frame[t]
  <2>1. On(t)' = On(t) /\ Target(t)' = Target(t)
    BY <1>5 DEF On, Target
  <2>2. Standing(t)' /\ pc[t] # "insert"
    BY <1>5, <2>1 DEF Noticed, Standing, WritePcs
  <2>3. \A c, d \in registry : PassedBy(t, c, d)' => PassedBy(t, c, d)
    BY <1>5, <2>1 DEF PassedBy, WritePcs
  <2>. QED
    BY <1>1, <1>3, <2>2, <2>3, NoticeKept
<1>. QED  BY <1>4, <1>5

----------------------------------------------------------------------------
(***************************************************************************)
(* The steps of the announcement.                                          *)
(***************************************************************************)
LEMMA InsertNotices ==
  ASSUME Noticed, IInv, NEW t \in Threads, Insert(t)
  PROVE  Noticed'
<1>1. PICK c \in Conns : On(t) = c /\ connectionId[c] = c
  BY DEF Insert, Goto, IInv, Shape, FramesOK, StagesOK
<1>2. /\ Alone(t) /\ pc[t] = "insert" /\ pc'[t] = "next" /\ frame'[t] = frame[t]
      /\ registry' = registry \cup {c}
      /\ UNCHANGED <<connectionId, obj, accepted>>
  BY <1>1, GotoFrame DEF Insert, Goto, IInv, TypeOK, writeVars
<1>3. On(t)' = c /\ Target(t)' = Target(t) /\ Target(t) = 0
  BY <1>1, <1>2 DEF On, Target, Noticed, Standing
<1>4. ASSUME NEW u \in Threads \ {t}
      PROVE  pc'[u] = pc[u] /\ frame'[u] = frame[u] /\ On(u)' = On(u) /\ Target(u)' = Target(u)
  BY <1>2 DEF Alone, On, Target
<1>5. ASSUME NEW u \in Threads PROVE Standing(u)'
  <2>1. CASE u = t
    BY <1>2, <1>3, <2>1 DEF Standing, WritePcs
  <2>2. CASE u # t
    BY <1>2, <1>4, <2>2 DEF Noticed, Standing
  <2>. QED  BY <2>1, <2>2
<1>6. ASSUME NEW d \in Conns, obj'[d] = "live" PROVE Listed(d)'
  <2>1. Listed(d)
    BY <1>2, <1>6 DEF Noticed
  <2>2. ASSUME NEW u \in Threads, Entering(u, d), d # c PROVE Entering(u, d)'
    BY <1>1, <1>4, <2>2 DEF Entering
  <2>. QED
    BY <1>2, <2>1, <2>2 DEF Listed
<1>7. \A d \in registry' : d \in Nat \ {0}
  BY <1>2, ConnsAssumption DEF IInv, TypeOK, ControlTypeOK
<1>8. ASSUME NEW d \in registry' PROVE ~PassedBy(t, c, d)'
  BY <1>2, <1>3, <1>7 DEF PassedBy
<1>9. ASSUME NEW d \in registry', NEW e \in registry' PROVE Mutual(d, e)'
  <2>1. CASE d = c \/ e = c
    BY <1>8, <2>1 DEF Mutual
  <2>2. CASE d # c /\ e # c
    <3>1. d \in registry /\ e \in registry /\ Mutual(d, e)
      BY <1>2, <2>2 DEF Noticed
    <3>2. PassedBy(t, d, e) /\ PassedBy(t, e, d)
      BY <1>1, <2>2 DEF PassedBy
    <3>3. \A u \in Threads \ {t} : /\ PassedBy(u, d, e)' => PassedBy(u, d, e)
                                   /\ PassedBy(u, e, d)' => PassedBy(u, e, d)
      BY <1>4 DEF PassedBy
    <3>4. (Told(d, e) => Told(d, e)') /\ (Told(e, d) => Told(e, d)')
      BY <1>2 DEF Told
    <3>. QED
      BY <3>1, <3>2, <3>3, <3>4 DEF Mutual
  <2>. QED  BY <2>1, <2>2
<1>. QED
  BY <1>5, <1>6, <1>9 DEF Noticed

LEMMA BeginNotices ==
  ASSUME Noticed, intact, IInv, NEW t \in Threads, NEW c \in Conns, OnBeginRequest(t, c)
  PROVE  Noticed'
<1>1. /\ Alone(t) /\ pc[t] = "idle" /\ pc'[t] = "insert" /\ frame'[t].on = c
      /\ obj[c] = "none" /\ UNCHANGED <<registry, accepted>>
      /\ connectionId' = [connectionId EXCEPT ![c] = c]
      /\ obj' = [obj EXCEPT ![c] = "live"]
  BY StartFrame DEF OnBeginRequest, IInv, TypeOK, writeVars, Count
<1>2. frame'[t].target = 0
  <2>. DEFINE new == [NoFrame EXCEPT !.on = c, !.final = TRUE, !.down = FALSE]
  <2>1. new.target = 0
    BY DEF NoFrame
  <2>2. frame' = [frame EXCEPT ![t] = new]
    BY DEF OnBeginRequest, Start
  <2>. HIDE DEF new
  <2>. QED
    BY <2>1, <2>2 DEF IInv, TypeOK, ControlTypeOK
<1>3. On(t)' = c /\ Target(t)' = 0
  BY <1>1, <1>2 DEF On, Target
<1>4. ASSUME NEW u \in Threads \ {t}
      PROVE  pc'[u] = pc[u] /\ frame'[u] = frame[u] /\ On(u)' = On(u) /\ Target(u)' = Target(u)
  BY <1>1 DEF Alone, On, Target
<1>5. c \notin registry
  BY <1>1 DEF IInv, Shape, RegistryLive
<1>6. ASSUME NEW u \in Threads PROVE Standing(u)'
  <2>1. CASE u = t
    BY <1>1, <1>3, <2>1 DEF Standing, WritePcs
  <2>2. CASE u # t
    BY <1>1, <1>4, <2>2 DEF Noticed, Standing
  <2>. QED  BY <2>1, <2>2
<1>7. ASSUME NEW d \in Conns, obj'[d] = "live" PROVE Listed(d)'
  <2>1. CASE d = c
    BY <1>1, <1>3, <2>1 DEF Listed, Entering, IInv, TypeOK, ControlTypeOK
  <2>2. CASE d # c
    <3>1. Listed(d) /\ connectionId'[d] = connectionId[d]
      BY <1>1, <1>7, <2>2 DEF Noticed, IInv, TypeOK, ControlTypeOK
    <3>2. ASSUME NEW u \in Threads, Entering(u, d) PROVE Entering(u, d)'
      BY <1>1, <1>4, <3>2 DEF Entering
    <3>. QED
      BY <1>1, <3>1, <3>2 DEF Listed
  <2>. QED  BY <2>1, <2>2
<1>8. ASSUME NEW d \in registry, NEW e \in registry PROVE Mutual(d, e)'
  <2>1. Mutual(d, e)
    BY DEF Noticed
  <2>2. PassedBy(t, d, e) /\ PassedBy(t, e, d)
    BY <1>1 DEF PassedBy, WritePcs
  <2>3. \A u \in Threads \ {t} : /\ PassedBy(u, d, e)' => PassedBy(u, d, e)
                                 /\ PassedBy(u, e, d)' => PassedBy(u, e, d)
    BY <1>4 DEF PassedBy
  <2>4. (Told(d, e) => Told(d, e)') /\ (Told(e, d) => Told(e, d)')
    BY <1>1 DEF Told
  <2>. QED
    BY <2>1, <2>2, <2>3, <2>4 DEF Mutual
<1>. QED
  BY <1>1, <1>6, <1>7, <1>8 DEF Noticed

LEMMA NotifyNotices ==
  ASSUME Noticed, intact, IInv, NEW t \in Threads, Notify(t)
  PROVE  Noticed'
<1>1. PICK d \in NextKey(Target(t)) : CallWrite(t, "next", d, Enter(On(t)), "next")
  BY DEF Notify
<1>2. /\ Alone(t) /\ pc[t] = "next" /\ pc'[t] = "writeLock"
      /\ frame'[t].on = frame[t].on /\ frame'[t].target = d /\ frame'[t].ret = "next"
  BY <1>1, CallWriteFrame DEF IInv, TypeOK
<1>3. UNCHANGED <<registry, connectionId, obj, accepted>>
  BY DEF Notify, sharedVars, writeVars
<1>4. d \in registry /\ \A e \in registry : e > Target(t) => d <= e
  BY <1>1 DEF NextKey, Later
<1>5. registry \subseteq Conns /\ \A e \in registry : e \in Nat
  BY ConnsAssumption DEF IInv, TypeOK, ControlTypeOK
<1>6. Target(t) \in Nat
  BY TargetIsNat DEF IInv, TypeOK
<1>7. On(t)' = On(t) /\ Target(t)' = d
  BY <1>2 DEF On, Target
<1>8. Standing(t)'
  BY <1>2, <1>3, <1>4, <1>7 DEF Standing
<1>9. ASSUME NEW c \in registry, NEW e \in registry, PassedBy(t, c, e)'
      PROVE  PassedBy(t, c, e)
  BY <1>2, <1>4, <1>5, <1>6, <1>7, <1>9 DEF PassedBy, WritePcs
<1>10. \A u \in Threads \ {t} : Rests(u)
  BY <1>2 DEF Alone, Rests
<1>11. \A c, e \in Conns : Told(c, e) => Told(c, e)'
  BY <1>3 DEF Told
<1>. QED
  BY <1>2, <1>3, <1>5, <1>8, <1>9, <1>10, <1>11, NoticeKept

\* begin() to end(): nothing is left out.
LEMMA NoneLater ==
  ASSUME intact, NEW n \in Nat, registry \subseteq Conns, NextKey(n) = {}
  PROVE  Later(n) = {}
<1>. DEFINE less == {p \in Nat \X Nat : p[1] < p[2]}
            L == Later(n)
<1>1. IsWellFoundedOn(less, Nat)
  BY NatLessThanWellFounded DEF OpToRel
<1>2. L \subseteq Nat
  BY ConnsAssumption DEF Later
<1>3. ASSUME L # {} PROVE FALSE
  <2>1. PICK k \in L : \A i \in L : ~(<<i, k>> \in less)
    <3>. HIDE DEF less, L
    <3>. QED  BY <1>1, <1>2, <1>3, WFMin
  <2>2. ASSUME NEW i \in L PROVE k <= i
    <3>1. i \in Nat /\ k \in Nat
      BY <1>2
    <3>2. i < k => <<i, k>> \in less
      <4>. HIDE DEF L
      <4>. QED  BY <3>1
    <3>. QED
      <4>. HIDE DEF L, less
      <4>. QED  BY <2>1, <3>1, <3>2
  <2>3. k \in NextKey(n)
    BY <2>2 DEF NextKey
  <2>. QED  BY <2>3
<1>. QED  BY <1>3

LEMMA NotifyEndsNotices ==
  ASSUME Noticed, intact, IInv, NEW t \in Threads, NotifyEnds(t)
  PROVE  Noticed'
<1>1. /\ Alone(t) /\ pc[t] = "next" /\ pc'[t] = "checkStatus"
      /\ frame'[t].on = frame[t].on
  BY NotifyEndsFrame DEF IInv, TypeOK
<1>2. UNCHANGED <<registry, connectionId, obj, accepted>>
  BY DEF NotifyEnds, sharedVars, writeVars
<1>3. registry \subseteq Conns /\ \A e \in registry : e \in Nat
  BY ConnsAssumption DEF IInv, TypeOK, ControlTypeOK
<1>4. Target(t) \in Nat
  BY TargetIsNat DEF IInv, TypeOK
<1>5. ~StaleIterator(t)
  BY <1>1 DEF Noticed, Standing, StaleIterator
<1>6. Later(Target(t)) = {}
  BY <1>3, <1>4, <1>5, NoneLater DEF NotifyEnds
<1>7. \A e \in registry : e <= Target(t)
  BY <1>3, <1>4, <1>6 DEF Later
<1>8. \A c, e \in registry : PassedBy(t, c, e)
  BY <1>1, <1>7 DEF PassedBy, WritePcs
<1>9. Standing(t)' /\ pc[t] # "insert"
  BY <1>1 DEF Standing, WritePcs
<1>10. \A u \in Threads \ {t} : Rests(u)
  BY <1>1 DEF Alone, Rests
<1>11. \A c, e \in Conns : Told(c, e) => Told(c, e)'
  BY <1>2 DEF Told
<1>. QED
  BY <1>2, <1>3, <1>8, <1>9, <1>10, <1>11, NoticeKept

----------------------------------------------------------------------------
(***************************************************************************)
(* The other steps, while all links are up.                                *)
(***************************************************************************)
LEMMA OutsideNotices ==
  ASSUME Noticed, IInv, UNCHANGED <<pc, frame, registry, connectionId, accepted>>,
         \A c \in Conns : obj'[c] = "live" => obj[c] = "live"
  PROVE  Noticed'
<1>1. \A t \in Threads : Rests(t)
  BY DEF Rests
<1>2. \A c, d \in Conns : Told(c, d) => Told(c, d)'
  BY DEF Told
<1>3. registry \subseteq Conns
  BY DEF IInv, TypeOK, ControlTypeOK
<1>. QED
  BY <1>1, <1>2, <1>3, NoticeKept

\* A step of a thread that announces nothing and does not write.
LEMMA SilentNotices ==
  ASSUME Noticed, IInv, NEW t \in Threads, Alone(t), Silent(t), Silent(t)',
         UNCHANGED <<registry, connectionId, obj, accepted>>
  PROVE  Noticed'
<1>1. \A c, d \in Conns : Told(c, d) => Told(c, d)'
  BY DEF Told
<1>. QED
  BY <1>1, SilentStep

LEMMA FirstNotices ==
  ASSUME Noticed, IInv, Undisturbed, NEW t \in Threads,
         CheckStatus(t) \/ FirstRead(t) \/ FirstAppend(t)
                        \/ FirstClear(t) \/ FirstReturn(t)
  PROVE  Noticed'
<1>1. ControlTypeOK /\ (pc[t] # "idle" => On(t) \in Conns)
  BY DEF IInv, TypeOK, Shape, FramesOK
<1>2. CASE CheckStatus(t)
  <2>1. CloseStatus(On(t)) = {FALSE}
    BY <1>1, <1>2 DEF CheckStatus, Goto, Undisturbed, CloseStatus, Lost
  <2>2. UNCHANGED <<registry, connectionId, obj, accepted>>
    BY <1>2, <2>1 DEF CheckStatus, sharedVars
  <2>3. Alone(t) /\ pc[t] = "checkStatus" /\ pc'[t] = "firstRead"
    BY <1>1, <1>2, GotoFrame DEF CheckStatus, Goto
  <2>. QED
    BY <2>2, <2>3, SilentNotices DEF Silent, WritePcs
<1>3. CASE FirstRead(t)
  <2>1. UNCHANGED <<registry, connectionId, obj, accepted>>
    BY <1>3 DEF FirstRead, sharedVars, writeVars
  <2>2. PICK to \in {"firstAppend", "firstFailed", "firstReturn"} :
          Goto(t, "firstRead", to)
    BY <1>3 DEF FirstRead
  <2>3. Alone(t) /\ pc[t] = "firstRead" /\ pc'[t] = to
    BY <1>1, <2>2, GotoFrame DEF Goto
  <2>. QED
    BY <2>1, <2>3, SilentNotices DEF Silent, WritePcs
<1>4. CASE FirstAppend(t)
  <2>1. UNCHANGED <<registry, connectionId, obj, accepted>>
    BY <1>4 DEF FirstAppend, sharedVars, writeVars
  <2>2. CASE Goto(t, "firstAppend", "firstReturn")
    <3>1. Alone(t) /\ pc[t] = "firstAppend" /\ pc'[t] = "firstReturn"
      BY <1>1, <2>2, GotoFrame DEF Goto
    <3>. QED
      BY <2>1, <3>1, SilentNotices DEF Silent, WritePcs
  <2>3. CASE \E text : CallWrite(t, "firstAppend", On(t), text, "firstClear")
    <3>1. /\ Alone(t) /\ pc[t] = "firstAppend" /\ pc'[t] = "writeLock"
          /\ frame'[t].ret = "firstClear"
      BY <1>1, <2>3, CallWriteFrame
    <3>. QED
      BY <2>1, <3>1, SilentNotices DEF Silent, WritePcs
  <2>. QED
    BY <1>4, <2>2, <2>3 DEF FirstAppend
<1>5. CASE FirstClear(t)
  <2>1. UNCHANGED <<registry, connectionId, obj, accepted>>
    BY <1>5 DEF FirstClear, sharedVars, writeVars
  <2>2. Alone(t) /\ pc[t] = "firstClear" /\ pc'[t] = "firstReturn"
    BY <1>1, <1>5, GotoFrame DEF FirstClear, Goto
  <2>. QED
    BY <2>1, <2>2, SilentNotices DEF Silent, WritePcs
<1>6. CASE FirstReturn(t)
  <2>1. UNCHANGED <<registry, connectionId, obj, accepted>>
    BY <1>6 DEF FirstReturn, sharedVars, writeVars
  <2>2. Alone(t) /\ pc[t] = "firstReturn" /\ pc'[t] = "idle"
    BY <1>1, <1>6, ReturnFrame DEF FirstReturn, Return
  <2>. QED
    BY <2>1, <2>2, SilentNotices DEF Silent, WritePcs
<1>. QED
  BY <1>2, <1>3, <1>4, <1>5, <1>6

LEMMA ReadNotices ==
  ASSUME Noticed, IInv, NEW t \in Threads,
         \/ ReadDisconnected(t) \/ ReadLock(t) \/ ReadFinal(t)
         \/ ReadClear(t) \/ Reread(t)
  PROVE  Noticed'
<1>1. ControlTypeOK
  BY DEF IInv, TypeOK
<1>2. UNCHANGED <<registry, connectionId, obj, accepted>>
  BY DEF ReadDisconnected, ReadLock, ReadFinal, ReadClear, Reread, sharedVars,
         writeVars
<1>3. CASE ReadDisconnected(t)
  <2>1. Alone(t) /\ pc[t] = "readLock" /\ pc'[t] = "idle"
    BY <1>1, <1>3, ReturnFrame DEF ReadDisconnected, Return
  <2>. QED
    BY <1>2, <2>1, SilentNotices DEF Silent, WritePcs
<1>4. CASE ReadLock(t)
  <2>1. PICK to \in {"cleanup", "readLocked"} : Goto(t, "readLock", to)
    BY <1>4 DEF ReadLock
  <2>2. Alone(t) /\ pc[t] = "readLock" /\ pc'[t] = to
    BY <1>1, <2>1, GotoFrame DEF Goto
  <2>. QED
    BY <1>2, <2>2, SilentNotices DEF Silent, WritePcs
<1>5. CASE ReadFinal(t)
  <2>1. \E c, text : CallWrite(t, "readLocked", c, text, "readClear")
    BY <1>5 DEF ReadFinal
  <2>2. /\ Alone(t) /\ pc[t] = "readLocked" /\ pc'[t] = "writeLock"
        /\ frame'[t].ret = "readClear"
    BY <1>1, <2>1, CallWriteFrame
  <2>. QED
    BY <1>2, <2>2, SilentNotices DEF Silent, WritePcs
<1>6. CASE ReadClear(t)
  <2>1. Alone(t) /\ pc[t] = "readClear" /\ pc'[t] = "reread"
    BY <1>1, <1>6, GotoFrame DEF ReadClear, Goto
  <2>. QED
    BY <1>2, <2>1, SilentNotices DEF Silent, WritePcs
<1>7. CASE Reread(t)
  <2>1. Goto(t, "reread", "rereadFailed") \/ Return(t, "reread")
    BY <1>7 DEF Reread
  <2>2. Alone(t) /\ pc[t] = "reread" /\ pc'[t] \in {"rereadFailed", "idle"}
    BY <1>1, <2>1, GotoFrame, ReturnFrame DEF Goto, Return
  <2>. QED
    BY <1>2, <2>2, SilentNotices DEF Silent, WritePcs
<1>. QED
  BY <1>3, <1>4, <1>5, <1>6, <1>7

LEMMA EndNotices ==
  ASSUME Noticed, IInv, NEW t \in Threads,
         CleanupReturn(t) \/ WriteDone(t) \/ WriteCount(t)
  PROVE  Noticed'
<1>1. ControlTypeOK
  BY DEF IInv, TypeOK
<1>2. UNCHANGED <<registry, connectionId, obj, accepted>>
  BY DEF CleanupReturn, WriteDone, WriteCount, sharedVars, writeVars
<1>3. PICK from \in {"cleanupReturn", "writeCb", "writeCount"} :
        Return(t, from) \/ Goto(t, from, "writeCount")
  BY DEF CleanupReturn, WriteDone, WriteCount
<1>4. Alone(t) /\ pc[t] = from /\ pc'[t] \in {"idle", "writeCount"}
  BY <1>1, <1>3, GotoFrame, ReturnFrame DEF Goto, Return
<1>. QED
  BY <1>2, <1>4, SilentNotices DEF Silent, WritePcs

\* A callback starts.
LEMMA CallbackNotices ==
  ASSUME Noticed, IInv, NEW t \in Threads, NEW c \in Conns,
         \/ ReadCompletes(t, c) \/ ReadCloses(t, c) \/ ReadFails(t, c)
         \/ WriteCompletes(t, c)
  PROVE  Noticed'
<1>1. ControlTypeOK
  BY DEF IInv, TypeOK
<1>2. UNCHANGED <<registry, connectionId, obj, accepted>>
  BY DEF ReadCompletes, ReadCloses, ReadFails, WriteCompletes, sharedVars,
         writeVars
<1>3. PICK to \in {"readLock", "writeCb"}, final \in BOOLEAN, down \in BOOLEAN :
        Start(t, c, to, final, down)
  BY DEF ReadCompletes, ReadCloses, ReadFails, WriteCompletes
<1>4. Alone(t) /\ pc[t] = "idle" /\ pc'[t] = to
  BY <1>1, <1>3, StartFrame
<1>. QED
  BY <1>2, <1>4, SilentNotices DEF Silent, WritePcs

----------------------------------------------------------------------------
(***************************************************************************)
(* Write, when it is accepted in time.                                     *)
(***************************************************************************)
OnTime == "writeFail" \notin Env /\ "slowWrite" \notin Env

\* A notice that is accepted lets the iterator pass its target.
LEMMA AcceptedNotices ==
  ASSUME Noticed, IInv, TextInv, NEW t \in Threads, pc[t] \in SendPcs, NEW from,
         WriteReturn(t, from), UNCHANGED <<registry, connectionId, obj>>,
         accepted' = [accepted EXCEPT ![Target(t)] = Append(@, frame[t].text)]
  PROVE  Noticed'
<1>1. PICK c, e \in Conns :
        /\ On(t) = c /\ Target(t) = e
        /\ frame[t].ret = "next" => frame[t].text = Enter(c)
  BY Sendable
<1>2. /\ Alone(t) /\ pc'[t] = frame[t].ret
      /\ frame'[t].on = frame[t].on
      /\ frame[t].ret = "next" => frame'[t].target = frame[t].target
      /\ frame[t].ret \in {"next", "firstClear", "readClear"}
  BY WriteReturnFrame DEF IInv, TypeOK
<1>3. PICK text \in Text : frame[t].text = text
  <2>1. frame[t] \in Frame
    BY DEF IInv, TypeOK, ControlTypeOK
  <2>. QED
    BY <2>1 DEF Frame
<1>4. accepted \in [Conns -> Seq(Text)]
  BY DEF IInv, TypeOK, DataTypeOK
<1>5. /\ accepted'[e] = Append(accepted[e], text)
      /\ \A x \in Conns \ {e} : accepted'[x] = accepted[x]
  BY <1>1, <1>3, <1>4
<1>6. \A d : Told(e, d)' <=> Told(e, d) \/ text = Enter(d)
  BY <1>4, <1>5, ToldKept
<1>7. ASSUME NEW x \in Conns, NEW d \in Conns, Told(x, d) PROVE Told(x, d)'
  <2>1. CASE x = e
    BY <1>6, <1>7, <2>1
  <2>2. CASE x # e
    BY <1>5, <1>7, <2>2 DEF Told
  <2>. QED  BY <2>1, <2>2
<1>8. pc[t] \in WritePcs /\ pc[t] # "next" /\ pc[t] # "insert"
  BY DEF SendPcs, WritePcs
<1>9. CASE frame[t].ret # "next"
  BY <1>2, <1>7, <1>8, <1>9, SilentStep DEF Silent, WritePcs
<1>10. CASE frame[t].ret = "next"
  <2>1. On(t)' = c /\ Target(t)' = e /\ pc'[t] = "next"
    BY <1>1, <1>2, <1>10 DEF On, Target
  <2>2. e \in registry /\ Told(e, c)'
    BY <1>1, <1>3, <1>6, <1>8, <1>10 DEF Noticed, Standing
  <2>3. Standing(t)'
    BY <2>1, <2>2 DEF Standing, WritePcs
  <2>4. registry \subseteq Conns /\ \A x \in registry : x \in Nat
    BY ConnsAssumption DEF IInv, TypeOK, ControlTypeOK
  <2>5. ASSUME NEW x \in registry, NEW d \in registry, PassedBy(t, x, d)'
        PROVE  PassedBy(t, x, d) \/ Told(d, x)'
    <3>1. CASE x # c
      BY <1>1, <3>1 DEF PassedBy
    <3>2. CASE x = c
      <4>1. d <= e
        BY <2>1, <2>5, <3>2 DEF PassedBy
      <4>2. d = e \/ d < e
        BY <2>2, <2>4, <4>1
      <4>3. CASE d = e
        BY <2>2, <3>2, <4>3
      <4>4. CASE d < e
        BY <1>1, <1>8, <4>4 DEF PassedBy
      <4>. QED  BY <4>2, <4>3, <4>4
    <3>. QED  BY <3>1, <3>2
  <2>6. \A u \in Threads \ {t} : Rests(u)
    BY <1>2 DEF Alone, Rests
  <2>. QED
    BY <1>7, <1>8, <2>3, <2>4, <2>5, <2>6, NoticeKept
<1>. QED  BY <1>9, <1>10

LEMMA WriteNotices ==
  ASSUME OnTime, Noticed, Undisturbed, IInv, TextInv, NEW t \in Threads, Write(t)
  PROVE  Noticed'
<1>1. ControlTypeOK /\ registry \subseteq Conns
  BY DEF IInv, TypeOK, ControlTypeOK
<1>2. CASE WriteRefused(t)
  <2>1. UNCHANGED <<registry, connectionId, obj, accepted>>
    BY <1>2 DEF WriteRefused, sharedVars, writeVars
  <2>2. /\ Alone(t) /\ pc[t] = "writeLock" /\ pc'[t] = frame[t].ret
        /\ frame[t].ret \in {"next", "firstClear", "readClear"}
    BY <1>1, <1>2, WriteReturnFrame DEF WriteRefused
  <2>3. ASSUME frame[t].ret = "next" PROVE FALSE
    <3>1. PICK e \in Conns : Target(t) = e /\ e \in registry
      BY <1>1, <2>2, <2>3 DEF Noticed, Standing, WritePcs
    <3>2. connectionId[e] = e
      BY <3>1 DEF Undisturbed, IInv, Shape, RegistryLive, Noticed, Listed
    <3>3. connectionId[e] = 0
      BY <1>2, <3>1 DEF WriteRefused
    <3>. QED
      BY <3>2, <3>3, ConnsAssumption
  <2>. QED
    BY <2>1, <2>2, <2>3, SilentNotices DEF Silent, WritePcs
<1>3. CASE WriteLock(t)
  <2>1. UNCHANGED <<registry, connectionId, obj, accepted>>
    BY <1>3 DEF WriteLock, sharedVars, writeVars
  <2>2. /\ Alone(t) /\ pc[t] = "writeLock" /\ pc'[t] = "writeSend"
        /\ frame'[t] = frame[t]
    BY <1>1, <1>3, GotoFrame DEF WriteLock, Goto
  <2>3. \A c, d \in Conns : Told(c, d) => Told(c, d)'
    BY <2>1 DEF Told
  <2>. QED
    BY <2>1, <2>2, <2>3, SilentStep DEF WritePcs
<1>4. CASE WriteSend(t) \/ WriteResend(t)
  <2>1. pc[t] \in SendPcs /\ pc[t] \in WritePcs
    BY <1>4, SendEffect DEF SendPcs, WritePcs
  <2>2. PICK e \in Conns : Target(t) = e
    BY <2>1 DEF IInv, Shape, FramesOK
  <2>3. UNCHANGED <<registry, connectionId, obj>>
    BY <1>4 DEF WriteSend, WriteResend, sharedVars
  <2>4. writeIO[e] = "none" => WriteAnswers(e) = {"accepted"}
    BY DEF OnTime, Undisturbed, WriteAnswers, Lost
  <2>5. writeIO[e] # "none" => WriteAnswers(e) = {"ERROR_IO_PENDING"}
    BY DEF WriteAnswers
  <2>6. CASE writeIO[e] = "none"
    <3>1. accepted' = [accepted EXCEPT ![e] = Append(@, frame[t].text)]
      BY <1>4, <2>2, <2>4, <2>6 DEF WriteSend, WriteResend, WriteFragment
    <3>2. PICK from \in SendPcs : WriteReturn(t, from)
      BY <1>4, <2>2, <2>4, <2>6 DEF WriteSend, WriteResend, SendPcs
    <3>. QED
      BY <2>1, <2>2, <2>3, <3>1, <3>2, AcceptedNotices
  <2>7. CASE writeIO[e] # "none"
    <3>1. WriteSend(t)
      BY <1>4, <2>2, <2>7 DEF OnTime, WriteResend
    <3>2. UNCHANGED accepted /\ Goto(t, "writeSend", "writeResend")
      BY <2>2, <2>5, <2>7, <3>1 DEF WriteSend, WriteFragment
    <3>3. /\ Alone(t) /\ pc[t] = "writeSend" /\ pc'[t] = "writeResend"
          /\ frame'[t] = frame[t]
      BY <1>1, <3>2, GotoFrame DEF Goto
    <3>4. \A c, d \in Conns : Told(c, d) => Told(c, d)'
      BY <3>2 DEF Told
    <3>. QED
      BY <2>3, <3>3, <3>4, SilentStep DEF WritePcs
  <2>. QED  BY <2>6, <2>7
<1>. QED
  BY <1>2, <1>3, <1>4 DEF Write

----------------------------------------------------------------------------
(***************************************************************************)
(* Links go down and do not come up again.                                 *)
(***************************************************************************)
LinksFall == \A c \in Conns : link'[c] = "up" => link[c] = "up"

LEMMA NextLinksFall == IInv /\ [Next]_vars => LinksFall
<1>. SUFFICES ASSUME IInv, [Next]_vars PROVE LinksFall
  OBVIOUS
<1>1. link \in [Conns -> {"up", "closing", "closed", "broken", "reset"}]
  BY DEF IInv, TypeOK, ControlTypeOK
<1>2. CASE UNCHANGED link
  BY <1>2 DEF LinksFall
<1>3. ASSUME NEW t \in Threads, ThreadStep(t) PROVE LinksFall
  <2>1. CASE CleanupDelete(t)
    BY <1>1, <2>1 DEF CleanupDelete, LinksFall, Lost
  <2>2. CASE ~CleanupDelete(t)
    <3>1. UNCHANGED link
      BY <1>3, <2>2 DEF ThreadStep, Begin, Write, Read, Cleanup, Written, Insert,
           Notify, NotifyEnds, CheckStatus, FirstRead, FirstAppend, FirstClear,
           FirstFailed, FirstReturn, WriteRefused, WriteLock, WriteSend,
           WriteResend, ReadDisconnected, ReadLock, ReadFinal, ReadPartial,
           Terminate, ReadClear, Reread, RereadFailed, CleanupErase,
           CleanupFinish, CleanupReturn, WriteDone, WriteCount
    <3>. QED  BY <1>2, <3>1
  <2>. QED  BY <2>1, <2>2
<1>4. ASSUME NEW c \in Conns, PeerLeaves(c) PROVE LinksFall
  BY <1>1, <1>4 DEF PeerLeaves, LinksFall
<1>5. ASSUME NEW c \in Conns, NEW t \in Threads, ReadCloses(t, c) \/ ReadFails(t, c)
      PROVE  LinksFall
  BY <1>1, <1>5 DEF ReadCloses, ReadFails, LinksFall
<1>6. ASSUME NEW c \in Conns, PeerSend(c) \/ BeginRefused(c) \/ WriteEnds(c)
      PROVE  LinksFall
  BY <1>2, <1>6 DEF PeerSend, BeginRefused, WriteEnds
<1>7. ASSUME NEW c \in Conns, NEW t \in Threads,
             ReadCompletes(t, c) \/ OnBeginRequest(t, c) \/ WriteCompletes(t, c)
      PROVE  LinksFall
  BY <1>2, <1>7 DEF ReadCompletes, OnBeginRequest, WriteCompletes
<1>8. CASE MapBreaks \/ Fault
  BY <1>2, <1>8 DEF MapBreaks, Fault, Terminate
<1>9. CASE UNCHANGED vars
  BY <1>2, <1>9 DEF vars
<1>. QED
  BY <1>3, <1>4, <1>5, <1>6, <1>7, <1>8, <1>9 DEF Next, Completes

\* A thread that goes on to take a connection down finds its link down.
LEMMA SeveredKept ==
  ASSUME Severed, IInv, LinksFall,
         \A u \in Threads : pc'[u] \in SeveredPcs =>
           /\ On(u)' = On(u) /\ pc[u] # "idle"
           /\ pc[u] \in SeveredPcs \/ link[On(u)] # "up"
  PROVE  Severed'
<1>. SUFFICES ASSUME NEW u \in Threads, pc'[u] \in SeveredPcs
              PROVE  link'[On(u)'] # "up"
  BY DEF Severed
<1>1. PICK c \in Conns : On(u) = c /\ On(u)' = c
  BY DEF IInv, Shape, FramesOK
<1>2. link[c] # "up"
  BY <1>1 DEF Severed
<1>. QED
  BY <1>1, <1>2 DEF LinksFall

LEMMA NotSevered ==
  ASSUME Severed, IInv, LinksFall, NEW t \in Threads, Alone(t),
         pc'[t] \in SeveredPcs =>
           /\ pc[t] # "idle" /\ frame'[t].on = frame[t].on
           /\ pc[t] \in SeveredPcs \/ link[On(t)] # "up"
  PROVE  Severed'
<1>1. ASSUME NEW u \in Threads, pc'[u] \in SeveredPcs
      PROVE  /\ On(u)' = On(u) /\ pc[u] # "idle"
             /\ pc[u] \in SeveredPcs \/ link[On(u)] # "up"
  BY <1>1 DEF Alone, On, SeveredPcs
<1>. QED
  BY <1>1, SeveredKept

LEMMA RestSevered ==
  ASSUME Severed, IInv, LinksFall, UNCHANGED <<pc, frame>>
  PROVE  Severed'
BY SeveredKept DEF On, SeveredPcs

\* The steps that look at the link, and those after them.
LEMMA CutsSevered ==
  ASSUME Severed, IInv, LinksFall, NEW t \in Threads,
         \/ FirstRead(t) \/ Reread(t) \/ ReadLock(t)
         \/ CleanupErase(t) \/ CleanupFinish(t)
  PROVE  Severed'
<1>1. ControlTypeOK
  BY DEF IInv, TypeOK
<1>2. CASE FirstRead(t) \/ Reread(t)
  <2>1. PICK answer \in ReadAnswers(On(t)) :
          \/ /\ pc[t] = "firstRead"
             /\ Goto(t, "firstRead", CASE answer = "sync"   -> "firstAppend"
                                       [] answer = "failed" -> "firstFailed"
                                       [] OTHER             -> "firstReturn")
          \/ /\ pc[t] = "reread"
             /\ IF answer = "failed" THEN Goto(t, "reread", "rereadFailed")
                                     ELSE Return(t, "reread")
    BY <1>2 DEF FirstRead, Reread
  <2>2. answer = "failed" => link[On(t)] # "up"
    BY <2>1 DEF ReadAnswers, Lost
  <2>3. CASE answer = "failed"
    <3>1. \E from \in {"firstRead", "reread"}, to \in {"firstFailed", "rereadFailed"} :
            pc[t] = from /\ Goto(t, from, to)
      BY <2>1, <2>3
    <3>2. Alone(t) /\ frame'[t] = frame[t] /\ pc[t] # "idle"
      BY <1>1, <3>1, GotoFrame
    <3>. QED
      BY <2>2, <2>3, <3>2, NotSevered
  <2>4. CASE answer # "failed"
    <3>1. \E from : \E to \in {"firstAppend", "firstReturn"} :
            Goto(t, from, to) \/ Return(t, from)
      BY <2>1, <2>4
    <3>2. Alone(t) /\ pc'[t] \in {"firstAppend", "firstReturn", "idle"}
      BY <1>1, <3>1, GotoFrame, ReturnFrame
    <3>. QED
      BY <3>2, NotSevered DEF SeveredPcs
  <2>. QED  BY <2>3, <2>4
<1>3. CASE ReadLock(t)
  <2>1. PICK to \in {"cleanup", "readLocked"} :
          /\ Goto(t, "readLock", to)
          /\ to = "cleanup" => TRUE \in CloseStatus(On(t))
    BY <1>3 DEF ReadLock
  <2>2. TRUE \in CloseStatus(On(t)) => link[On(t)] # "up"
    BY DEF CloseStatus, Lost
  <2>3. Alone(t) /\ frame'[t] = frame[t] /\ pc[t] = "readLock" /\ pc'[t] = to
    BY <1>1, <2>1, GotoFrame DEF Goto
  <2>. QED
    BY <2>1, <2>2, <2>3, NotSevered DEF SeveredPcs
<1>4. CASE CleanupErase(t) \/ CleanupFinish(t)
  <2>1. PICK from \in {"cleanup", "cleanupFinish"} : \E to : Goto(t, from, to)
    BY <1>4 DEF CleanupErase, CleanupFinish
  <2>2. Alone(t) /\ frame'[t] = frame[t] /\ pc[t] = from
    BY <1>1, <2>1, GotoFrame DEF Goto
  <2>. QED
    BY <2>2, NotSevered DEF SeveredPcs
<1>. QED  BY <1>2, <1>3, <1>4

LEMMA ThreadStepSevered ==
  ASSUME Severed, IInv, LinksFall, NEW t \in Threads, ThreadStep(t)
  PROVE  Severed'
<1>1. ControlTypeOK
  BY DEF IInv, TypeOK
<1>2. CASE \/ FirstRead(t) \/ Reread(t) \/ ReadLock(t)
           \/ CleanupErase(t) \/ CleanupFinish(t)
  BY <1>2, CutsSevered
<1>3. CASE ReadPartial(t)
  BY <1>3, RestSevered DEF ReadPartial, Terminate, threadVars
<1>4. CASE NotifyEnds(t)
  BY <1>1, <1>4, NotifyEndsFrame, NotSevered DEF SeveredPcs
<1>5. CASE Notify(t) \/ FirstAppend(t) \/ ReadFinal(t)
  <2>1. \/ Goto(t, "firstAppend", "firstReturn")
        \/ \E from, c, text, ret : CallWrite(t, from, c, text, ret)
    BY <1>5 DEF Notify, FirstAppend, ReadFinal
  <2>2. Alone(t) /\ pc'[t] \in {"firstReturn", "writeLock"}
    BY <1>1, <2>1, GotoFrame, CallWriteFrame
  <2>. QED
    BY <2>2, NotSevered DEF SeveredPcs
<1>6. CASE Write(t)
  <2>1. \E from : \E to \in {"writeSend", "writeResend"} :
          Goto(t, from, to) \/ WriteReturn(t, from)
    BY <1>6 DEF Write, WriteRefused, WriteLock, WriteSend, WriteResend
  <2>2. Alone(t) /\ pc'[t] \in {"writeSend", "writeResend", "next", "firstClear", "readClear"}
    BY <1>1, <2>1, GotoFrame, WriteReturnFrame
  <2>. QED
    BY <2>2, NotSevered DEF SeveredPcs
<1>7. CASE \/ Insert(t) \/ CheckStatus(t) \/ FirstClear(t) \/ FirstFailed(t)
           \/ FirstReturn(t) \/ ReadDisconnected(t) \/ ReadClear(t)
           \/ RereadFailed(t) \/ CleanupDelete(t) \/ CleanupReturn(t) \/ Written(t)
  <2>1. \E from : \E to \in {"next", "firstRead", "firstReturn", "reread",
                         "cleanupReturn", "writeCount"} :
          Goto(t, from, to) \/ Return(t, from)
    BY <1>7 DEF Insert, CheckStatus, FirstClear, FirstFailed, FirstReturn,
       ReadDisconnected, ReadClear, RereadFailed, CleanupDelete, CleanupReturn,
       Written, WriteDone, WriteCount
  <2>2. Alone(t) /\ pc'[t] \in {"next", "firstRead", "firstReturn", "reread",
                                "cleanupReturn", "writeCount", "idle"}
    BY <1>1, <2>1, GotoFrame, ReturnFrame
  <2>. QED
    BY <2>2, NotSevered DEF SeveredPcs
<1>. QED
  BY <1>2, <1>3, <1>4, <1>5, <1>6, <1>7 DEF ThreadStep, Begin, Read, Cleanup

LEMMA NextSevered == Severed /\ IInv /\ [Next]_vars => Severed'
<1>. SUFFICES ASSUME Severed, IInv, [Next]_vars PROVE Severed'
  OBVIOUS
<1>1. LinksFall
  BY NextLinksFall
<1>2. ASSUME NEW t \in Threads, ThreadStep(t) PROVE Severed'
  BY <1>1, <1>2, ThreadStepSevered
<1>3. ASSUME NEW c \in Conns, PeerSend(c) \/ PeerLeaves(c) \/ BeginRefused(c)
                              \/ WriteEnds(c)
      PROVE  Severed'
  BY <1>1, <1>3, RestSevered DEF PeerSend, PeerLeaves, BeginRefused, WriteEnds, threadVars
<1>4. ASSUME NEW c \in Conns, NEW t \in Threads,
             \/ ReadCompletes(t, c) \/ ReadCloses(t, c) \/ ReadFails(t, c)
             \/ OnBeginRequest(t, c) \/ WriteCompletes(t, c)
      PROVE  Severed'
  <2>1. \E to \in {"readLock", "writeCb", "insert"}, final, down \in BOOLEAN :
          Start(t, c, to, final, down)
    BY <1>4 DEF ReadCompletes, ReadCloses, ReadFails, OnBeginRequest, WriteCompletes
  <2>2. Alone(t) /\ pc'[t] \in {"readLock", "writeCb", "insert"}
    BY <2>1, StartFrame DEF IInv, TypeOK
  <2>. QED
    BY <1>1, <2>2, NotSevered DEF SeveredPcs
<1>5. CASE MapBreaks \/ Fault \/ UNCHANGED vars
  BY <1>1, <1>5, RestSevered DEF MapBreaks, Fault, Terminate, vars, threadVars
<1>. QED
  BY <1>2, <1>3, <1>4, <1>5 DEF Next, Completes

----------------------------------------------------------------------------
(***************************************************************************)
(* NoticeInv is inductive, together with IInv and TextInv.                 *)
(***************************************************************************)
LEMMA InitNoticeInv == Init => NoticeInv
<1>. SUFFICES ASSUME Init PROVE NoticeInv
  OBVIOUS
<1>1. \A t \in Threads : pc[t] = "idle"
  BY DEF Init
<1>2. registry = {} /\ \A c \in Conns : obj[c] = "none"
  BY DEF Init
<1>. QED
  BY <1>1, <1>2 DEF NoticeInv, Severed, SeveredPcs, Noticed, Standing, WritePcs

LEMMA ThreadStepNotices ==
  ASSUME OnTime, Noticed, Undisturbed, Severed, IInv, TextInv, NEW t \in Threads, ThreadStep(t)
  PROVE  Noticed'
<1>1. pc[t] \notin SeveredPcs
  <2>1. ASSUME pc[t] \in SeveredPcs PROVE FALSE
    <3>1. On(t) \in Conns
      BY <2>1 DEF IInv, Shape, FramesOK, SeveredPcs
    <3>. QED
      BY <2>1, <3>1 DEF Severed, Undisturbed
  <2>. QED  BY <2>1
<1>2. /\ ~FirstFailed(t) /\ ~RereadFailed(t) /\ ~CleanupErase(t)
      /\ ~CleanupFinish(t) /\ ~CleanupDelete(t)
  BY <1>1 DEF FirstFailed, RereadFailed, CleanupErase, CleanupFinish,
     CleanupDelete, Goto, Return, SeveredPcs
<1>3. CASE ReadPartial(t)
  BY <1>3, OutsideNotices DEF ReadPartial, Terminate, threadVars, sharedVars, writeVars
<1>. QED
  BY <1>2, <1>3, InsertNotices, NotifyNotices, NotifyEndsNotices, FirstNotices,
     WriteNotices, ReadNotices, EndNotices
     DEF Undisturbed, ThreadStep, Begin, Read, Cleanup, Written

LEMMA NextNoticed ==
  ASSUME OnTime, Noticed, Undisturbed, Severed, IInv, TextInv, [Next]_vars
  PROVE  Noticed'
<1>1. ASSUME NEW t \in Threads, ThreadStep(t) PROVE Noticed'
  BY <1>1, ThreadStepNotices
<1>2. ASSUME NEW c \in Conns, PeerSend(c) \/ PeerLeaves(c) \/ WriteEnds(c)
      PROVE  Noticed'
  <2>1. UNCHANGED <<pc, frame, registry, connectionId, accepted, obj>>
    BY <1>2 DEF PeerSend, PeerLeaves, WriteEnds, threadVars, sharedVars, writeVars
  <2>. QED
    BY <2>1, OutsideNotices
<1>3. ASSUME NEW c \in Conns, BeginRefused(c) PROVE Noticed'
  <2>1. UNCHANGED <<pc, frame, registry, connectionId, accepted>>
    BY <1>3 DEF BeginRefused, threadVars, sharedVars, writeVars
  <2>2. \A d \in Conns : obj'[d] = "live" => obj[d] = "live"
    BY <1>3 DEF BeginRefused, IInv, TypeOK, ControlTypeOK
  <2>. QED
    BY <2>1, <2>2, OutsideNotices
<1>4. ASSUME NEW c \in Conns, NEW t \in Threads,
             \/ ReadCompletes(t, c) \/ ReadCloses(t, c) \/ ReadFails(t, c)
             \/ OnBeginRequest(t, c) \/ WriteCompletes(t, c)
      PROVE  Noticed'
  BY <1>4, CallbackNotices, BeginNotices DEF Undisturbed
<1>5. CASE MapBreaks \/ Fault \/ UNCHANGED vars
  <2>1. UNCHANGED <<pc, frame, registry, connectionId, accepted, obj>>
    BY <1>5 DEF MapBreaks, Fault, Terminate, vars, threadVars, sharedVars, writeVars
  <2>. QED
    BY <2>1, OutsideNotices
<1>. QED
  BY <1>1, <1>2, <1>3, <1>4, <1>5 DEF Next, Completes

LEMMA NextNoticeInv ==
  ASSUME OnTime
  PROVE  IInv /\ TextInv /\ NoticeInv /\ [Next]_vars => NoticeInv'
<1>. SUFFICES ASSUME IInv, TextInv, NoticeInv, [Next]_vars PROVE NoticeInv'
  OBVIOUS
<1>1. Severed'
  BY NextSevered DEF NoticeInv
<1>2. ASSUME Undisturbed' PROVE Noticed'
  <2>1. Undisturbed
    BY <1>2, NextLinksFall, AcceptedChanges DEF LinksFall, Undisturbed
  <2>. QED
    BY <2>1, NextNoticed DEF NoticeInv
<1>. QED
  BY <1>1, <1>2 DEF NoticeInv

LEMMA NoticeInvSuffices == NoticeInv => NoticeReachesOne
<1>. SUFFICES ASSUME NoticeInv, Undisturbed, NEW c \in Conns, NEW d \in Conns,
                     Notified(c), Notified(d)
              PROVE  Told(c, d) \/ Told(d, c)
  BY DEF NoticeReachesOne, Undisturbed
<1>1. ASSUME NEW x \in Conns, Notified(x)
      PROVE  x \in registry /\ \A t \in Threads, y \in Conns : PassedBy(t, x, y)
  <2>1. Listed(x)
    BY <1>1 DEF NoticeInv, Noticed, Notified
  <2>. QED
    BY <1>1, <2>1 DEF Notified, Listed, Entering, PassedBy, WritePcs
<1>2. Mutual(c, d)
  BY <1>1 DEF NoticeInv, Noticed
<1>. QED
  BY <1>1, <1>2 DEF Mutual

\* While all links are up and no two threads met in the map, two connections
\* that have both gone through the registry cannot have missed each other, in
\* whatever order their threads took it: if IIS fails no write and none takes
\* longer than the 300 ms that Write waits, one of the two was told of the
\* other.  (Two inserts that do meet can lose one, and then neither need be.)
THEOREM OneIsTold ==
  ASSUME OnTime
  PROVE  Spec => []NoticeReachesOne
<1>1. IInv /\ TextInv /\ NoticeInv /\ [Next]_vars => NoticeInv'
  BY NextNoticeInv
<1>. QED
  BY <1>1, InitNoticeInv, NoticeInvSuffices, TextInvariance, PTL DEF Spec
=============================================================================
