------------------------------ MODULE CLogProofs ------------------------------
(***************************************************************************)
(* What holds of CLog for any sizes and limits and whatever is done to its *)
(* files.  The inductive invariant, IInv, adds to the checked invariants   *)
(* that no file is newer than the last one created, and that listFiles has *)
(* the files of this process in the order of their creation.               *)
(***************************************************************************)
EXTENDS CLog, SequenceTheorems, TLAPS

\* The names of a process are entered in the order of creation.
Ordered ==
  /\ \A i \in 1..Len(listFiles) : born <= listFiles[i] /\ listFiles[i] <= created
  /\ \A i, j \in 1..Len(listFiles) : i < j => listFiles[i] < listFiles[j]

BornFirst == born <= created

IInv ==
  /\ TypeOK /\ LossBounded /\ CurrentKept /\ NoneForgotten /\ LinesPrefixed
  /\ disk \subseteq 1..created
  /\ Ordered /\ BornFirst

USE MaxSizeAssumption, MaxFilesAssumption, FlushLimitAssumption,
    MaxCreatedAssumption

LEMMA FlushCounts ==
  ASSUME TypeOK, LossBounded, NEW n \in Nat, n <= unflushed + 1,
         NEW force \in BOOLEAN, Flush(n, force)
  PROVE  unflushed' \in Nat /\ flushCount' \in Nat /\ LossBounded'
<1>1. CASE flushCount > FlushLimit \/ force
  BY <1>1 DEF Flush, LossBounded, TypeOK
<1>2. CASE ~(flushCount > FlushLimit \/ force)
  BY <1>2 DEF Flush, LossBounded, TypeOK
<1>. QED
  BY <1>1, <1>2

\* A full log drops a name from its list only when the file is gone.
LEMMA ListAfterKeeps ==
  ASSUME TypeOK
  PROVE  /\ ListAfter \in Seq(Files)
         /\ \A i \in 1..Len(listFiles) : listFiles[i] \in disk =>
              \E j \in 1..Len(ListAfter) : ListAfter[j] = listFiles[i]
<1>1. CASE Removing /\ Oldest \notin disk
  <2>1. listFiles \in Seq(Files) /\ Len(listFiles) >= 2 /\ ListAfter = Tail(listFiles)
    BY <1>1 DEF TypeOK, Removing, ListAfter
  <2>2. /\ ListAfter \in Seq(Files) /\ Len(ListAfter) = Len(listFiles) - 1
        /\ \A j \in 1..Len(ListAfter) : ListAfter[j] = listFiles[j + 1]
    BY <2>1, HeadTailProperties
  <2>3. listFiles[1] \notin disk
    BY <1>1, <2>1 DEF Oldest
  <2>. SUFFICES ASSUME NEW i \in 1..Len(listFiles), listFiles[i] \in disk
                PROVE  \E j \in 1..Len(ListAfter) : ListAfter[j] = listFiles[i]
    BY <2>2
  <2>4. i - 1 \in 1..Len(ListAfter) /\ ListAfter[i - 1] = listFiles[i]
    BY <2>1, <2>2, <2>3
  <2>. QED  BY <2>4
<1>2. CASE ~(Removing /\ Oldest \notin disk)
  BY <1>2 DEF TypeOK, ListAfter
<1>. QED
  BY <1>1, <1>2

LEMMA ListAfterOrdered ==
  ASSUME TypeOK, Ordered
  PROVE  /\ \A i \in 1..Len(ListAfter) : born <= ListAfter[i] /\ ListAfter[i] <= created
         /\ \A i, j \in 1..Len(ListAfter) : i < j => ListAfter[i] < ListAfter[j]
<1>1. CASE Removing /\ Oldest \notin disk
  <2>1. listFiles \in Seq(Files) /\ Len(listFiles) >= 2 /\ ListAfter = Tail(listFiles)
    BY <1>1 DEF TypeOK, Removing, ListAfter
  <2>2. /\ Len(ListAfter) = Len(listFiles) - 1
        /\ \A j \in 1..Len(ListAfter) : ListAfter[j] = listFiles[j + 1]
    BY <2>1, HeadTailProperties
  <2>3. \A j \in 1..Len(ListAfter) : j + 1 \in 1..Len(listFiles)
    BY <2>1, <2>2
  <2>. QED  BY <2>2, <2>3 DEF Ordered
<1>2. CASE ~(Removing /\ Oldest \notin disk)
  BY <1>2 DEF Ordered, ListAfter
<1>. QED
  BY <1>1, <1>2

LEMMA WriteRotatesStep ==
  ASSUME IInv, NEW force \in BOOLEAN, WriteRotates(force)
  PROVE  IInv'
<1>1. /\ process = "up" /\ created' = created + 1 /\ created' \in Files
      /\ current' = created' /\ listFiles' = Append(ListAfter, created')
      /\ disk' \subseteq disk \cup {created'} /\ created' \in disk'
      /\ lines' = <<"name">> /\ UNCHANGED <<process, held, born>>
  BY DEF WriteRotates, DiskAfter, IInv, TypeOK, Files
<1>2. unflushed' \in Nat /\ flushCount' \in Nat /\ LossBounded'
  BY FlushCounts DEF WriteRotates, IInv, TypeOK
<1>3. ListAfter \in Seq(Files)
  BY ListAfterKeeps DEF IInv
<1>4. /\ listFiles' \in Seq(Files) /\ Len(listFiles') = Len(ListAfter) + 1
      /\ listFiles'[Len(listFiles')] = created'
      /\ \A i \in 1..Len(ListAfter) : listFiles'[i] = ListAfter[i]
  BY <1>1, <1>3, AppendProperties
<1>5. TypeOK'
  BY <1>1, <1>2, <1>4 DEF IInv, TypeOK, Files, Prefixes
<1>6. CurrentKept'
  BY <1>1, <1>4 DEF CurrentKept
<1>7. NoneForgotten'
  <2>. SUFFICES ASSUME NEW f \in disk', f >= born' PROVE f \in Listed'
    BY DEF NoneForgotten
  <2>1. CASE f = created'
    BY <1>3, <1>4, <2>1 DEF Listed
  <2>2. CASE f # created'
    <3>1. f \in disk /\ f >= born
      BY <1>1, <2>2
    <3>2. PICK i \in 1..Len(listFiles) : listFiles[i] = f
      BY <1>1, <3>1 DEF IInv, NoneForgotten, Listed
    <3>3. PICK j \in 1..Len(ListAfter) : ListAfter[j] = f
      BY <3>1, <3>2, ListAfterKeeps DEF IInv
    <3>4. j \in 1..Len(listFiles') /\ listFiles'[j] = f
      BY <1>3, <1>4, <3>3
    <3>. QED  BY <3>4 DEF Listed
  <2>. QED  BY <2>1, <2>2
<1>8. disk' \subseteq 1..created' /\ LinesPrefixed'
  BY <1>1 DEF IInv, TypeOK, Files, LinesPrefixed
<1>9. Ordered'
  <2>1. /\ \A i \in 1..Len(ListAfter) : born <= ListAfter[i] /\ ListAfter[i] <= created
        /\ \A i, j \in 1..Len(ListAfter) : i < j => ListAfter[i] < ListAfter[j]
    BY ListAfterOrdered DEF IInv
  <2>2. \A i \in 1..Len(ListAfter) : ListAfter[i] \in Nat
    BY <1>3 DEF Files
  <2>3. born \in Nat /\ created \in Nat /\ born <= created
    BY DEF IInv, TypeOK, Files, BornFirst
  <2>. QED
    BY <1>1, <1>3, <1>4, <2>1, <2>2, <2>3 DEF Ordered
<1>. QED
  BY <1>1, <1>2, <1>5, <1>6, <1>7, <1>8, <1>9 DEF IInv, TypeOK, Files, BornFirst

LEMMA WriteOverflowsStep ==
  ASSUME IInv, WriteOverflows
  PROVE  IInv'
<1>1. ListAfter \in Seq(Files)
  BY ListAfterKeeps DEF IInv
<1>2. /\ process' = "down" /\ current' = 0 /\ lines' = <<>> /\ unflushed' = 0
      /\ disk' \subseteq disk /\ listFiles' = ListAfter
      /\ UNCHANGED <<flushCount, held, born, created>>
  BY DEF WriteOverflows, DiskAfter
<1>3. TypeOK'
  BY <1>1, <1>2 DEF IInv, TypeOK, Files
<1>4. Ordered'
  BY <1>2, ListAfterOrdered DEF IInv, Ordered
<1>. QED
  BY <1>2, <1>3, <1>4 DEF IInv, TypeOK, LossBounded, CurrentKept, NoneForgotten, LinesPrefixed,
         BornFirst

LEMMA WriteStep ==
  ASSUME IInv, Write
  PROVE  IInv'
<1>1. ASSUME NEW force \in BOOLEAN, WriteNowhere(force) PROVE IInv'
  <2>1. unflushed' \in Nat /\ flushCount' \in Nat /\ LossBounded'
    BY <1>1, FlushCounts DEF WriteNowhere, IInv, TypeOK
  <2>. QED
    BY <1>1, <2>1 DEF WriteNowhere, IInv, TypeOK, CurrentKept, NoneForgotten,
           Listed, LinesPrefixed, Ordered, BornFirst
<1>2. ASSUME NEW force \in BOOLEAN, WriteLine(force) PROVE IInv'
  <2>1. unflushed' \in Nat /\ flushCount' \in Nat /\ LossBounded'
    BY <1>2, FlushCounts DEF WriteLine, IInv, TypeOK
  <2>0. PICK time \in Times : lines' = Append(lines, time)
    BY <1>2 DEF WriteLine
  <2>2. lines' \in Seq(Prefixes)
    BY <2>0, AppendProperties DEF IInv, TypeOK, Prefixes
  <2>3. LinesPrefixed'
    <3>1. lines \in Seq(Prefixes) /\ \A i \in 2..Len(lines) : lines[i] \in Times
      BY DEF IInv, TypeOK, LinesPrefixed
    <3>2. /\ Len(lines') = Len(lines) + 1 /\ lines'[Len(lines) + 1] = time
          /\ \A i \in 1..Len(lines) : lines'[i] = lines[i]
      BY <2>0, <3>1, AppendProperties DEF Prefixes
    <3>. QED  BY <3>1, <3>2 DEF LinesPrefixed
  <2>. QED
    BY <1>2, <2>1, <2>2, <2>3 DEF WriteLine, IInv, TypeOK, CurrentKept,
           NoneForgotten, Listed, Ordered, BornFirst
<1>3. ASSUME NEW force \in BOOLEAN, WriteRotates(force) PROVE IInv'
  BY <1>3, WriteRotatesStep
<1>4. CASE WriteThrows
  BY <1>4 DEF WriteThrows, IInv, TypeOK, LossBounded, CurrentKept,
         NoneForgotten, Listed, LinesPrefixed, Ordered, BornFirst
<1>5. CASE WriteOverflows
  BY <1>5, WriteOverflowsStep
<1>. QED
  BY <1>1, <1>2, <1>3, <1>4, <1>5 DEF Write

LEMMA StartStep ==
  ASSUME IInv, Start
  PROVE  IInv'
<1>1. /\ created' = created + 1 /\ created' \in Files /\ current' = created'
      /\ born' = created' /\ listFiles' = <<created'>>
      /\ disk' = disk \cup {created'}
  BY DEF Start, IInv, TypeOK, Files
<1>2. TypeOK'
  BY <1>1 DEF Start, IInv, TypeOK, Files, Prefixes
<1>3. LossBounded' /\ CurrentKept'
  BY <1>1 DEF Start, LossBounded, CurrentKept
<1>4. NoneForgotten' /\ disk' \subseteq 1..created'
  BY <1>1 DEF IInv, TypeOK, NoneForgotten, Listed, Files
<1>5. LinesPrefixed' /\ Ordered' /\ BornFirst'
  BY <1>1 DEF Start, LinesPrefixed, Ordered, BornFirst, Files
<1>. QED
  BY <1>2, <1>3, <1>4, <1>5 DEF IInv

LEMMA NextIInv == IInv /\ [Next]_vars => IInv'
<1>. SUFFICES ASSUME IInv, [Next]_vars PROVE IInv'
  OBVIOUS
<1>1. CASE Write
  BY <1>1, WriteStep
<1>2. CASE Stop
  BY <1>2 DEF Stop, IInv, TypeOK, LossBounded, CurrentKept, NoneForgotten, LinesPrefixed,
         Ordered, BornFirst
<1>3. CASE Start
  BY <1>3, StartStep
<1>4. CASE Outside
  <2>1. /\ disk' \subseteq disk /\ (current \in disk => current \in disk')
        /\ held' \subseteq Files
    BY <1>4 DEF Outside, IInv, TypeOK
  <2>2. UNCHANGED <<process, current, lines, unflushed, flushCount, listFiles,
                    born, created>>
    BY <1>4 DEF Outside
  <2>. QED
    BY <2>1, <2>2 DEF IInv, TypeOK, LossBounded, CurrentKept, NoneForgotten,
           Listed, LinesPrefixed, Ordered, BornFirst
<1>5. CASE UNCHANGED vars
  BY <1>5 DEF vars, IInv, TypeOK, LossBounded, CurrentKept, NoneForgotten,
         Listed, LinesPrefixed, Ordered, BornFirst
<1>. QED
  BY <1>1, <1>2, <1>3, <1>4, <1>5 DEF Next

LEMMA InitIInv == Init => IInv
BY DEF Init, IInv, TypeOK, LossBounded, CurrentKept, NoneForgotten, Listed,
       Files, Prefixes, LinesPrefixed, Ordered, BornFirst

LEMMA Invariance == Spec => []IInv
BY InitIInv, NextIInv, PTL DEF Spec

\* However often files are closed between two flushes, write leaves at most
\* FlushLimit + 1 lines, and the greeting, that the end of the process loses.
THEOREM LossIsBounded == Spec => []LossBounded
<1>1. IInv => LossBounded
  BY DEF IInv
<1>. QED
  BY <1>1, Invariance, PTL

\* checkFile never removes the file that write goes on with, and that file is
\* the last of listFiles.
THEOREM CurrentIsKept == Spec => []CurrentKept
<1>1. IInv => CurrentKept
  BY DEF IInv
<1>. QED
  BY <1>1, Invariance, PTL

\* listFiles drops no name of a file that exists.
THEOREM NoFileForgotten == Spec => []NoneForgotten
<1>1. IInv => NoneForgotten
  BY DEF IInv
<1>. QED
  BY <1>1, Invariance, PTL

\* Every variable keeps its type: flushCount does not get below 0, and every
\* file is one that was created.
THEOREM TypeCorrect == Spec => []TypeOK
<1>1. IInv => TypeOK
  BY DEF IInv
<1>. QED
  BY <1>1, Invariance, PTL

\* Though createFile and write share strDate, a line begins with a date and the
\* number of its thread unless it is the first of its file.
THEOREM LinesHavePrefix == Spec => []LinesPrefixed
<1>1. IInv => LinesPrefixed
  BY DEF IInv
<1>. QED
  BY <1>1, Invariance, PTL

\* What checkFile removes was created before every other file of the process
\* that exists: that one has its name in listFiles, and the list is in order.
THEOREM OldestIsRemoved == Spec => OldestRemoved
<1>1. ASSUME IInv, Write, NEW f \in disk, f \notin disk'
      PROVE  f >= born /\ \A g \in disk : g >= born => f <= g
  <2>1. process = "up" /\ Removing /\ f = Oldest
    BY <1>1 DEF Write, WriteNowhere, WriteLine, WriteRotates, WriteThrows, WriteOverflows,
           DiskAfter
  <2>2. f = listFiles[1] /\ 1 \in 1..Len(listFiles) /\ listFiles \in Seq(Files)
    BY <1>1, <2>1 DEF Removing, Oldest, IInv, TypeOK
  <2>3. f >= born
    BY <1>1, <2>2 DEF IInv, Ordered
  <2>4. ASSUME NEW g \in disk, g >= born PROVE f <= g
    <3>1. PICK i \in 1..Len(listFiles) : listFiles[i] = g
      BY <1>1, <2>1, <2>4 DEF IInv, NoneForgotten, Listed
    <3>2. CASE i = 1
      BY <2>2, <3>1, <3>2 DEF Files
    <3>3. CASE i # 1
      BY <1>1, <2>2, <3>1, <3>3 DEF IInv, Ordered, Files
    <3>. QED  BY <3>2, <3>3
  <2>. QED  BY <2>3, <2>4
<1>2. IInv /\ [Next]_vars
      => [Write => \A f \in disk \ disk' :
                     f >= born /\ \A g \in disk : g >= born => f <= g]_vars
  BY <1>1
<1>. QED
  BY <1>2, Invariance, PTL DEF Spec, OldestRemoved
=============================================================================
