--------------------------- MODULE HttpEntityProofs ---------------------------
(***************************************************************************)
(* What GetEntity does with the body of a request, for bodies of any       *)
(* length: the types of what it reads (the other half of TypeOK) and that  *)
(* a body without NUL is set back as it came.  HttpModuleProofs says who   *)
(* has the request when.                                                   *)
(***************************************************************************)
EXTENDS HttpModuleProofs, WellFoundedInduction

Bytes == {"byte", "NUL"}

----------------------------------------------------------------------------
(***************************************************************************)
(* strcpy and strlen: the prefix before the first NUL exists.              *)
(***************************************************************************)
LEMMA FirstNUL ==
  ASSUME NEW b \in Seq(Bytes), NEW j \in 1..Len(b), b[j] = "NUL"
  PROVE  \E k \in 1..Len(b) : b[k] = "NUL" /\ \A i \in 1..(k-1) : b[i] # "NUL"
<1>. DEFINE K == {i \in 1..Len(b) : b[i] = "NUL"}
            less == {p \in Nat \X Nat : p[1] < p[2]}
<1>1. IsWellFoundedOn(less, Nat)
  BY NatLessThanWellFounded DEF OpToRel
<1>2. j \in K /\ K \subseteq Nat /\ Len(b) \in Nat
  BY LenProperties
<1>3. PICK k \in K : \A i \in K : ~(<<i, k>> \in less)
  <2>. HIDE DEF less, K
  <2>. QED  BY <1>1, <1>2, WFMin
<1>4. ASSUME NEW i \in 1..(k-1), b[i] = "NUL" PROVE FALSE
  <2>1. k \in 1..Len(b) /\ i \in K
    BY <1>2, <1>4
  <2>2. i \in Nat /\ k \in Nat /\ i < k
    BY <1>2, <2>1
  <2>3. <<i, k>> \in less
    <3>. HIDE DEF K
    <3>. QED  BY <2>2
  <2>. QED
    <3>. HIDE DEF K, less
    <3>. QED  BY <1>3, <2>1, <2>3
<1>. QED
  BY <1>3, <1>4

\* A prefix of b, without NUL, that ends where b does or before a NUL.
IsUpToNUL(p, b) ==
  /\ \E n \in 0..Len(b) : p = SubSeq(b, 1, n) /\ Len(p) = n
  /\ \A i \in 1..Len(p) : p[i] # "NUL"
  /\ p = b \/ b[Len(p) + 1] = "NUL"

LEMMA PrefixProperties ==
  ASSUME NEW b \in Seq(Bytes), NEW n \in 0..Len(b)
  PROVE  /\ SubSeq(b, 1, n) \in Seq(Bytes)
         /\ Len(SubSeq(b, 1, n)) = n
         /\ \A i \in 1..n : SubSeq(b, 1, n)[i] = b[i]
<1>1. Len(b) \in Nat /\ n \in Int /\ 1 \in Int
  BY LenProperties
<1>2. \A i \in 1..n : b[i] \in Bytes
  BY <1>1, ElementOfSeq
<1>. QED
  BY <1>1, <1>2, SubSeqProperties

LEMMA UpToNULProperties ==
  ASSUME NEW b \in Seq(Bytes)
  PROVE  IsUpToNUL(UpToNUL(b), b)
<1>. DEFINE P == {SubSeq(b, 1, n) : n \in 0..Len(b)}
            Ends(p) == /\ \A i \in 1..Len(p) : p[i] # "NUL"
                       /\ p = b \/ b[Len(p) + 1] = "NUL"
<1>1. Len(b) \in Nat
  BY LenProperties
<1>2. \E p \in P : Ends(p)
  <2>1. CASE \A i \in 1..Len(b) : b[i] # "NUL"
    <3>1. b \in P
      BY <1>1, SubSeqFull
    <3>. QED  BY <2>1, <3>1
  <2>2. CASE \E i \in 1..Len(b) : b[i] = "NUL"
    <3>1. PICK k \in 1..Len(b) : b[k] = "NUL" /\ \A i \in 1..(k-1) : b[i] # "NUL"
      BY <2>2, FirstNUL
    <3>. DEFINE p == SubSeq(b, 1, k - 1)
    <3>2. k - 1 \in 0..Len(b) /\ (k - 1) + 1 = k
      BY <1>1, <3>1
    <3>3. p \in P /\ Len(p) = k - 1 /\ \A i \in 1..(k-1) : p[i] = b[i]
      BY <3>2, PrefixProperties
    <3>4. Ends(p)
      <4>. HIDE DEF p, P
      <4>. QED  BY <3>1, <3>2, <3>3
    <3>. QED  BY <3>3, <3>4
  <2>. QED  BY <2>1, <2>2
<1>3. UpToNUL(b) \in P /\ Ends(UpToNUL(b))
  <2>1. UpToNUL(b) = CHOOSE p \in P : Ends(p)
    BY DEF UpToNUL
  <2>. HIDE DEF P, Ends
  <2>. QED  BY <1>2, <2>1
<1>4. PICK n \in 0..Len(b) : UpToNUL(b) = SubSeq(b, 1, n)
  BY <1>3
<1>5. Len(UpToNUL(b)) = n
  BY <1>4, PrefixProperties
<1>. QED
  BY <1>3, <1>4, <1>5 DEF IsUpToNUL

\* What is set back is text, and never longer than what was read.
LEMMA UpToNULType ==
  ASSUME NEW b \in Seq(Bytes)
  PROVE  UpToNUL(b) \in Seq(Bytes) /\ Len(UpToNUL(b)) <= Len(b)
<1>1. PICK n \in 0..Len(b) : UpToNUL(b) = SubSeq(b, 1, n) /\ Len(UpToNUL(b)) = n
  BY UpToNULProperties DEF IsUpToNUL
<1>2. Len(b) \in Nat
  BY LenProperties
<1>. QED
  BY <1>1, <1>2, PrefixProperties

\* Where there is no NUL, all of it is.
LEMMA UpToNULWhole ==
  ASSUME NEW b \in Seq(Bytes), \A i \in 1..Len(b) : b[i] # "NUL"
  PROVE  UpToNUL(b) = b
<1>1. PICK n \in 0..Len(b) : /\ UpToNUL(b) = SubSeq(b, 1, n) /\ Len(UpToNUL(b)) = n
                             /\ UpToNUL(b) = b \/ b[n + 1] = "NUL"
  BY UpToNULProperties DEF IsUpToNUL
<1>2. Len(b) \in Nat
  BY LenProperties
<1>3. CASE n = Len(b)
  BY <1>1, <1>3, SubSeqFull
<1>4. CASE n # Len(b)
  <2>1. n + 1 \in 1..Len(b)
    BY <1>1, <1>2, <1>4
  <2>. QED  BY <1>1, <2>1
<1>. QED
  BY <1>3, <1>4

----------------------------------------------------------------------------
(***************************************************************************)
(* The invariant.  Until a thread gathers it, the body is unread; while it *)
(* does, what it has and what is left make up the body.                    *)
(***************************************************************************)
Fresh(r) == pc[r] \in {"idle", "dispatch", "post_async"}

HasNUL(b) == \E i \in 1..Len(b) : b[i] = "NUL"

EntityInv(r) ==
  /\ Fresh(r) => data[r] = <<>> /\ unread[r] = body[r]
  /\ Gathering(r) => body[r] = data[r] \o unread[r]
  /\ Gathered(r) /\ data[r] = body[r] /\ ~HasNUL(body[r]) => unread[r] = body[r]

EntitiesInv == \A r \in Requests : EntityInv(r)

EInv == IInv /\ EntityTypeOK /\ EntitiesInv /\ crashed \in BOOLEAN

\* A step of r leaves the entity of the others, and where they are, alone.
EntityStepOf(r) ==
  \A q \in Requests \ {r} :
    /\ pc'[q] = pc[q] /\ thread'[q] = thread[q]
    /\ body'[q] = body[q] /\ unread'[q] = unread[q] /\ data'[q] = data[q]

LEMMA OneEntity ==
  ASSUME EntitiesInv, NEW r \in Requests, EntityStepOf(r), EntityInv(r)'
  PROVE  EntitiesInv'
<1>. SUFFICES ASSUME NEW q \in Requests, q # r PROVE EntityInv(q)'
  BY DEF EntitiesInv
<1>1. EntityInv(q)
  BY DEF EntitiesInv
<1>. QED
  BY <1>1 DEF EntityStepOf, EntityInv, Fresh, Gathering, Gathered, HasNUL

\* The entity is left alone, and the request is where less is claimed of it,
\* or begins to be gathered.
LEMMA EntityAlone ==
  ASSUME EntityTypeOK, EntitiesInv, NEW r \in Requests,
         UNCHANGED <<body, unread, received, data>>,
         \A q \in Requests \ {r} : pc'[q] = pc[q] /\ thread'[q] = thread[q],
         Fresh(r)' => Fresh(r),
         Gathering(r)' => Gathering(r) \/ Fresh(r),
         Gathered(r)' => Gathered(r)
  PROVE  EntityTypeOK' /\ EntitiesInv'
<1>1. EntityTypeOK' /\ EntityStepOf(r)
  BY DEF EntityTypeOK, EntityStepOf
<1>2. EntityInv(r) /\ unread[r] \in Seq(Bytes)
  BY DEF EntitiesInv, EntityTypeOK, Text, Bytes
<1>3. <<>> \o unread[r] = unread[r]
  BY <1>2, ConcatEmptySeq
<1>4. Gathering(r)' => body'[r] = data'[r] \o unread'[r]
  BY <1>2, <1>3 DEF EntityInv
<1>5. HasNUL(body[r])' = HasNUL(body[r])
  BY DEF HasNUL
<1>6. EntityInv(r)'
  BY <1>2, <1>4, <1>5 DEF EntityInv
<1>. QED
  BY <1>1, <1>6, OneEntity

LEMMA BeginEntity ==
  ASSUME EInv, NEW r \in Requests, Begin(r)
  PROVE  EntityTypeOK' /\ EntitiesInv'
<1>1. PICK b \in Seq(Bytes) :
        /\ body' = [body EXCEPT ![r] = b] /\ unread' = [unread EXCEPT ![r] = b]
        /\ received' = [received EXCEPT ![r] = Len(b)]
  <2>1. PICK b \in Bodies \cup {<<>>} : body' = [body EXCEPT ![r] = b]
    BY DEF Begin
  <2>2. b \in Seq(Bytes)
    <3>1. CASE b = <<>>
      BY <3>1, EmptySeq
    <3>2. CASE b \in Bodies
      BY <3>2, SeqDef, MaxBodyAssumption DEF Bodies, Bytes
    <3>. QED  BY <3>1, <3>2
  <2>3. body'[r] = b
    BY <2>1 DEF EInv, EntityTypeOK
  <2>. QED  BY <2>1, <2>2, <2>3 DEF Begin
<1>2. /\ pc[r] = "idle" /\ pc' = [pc EXCEPT ![r] = "dispatch"]
      /\ UNCHANGED <<thread, data>>
  BY DEF Begin, asyncVars
<1>3. Len(b) \in Nat
  BY LenProperties
<1>4. EntityTypeOK'
  BY <1>1, <1>2, <1>3 DEF EInv, EntityTypeOK, Text, Bytes
<1>5. EntityStepOf(r) /\ pc'[r] = "dispatch" /\ body'[r] = b /\ unread'[r] = b
  BY <1>1, <1>2 DEF EInv, IInv, ControlTypeOK, EntityTypeOK, EntityStepOf
<1>6. data'[r] = <<>> /\ thread'[r] = "none"
  BY <1>2 DEF EInv, EntitiesInv, EntityInv, Fresh, IInv, RequestsInv, RequestInv
<1>7. EntityInv(r)'
  BY <1>5, <1>6 DEF EntityInv, Fresh, Gathering, Gathered
<1>. QED
  BY <1>4, <1>5, <1>7, OneEntity DEF EInv

----------------------------------------------------------------------------
(***************************************************************************)
(* GetEntity, in either thread.                                            *)
(***************************************************************************)
\* A read moves bytes from what is left to what was gathered.
LEMMA ReadEffect ==
  ASSUME EInv, NEW r \in Requests, Gathering(r), ReadEntityBody(r)
  PROVE  /\ EntityTypeOK'
         /\ body'[r] = data'[r] \o unread'[r] /\ UNCHANGED body
         /\ \A q \in Requests \ {r} : unread'[q] = unread[q] /\ data'[q] = data[q]
<1>1. PICK n \in 1..received[r] :
        /\ n <= Len(unread[r])
        /\ data' = [data EXCEPT ![r] = data[r] \o SubSeq(unread[r], 1, n)]
        /\ unread' = [unread EXCEPT ![r] = SubSeq(unread[r], n + 1, Len(unread[r]))]
        /\ received' = [received EXCEPT ![r] = n]
        /\ UNCHANGED body
  BY DEF ReadEntityBody
<1>2. /\ data[r] \in Seq(Bytes) /\ unread[r] \in Seq(Bytes) /\ received[r] \in Nat
      /\ body[r] = data[r] \o unread[r]
  BY DEF EInv, EntityTypeOK, EntitiesInv, EntityInv, Text, Bytes
<1>. DEFINE u == unread[r]
            read == SubSeq(u, 1, n)
            left == SubSeq(u, n + 1, Len(u))
<1>3. Len(u) \in Nat /\ n \in Nat /\ n >= 1 /\ n <= Len(u)
  BY <1>1, <1>2, LenProperties
<1>4. read \in Seq(Bytes) /\ left \in Seq(Bytes)
  <2>1. \A i \in 1..n : u[i] \in Bytes
    BY <1>2, <1>3, ElementOfSeq
  <2>2. \A i \in (n+1)..Len(u) : u[i] \in Bytes
    BY <1>2, <1>3, ElementOfSeq
  <2>3. 1 \in Int /\ n \in Int /\ n + 1 \in Int /\ Len(u) \in Int
    BY <1>3
  <2>4. read \in Seq(Bytes)
    BY <2>1, <2>3, SubSeqProperties
  <2>5. left \in Seq(Bytes)
    BY <2>2, <2>3, SubSeqProperties
  <2>. QED  BY <2>4, <2>5
<1>5. read \o left = u
  <2>1. 1 \in 1..Len(u)+1 /\ n \in (1-1)..Len(u) /\ Len(u) \in n..Len(u)
    BY <1>3
  <2>2. SubSeq(u, 1, n) \o SubSeq(u, n + 1, Len(u)) = SubSeq(u, 1, Len(u))
    BY <1>2, <2>1, ConcatAdjacentSubSeq
  <2>. QED  BY <1>2, <2>2, SubSeqFull
<1>6. data[r] \o read \in Seq(Bytes)
  BY <1>2, <1>4, ConcatProperties
<1>7. (data[r] \o read) \o left = data[r] \o u
  <2>1. \A s, t, v \in Seq(Bytes) : (s \o t) \o v = s \o (t \o v)
    BY ConcatAssociative
  <2>2. (data[r] \o read) \o left = data[r] \o (read \o left)
    <3>. HIDE DEF read, left
    <3>. QED  BY <1>2, <1>4, <2>1
  <2>. QED  BY <1>5, <2>2
<1>. HIDE DEF read, left
<1>8. /\ data' = [data EXCEPT ![r] = data[r] \o read]
      /\ unread' = [unread EXCEPT ![r] = left]
  BY <1>1 DEF read, left
<1>9. EntityTypeOK'
  BY <1>1, <1>3, <1>4, <1>6, <1>8 DEF EInv, EntityTypeOK, Text, Bytes
<1>10. /\ data'[r] = data[r] \o read /\ unread'[r] = left
       /\ \A q \in Requests \ {r} : unread'[q] = unread[q] /\ data'[q] = data[q]
  BY <1>8 DEF EInv, EntityTypeOK
<1>. QED
  BY <1>1, <1>2, <1>7, <1>9, <1>10

\* GetEntity ends: if it has the whole body, without NUL, that is set back.
LEMMA ReturnsEffect ==
  ASSUME EInv, NEW r \in Requests, Gathering(r), GetEntityReturns(r)
  PROVE  /\ EntityTypeOK' /\ UNCHANGED <<body, data>>
         /\ data[r] = body[r] /\ ~HasNUL(body[r]) => unread'[r] = body[r]
         /\ \A q \in Requests \ {r} : unread'[q] = unread[q]
<1>. DEFINE set == IF unread[r] = <<>> THEN UpToNUL(data[r]) ELSE unread[r]
<1>1. unread' = [unread EXCEPT ![r] = set] /\ UNCHANGED <<body, received, data>>
  BY DEF GetEntityReturns
<1>2. /\ data[r] \in Seq(Bytes) /\ unread[r] \in Seq(Bytes)
      /\ body[r] = data[r] \o unread[r]
  BY DEF EInv, EntityTypeOK, EntitiesInv, EntityInv, Text, Bytes
<1>3. set \in Seq(Bytes)
  BY <1>2, UpToNULType
<1>4. ASSUME data[r] = body[r], ~HasNUL(body[r]) PROVE set = body[r]
  <2>1. \A s, t \in Seq(Bytes) : s \o t = s => t = <<>>
    BY ConcatEqualIffEmpty
  <2>2. unread[r] = <<>>
    BY <1>2, <1>4, <2>1
  <2>. QED  BY <1>2, <1>4, <2>2, UpToNULWhole DEF HasNUL
<1>. HIDE DEF set
<1>5. EntityTypeOK'
  BY <1>1, <1>3 DEF EInv, EntityTypeOK, Text, Bytes
<1>6. unread'[r] = set /\ \A q \in Requests \ {r} : unread'[q] = unread[q]
  BY <1>1 DEF EInv, EntityTypeOK
<1>. QED
  BY <1>1, <1>4, <1>5, <1>6

\* OnBeginRequest or the thread of ExecuteRequest is in GetEntity; the other
\* is not.
LEMMA GetEntityStep ==
  ASSUME EInv, NEW r \in Requests, Gathering(r), ~Fresh(r)', 
         \A q \in Requests \ {r} : pc'[q] = pc[q] /\ thread'[q] = thread[q],
         \/ ReadEntityBody(r) /\ ~Gathered(r)'
         \/ GetEntityReturns(r) /\ ~Gathering(r)'
  PROVE  EntityTypeOK' /\ EntitiesInv'
<1>1. CASE ReadEntityBody(r) /\ ~Gathered(r)'
  <2>1. EntityInv(r)'
    BY <1>1, ReadEffect DEF EntityInv
  <2>2. EntityStepOf(r)
    BY <1>1, ReadEffect DEF EntityStepOf
  <2>. QED  BY <1>1, <2>1, <2>2, ReadEffect, OneEntity DEF EInv
<1>2. CASE GetEntityReturns(r) /\ ~Gathering(r)'
  <2>1. UNCHANGED <<body, data>>
    BY <1>2, ReturnsEffect
  <2>2. HasNUL(body[r])' = HasNUL(body[r])
    BY <2>1 DEF HasNUL
  <2>3. EntityInv(r)'
    BY <1>2, <2>1, <2>2, ReturnsEffect DEF EntityInv
  <2>4. EntityStepOf(r)
    BY <1>2, <2>1, ReturnsEffect DEF EntityStepOf
  <2>. QED  BY <1>2, <2>3, <2>4, ReturnsEffect, OneEntity DEF EInv
<1>. QED
  BY <1>1, <1>2

\* What is known of a request whose thread was started, and of one whose is not.
LEMMA Exclusive ==
  ASSUME IInv, NEW r \in Requests
  PROVE  /\ thread[r] # "none" => pc[r] \in {"reading", "pending", "returned"}
         /\ url \in [Requests -> Urls \cup {"none"}] /\ pc \in [Requests -> Pcs]
         /\ url[r] = "none" => pc[r] \in {"idle", "returned"}
         /\ ControlTypeOK
BY DEF IInv, RequestsInv, RequestInv, ControlTypeOK, Pcs

\* OnBeginRequest goes on without GetEntity.
LEMMA OnBeginEntity ==
  ASSUME EInv, NEW r \in Requests, NEW from \in Pcs, NEW to \in Pcs,
         pc[r] = from, pc'[r] = to,
         \A q \in Requests \ {r} : pc'[q] = pc[q],
         UNCHANGED <<body, unread, received, data, thread>>,
         to \in {"idle", "dispatch", "post_async"} => from \in {"idle", "dispatch"},
         to = "post_file" => from = "dispatch",
         to \in {"raw", "texts"} => from \in {"raw", "texts"}
  PROVE  EntityTypeOK' /\ EntitiesInv'
<1>1. Fresh(r)' => Fresh(r)
  BY DEF Fresh
<1>2. Gathering(r)' => Gathering(r) \/ Fresh(r)
  BY DEF Gathering, Fresh
<1>3. Gathered(r)' => Gathered(r)
  BY DEF Gathered
<1>. QED
  BY <1>1, <1>2, <1>3, EntityAlone DEF EInv

LEMMA ReturnsEntity ==
  ASSUME EInv, NEW r \in Requests, NEW from, NEW with \in Results,
         Return(r, from, with), UNCHANGED <<body, unread, received, data, thread>>
  PROVE  EntityTypeOK' /\ EntitiesInv'
<1>1. /\ pc[r] \in Pcs /\ pc'[r] = "returned" /\ "returned" \in Pcs
      /\ \A q \in Requests \ {r} : pc'[q] = pc[q]
  BY Exclusive, ReturnEffect DEF EInv, Pcs
<1>. QED
  BY <1>1, OnBeginEntity

LEMMA GotoEntity ==
  ASSUME EInv, NEW r \in Requests, NEW from, NEW to \in Pcs,
         Goto(r, from, to), UNCHANGED <<body, unread, received, data, thread>>,
         to \in {"idle", "dispatch", "post_async"} => from \in {"idle", "dispatch"},
         to = "post_file" => from = "dispatch",
         to \in {"raw", "texts"} => from \in {"raw", "texts"}
  PROVE  EntityTypeOK' /\ EntitiesInv'
<1>1. /\ pc[r] \in Pcs /\ pc[r] = from /\ pc'[r] = to
      /\ \A q \in Requests \ {r} : pc'[q] = pc[q]
  BY Exclusive, GotoEffect DEF EInv, Pcs
<1>. QED
  BY <1>1, OnBeginEntity

LEMMA RequestEntity ==
  ASSUME EInv, NEW r \in Requests, OnBeginRequest(r) \/ LogFails(r)
  PROVE  EntityTypeOK' /\ EntitiesInv'
<1>. USE DEF entityVars, asyncVars
<1>1. CASE Dispatch(r)
  <2>. UNCHANGED <<body, unread, received, data, thread>>
    BY <1>1 DEF Dispatch
  <2>1. CASE url[r] \in {"noSlash", "other"}
    <3>1. Return(r, "dispatch", "continue")
      BY <1>1, <2>1 DEF Dispatch, Throws
    <3>. QED  BY <3>1, ReturnsEntity DEF Results
  <2>2. CASE url[r] \notin {"noSlash", "other"}
    <3>1. Goto(r, "dispatch", url[r])
      BY <1>1, <2>2 DEF Dispatch
    <3>2. url[r] \in Pcs /\ url[r] \notin {"raw", "texts"}
      BY <2>2, <3>1, Exclusive DEF Goto, Pcs, Urls, EInv
    <3>. QED  BY <3>1, <3>2, GotoEntity
  <2>. QED  BY <2>1, <2>2
<1>2. CASE FileEntity(r)
  <2>1. pc[r] = "post_file" /\ Gathering(r) /\ UNCHANGED thread
    BY <1>2 DEF FileEntity, Goto, Gathering
  <2>2. thread[r] = "none"
    BY <2>1, Exclusive DEF EInv
  <2>3. PICK to \in {"post_file", "raw"} :
          /\ Goto(r, "post_file", to)
          /\ to = "post_file" => ReadEntityBody(r)
          /\ to = "raw" => GetEntityReturns(r)
    BY <1>2 DEF FileEntity
  <2>4. pc'[r] = to /\ \A q \in Requests \ {r} : pc'[q] = pc[q]
    BY <2>3, Exclusive, GotoEffect DEF EInv, Pcs, Urls
  <2>5. /\ ~Fresh(r)'
        /\ to = "post_file" => ~Gathered(r)'
        /\ to = "raw" => ~Gathering(r)'
    BY <2>1, <2>2, <2>4 DEF Fresh, Gathered, Gathering
  <2>. QED  BY <2>1, <2>3, <2>4, <2>5, GetEntityStep
<1>3. CASE AsyncThread(r)
  <2>1. CASE Throws(r, "post_async") /\ UNCHANGED thread
    BY <1>3, <2>1, ReturnsEntity DEF AsyncThread, Throws, Results
  <2>2. CASE /\ Goto(r, "post_async", "pending")
             /\ thread' = [thread EXCEPT ![r] = "entity"]
    <3>1. /\ pc[r] = "post_async" /\ pc'[r] = "pending"
          /\ \A q \in Requests \ {r} : pc'[q] = pc[q]
      BY <2>2, Exclusive, GotoEffect DEF EInv, Pcs
    <3>2. thread'[r] = "entity" /\ \A q \in Requests \ {r} : thread'[q] = thread[q]
      BY <2>2, Exclusive DEF EInv, ControlTypeOK
    <3>3. UNCHANGED <<body, unread, received, data>>
      BY <1>3 DEF AsyncThread
    <3>4. Fresh(r) /\ ~Fresh(r)' /\ ~Gathered(r)'
      BY <3>1, <3>2 DEF Fresh, Gathered
    <3>. QED  BY <3>1, <3>2, <3>3, <3>4, EntityAlone DEF EInv
  <2>. QED  BY <1>3, <2>1, <2>2 DEF AsyncThread
<1>4. CASE LogFails(r)
  BY <1>4, ReturnsEntity DEF LogFails, Results
<1>5. CASE Upgrade(r)
  BY <1>5, ReturnsEntity, GotoEntity DEF Upgrade, Fails, Results, Pcs
<1>6. CASE Handshake(r) \/ ReadLogged(r) \/ Pending(r) \/ Page(r)
  BY <1>6, ReturnsEntity, GotoEntity DEF Handshake, ReadLogged, Pending, Page, Results, Pcs
<1>7. CASE FileRaw(r)
  BY <1>7, ReturnsEntity, GotoEntity DEF FileRaw, Results, Pcs
<1>8. CASE FileTexts(r)
  BY <1>8, ReturnsEntity DEF FileTexts, Results
<1>9. CASE Warmup(r) \/ WarmupBegun(r) \/ WarmupEnds(r)
  BY <1>9, ReturnsEntity, GotoEntity DEF Warmup, WarmupBegun, WarmupEnds, Fails, Results, Pcs
<1>. QED
  BY <1>1, <1>2, <1>3, <1>4, <1>5, <1>6, <1>7, <1>8, <1>9 DEF OnBeginRequest

LEMMA ThreadEntity ==
  ASSUME EInv, NEW r \in Requests, ExecuteRequest(r) \/ CleanupStoredContext(r)
  PROVE  EntityTypeOK' /\ EntitiesInv'
<1>. UNCHANGED pc
  BY DEF ExecuteRequest, ExecuteEntity, ExecuteWrite, ExecuteIndicate,
         CleanupStoredContext, SessionEnds, SessionCloses
<1>1. thread \in [Requests -> {"none", "entity", "write", "indicate", "done", "failed"}]
  BY DEF EInv, IInv, ControlTypeOK
<1>2. thread[r] # "none" => pc[r] \in {"reading", "pending", "returned"}
  BY Exclusive DEF EInv
<1>3. CASE ExecuteEntity(r)
  <2>1. PICK to \in {"entity", "write"} :
          /\ Thread(r, "entity", to)
          /\ to = "entity" => ReadEntityBody(r)
          /\ to = "write" => GetEntityReturns(r)
    BY <1>3 DEF ExecuteEntity
  <2>2. /\ thread[r] = "entity" /\ thread'[r] = to
        /\ \A q \in Requests \ {r} : thread'[q] = thread[q]
    BY <1>1, <2>1 DEF Thread
  <2>3. /\ Gathering(r) /\ ~Fresh(r)'
        /\ to = "entity" => ~Gathered(r)'
        /\ to = "write" => ~Gathering(r)'
    BY <1>2, <2>2 DEF Gathering, Gathered, Fresh
  <2>. QED  BY <2>1, <2>2, <2>3, GetEntityStep
<1>4. CASE ExecuteWrite(r) \/ ExecuteIndicate(r)
  <2>1. PICK to \in {"indicate", "failed", "done"} :
          Thread(r, IF to = "done" THEN "indicate" ELSE "write", to)
    BY <1>4 DEF ExecuteWrite, ExecuteIndicate
  <2>2. /\ thread[r] \in {"write", "indicate"} /\ thread'[r] = to
        /\ \A q \in Requests \ {r} : thread'[q] = thread[q]
    BY <1>1, <2>1 DEF Thread
  <2>3. UNCHANGED <<body, unread, received, data>>
    BY <1>4 DEF ExecuteWrite, ExecuteIndicate, entityVars
  <2>4. /\ Fresh(r)' => Fresh(r)
        /\ Gathering(r)' => Gathering(r)
        /\ Gathered(r)' => Gathered(r)
    BY <2>2 DEF Fresh, Gathering, Gathered
  <2>. QED  BY <2>2, <2>3, <2>4, EntityAlone DEF EInv
<1>5. CASE CleanupStoredContext(r)
  BY <1>5, EntityAlone DEF EInv, CleanupStoredContext, SessionEnds, SessionCloses,
                           entityVars, Fresh, Gathering, Gathered
<1>. QED
  BY <1>3, <1>4, <1>5 DEF ExecuteRequest

----------------------------------------------------------------------------
LEMMA EntityInit == Init => EInv
<1>. SUFFICES ASSUME Init PROVE EInv
  OBVIOUS
<1>1. EntityTypeOK
  BY EmptySeq DEF Init, EntityTypeOK, Text
<1>2. EntitiesInv
  BY DEF Init, EntitiesInv, EntityInv, Gathering, Gathered
<1>. QED
  BY <1>1, <1>2, InitIInv DEF EInv, Init

LEMMA EntityNext == EInv /\ [Next]_vars => EInv'
<1>0. ASSUME EInv, [Next]_vars PROVE crashed' \in BOOLEAN
  BY <1>0 DEF EInv, Next, Step, HeaderMissing, vars
<1>. SUFFICES ASSUME EInv, [Next]_vars PROVE EntityTypeOK' /\ EntitiesInv'
  BY <1>0, NextIInv DEF EInv
<1>1. CASE UNCHANGED vars
  BY <1>1 DEF vars, EInv, EntityTypeOK, EntitiesInv, EntityInv, Fresh, Gathering,
              Gathered, HasNUL
<1>2. ASSUME NEW r \in Requests, Step(r) PROVE EntityTypeOK' /\ EntitiesInv'
  BY <1>2, BeginEntity, RequestEntity, ThreadEntity DEF Step
<1>3. ASSUME NEW r \in Requests, HeaderMissing(r) PROVE EntityTypeOK' /\ EntitiesInv'
  BY <1>3 DEF HeaderMissing, asyncVars, entityVars, EInv, EntityTypeOK, EntitiesInv,
              EntityInv, Fresh, Gathering, Gathered, HasNUL
<1>. QED
  BY <1>1, <1>2, <1>3 DEF Next

LEMMA EntityInvariance == Spec => []EInv
BY EntityInit, EntityNext, PTL DEF Spec

\* Whatever ReadEntityBody returns and wherever it fails, GetEntity reads and
\* sets back text, and every other variable keeps its type.
THEOREM HttpTypes == Spec => []TypeOK
<1>1. EInv => TypeOK
  BY DEF EInv, IInv, TypeOK
<1>. QED
  BY <1>1, EntityInvariance, PTL

\* GetEntity loses no byte however many reads it takes, in OnBeginRequest and
\* in the thread of ExecuteRequest, and a body it has in full is set back as
\* it came if there is no NUL in it.
THEOREM BodyIsSetBack == Spec => []BodySetBack
<1>1. EInv => BodySetBack
  BY DEF EInv, EntitiesInv, EntityInv, BodySetBack, HasNUL
<1>. QED
  BY <1>1, EntityInvariance, PTL
=============================================================================
