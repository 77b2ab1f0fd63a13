--------------------------- MODULE ModuleLifeProofs ---------------------------
(***************************************************************************)
(* What holds of ModuleLife for any set of requests.  Its steps are steps  *)
(* of HttpModule or leave the requests alone, so what HttpModuleProofs     *)
(* shows of a request holds in a process that starts and stops; the        *)
(* inductive invariant, LifeInv, adds who owns what while it does.         *)
(***************************************************************************)
EXTENDS ModuleLife, HttpModuleProofs

\* The log is opened first and deleted last.
PhaseInv ==
  /\ p_log = "none" => registering = "none" /\ process = "loaded"
  /\ p_log = "deleted" <=> process = "ended"
  /\ process # "loaded" => Returned
  /\ process = "serving" => registering = "registered"
  /\ process \in {"exiting", "ended"} => registered = {}

\* An object belongs to RegisterModule from its creation to its registration,
\* and then to IIS.
OwnInv ==
  /\ "context" \notin registered
  /\ registering \in {"none", "global", "refused"} => registered = {}
  /\ registering \in {"globalSet", "factory"} =>
       process = "loaded" /\ registered = {"global"}
  /\ objects["global"] =
       IF registering = "none" THEN "none"
       ELSE IF registering \in {"global", "refused"} \/ "global" \in registered
         THEN "live" ELSE "deleted"
  /\ objects["factory"] =
       IF registering \in {"none", "global", "globalSet", "refused"} THEN "none"
       ELSE IF registering = "factory" \/ "factory" \in registered
         THEN "live" ELSE "deleted"
  /\ registering \in {"global", "none"} => process = "loaded"
  /\ registering = "failed" => "factory" \notin registered

PreloadInv ==
  /\ preload = "none" => objects["context"] = "none"
  /\ preload = "created" => objects["context"] = "live"
  /\ preload = "Finished" => objects["context"] \in {"none", "live"}
  /\ preload = "returned" => objects["context"] \in {"none", "deleted"}

\* The CMyHttpModule of a request outlives its handlers.
ServedInv(r) ==
  /\ module[r] = "none" => pc[r] = "idle"
  /\ module[r] = "deleted" => pc[r] = "returned" /\ Completed(r)
  /\ process # "serving" => module[r] # "live"

AllServed == \A r \in Requests : ServedInv(r)

ProcessInv == LifeTypeOK /\ PhaseInv /\ OwnInv /\ PreloadInv

LifeInv == IInv /\ ProcessInv /\ AllServed

----------------------------------------------------------------------------
\* The steps of DllMain, RegisterModule, the global module and IIS.
Around ==
  \/ ProcessAttach \/ ProcessDetach \/ Register \/ OnGlobalApplicationPreload
  \/ Serve \/ StopServing \/ Exit
  \/ \E o \in Objects : Terminate(o)
  \/ \E r \in Requests : ThreadAttach(r) \/ ThreadDetach(r) \/ GetHttpModule(r) \/ Dispose(r)

\* The steps of a request.
Within(r) == BeginsOrThrows(r) \/ Handles(r) \/ Executes(r) \/ SessionOver(r) \/ Crashes(r)

LEMMA AroundLeavesRequests == ASSUME Around PROVE UNCHANGED vars
BY DEF Around, ProcessAttach, ProcessDetach, Register, NewGlobal,
       SetGlobalNotifications, NewFactory, SetRequestNotifications,
       OnGlobalApplicationPreload, CreateContext, GetInterface, ReleaseContext,
       Preload, Serve, StopServing, Exit, Terminate, ThreadAttach, ThreadDetach,
       GetHttpModule, Dispose

LEMMA WithinIsStep ==
  ASSUME NEW r \in Requests, Within(r)
  PROVE  Next /\ UNCHANGED lifeVars
BY DEF Within, BeginsOrThrows, Handles, Executes, SessionOver, Crashes, InHandler, Alive,
       Next, Step

LEMMA LifeStep == LifeNext => Around \/ \E r \in Requests : Within(r)
BY DEF LifeNext, Around, Within

LEMMA LifeNextImplements == [LifeNext]_allVars => [Next]_vars
BY LifeStep, AroundLeavesRequests, WithinIsStep DEF allVars

\* The requests of a process are those of HttpModule: whatever is shown of its
\* requests holds of them while the module is loaded, registered and stopped.
THEOREM LifeImplementsHttpModule == LifeSpec => Spec
<1>1. LifeInit => Init
  BY DEF LifeInit
<1>. QED
  BY <1>1, LifeNextImplements, PTL DEF LifeSpec, Spec

----------------------------------------------------------------------------
LEMMA AttachStep ==
  ASSUME ProcessInv, ProcessAttach \/ ProcessDetach
  PROVE  ProcessInv'
<1>. USE DEF ProcessInv, LifeTypeOK, PhaseInv, OwnInv, PreloadInv, Returned
<1>1. CASE ProcessAttach
  BY <1>1 DEF ProcessAttach
<1>2. CASE ProcessDetach
  BY <1>2 DEF ProcessDetach
<1>. QED
  BY <1>1, <1>2

LEMMA RegisterStep ==
  ASSUME ProcessInv, Register
  PROVE  ProcessInv'
<1>. USE DEF ProcessInv, LifeTypeOK, PhaseInv, OwnInv, PreloadInv, Returned, At, Objects
<1>1. CASE NewGlobal
  BY <1>1 DEF NewGlobal, New
<1>2. CASE SetGlobalNotifications
  BY <1>2 DEF SetGlobalNotifications
<1>3. CASE NewFactory
  BY <1>3 DEF NewFactory, New
<1>4. CASE SetRequestNotifications
  BY <1>4 DEF SetRequestNotifications, Delete
<1>. QED
  BY <1>1, <1>2, <1>3, <1>4 DEF Register

LEMMA PreloadStep ==
  ASSUME ProcessInv, OnGlobalApplicationPreload
  PROVE  ProcessInv'
<1>. USE DEF ProcessInv, LifeTypeOK, PhaseInv, OwnInv, PreloadInv, Returned, Preload, Objects
<1>1. CASE CreateContext
  <2>1. preload = "none" /\ UNCHANGED <<process, p_log, registering, registered, module, attached>>
    BY <1>1 DEF CreateContext
  <2>2. \/ preload' = "created" /\ objects' = [objects EXCEPT !["context"] = "live"]
        \/ preload' = "Finished" /\ UNCHANGED objects
    BY <1>1 DEF CreateContext, New
  <2>3. preload' = "created" => objects'["context"] = "live"
    BY <2>2
  <2>. QED  BY <2>1, <2>2, <2>3
<1>2. CASE GetInterface
  BY <1>2 DEF GetInterface
<1>3. CASE ReleaseContext
  BY <1>3 DEF ReleaseContext, Delete
<1>. QED
  BY <1>1, <1>2, <1>3 DEF OnGlobalApplicationPreload

LEMMA ServerStep ==
  ASSUME ProcessInv,
         \/ Serve \/ StopServing \/ Exit
         \/ \E o \in Objects : Terminate(o)
         \/ \E r \in Requests : ThreadAttach(r) \/ ThreadDetach(r) \/ GetHttpModule(r) \/ Dispose(r)
  PROVE  ProcessInv'
<1>. USE DEF ProcessInv, LifeTypeOK, PhaseInv, OwnInv, PreloadInv, Returned, Objects
<1>1. CASE Serve
  BY <1>1 DEF Serve
<1>2. CASE StopServing
  BY <1>2 DEF StopServing
<1>3. CASE Exit
  BY <1>3 DEF Exit
<1>4. ASSUME NEW o \in Objects, Terminate(o) PROVE ProcessInv'
  BY <1>4 DEF Terminate, Delete
<1>5. ASSUME NEW r \in Requests,
             ThreadAttach(r) \/ ThreadDetach(r) \/ GetHttpModule(r) \/ Dispose(r)
      PROVE  ProcessInv'
  BY <1>5 DEF ThreadAttach, ThreadDetach, GetHttpModule, Dispose
<1>. QED
  BY <1>1, <1>2, <1>3, <1>4, <1>5

\* A module is made before its request begins and deleted after it was
\* completed; IIS stops serving when none is left.
LEMMA AroundServed ==
  ASSUME LifeTypeOK, AllServed, OwnInv, Around
  PROVE  AllServed'
<1>. UNCHANGED vars
  BY AroundLeavesRequests
<1>. SUFFICES ASSUME NEW q \in Requests PROVE ServedInv(q)'
  BY DEF AllServed
<1>. ServedInv(q)
  BY DEF AllServed
<1>. USE DEF ServedInv, Completed, vars
<1>1. CASE Serve \/ StopServing \/ Exit \/ ProcessDetach
  BY <1>1 DEF Serve, StopServing, Exit, ProcessDetach, AllServed
<1>2. ASSUME NEW r \in Requests, GetHttpModule(r) \/ Dispose(r) PROVE ServedInv(q)'
  BY <1>2 DEF GetHttpModule, Dispose, LifeTypeOK
<1>3. CASE UNCHANGED <<process, module>>
  BY <1>3
<1>. QED
  BY <1>1, <1>2, <1>3
  DEF Around, ProcessAttach, Register, NewGlobal, SetGlobalNotifications, NewFactory,
      SetRequestNotifications, OnGlobalApplicationPreload, CreateContext, GetInterface,
      ReleaseContext, Preload, Terminate, ThreadAttach, ThreadDetach

\* A handler moves its own request only.
LEMMA HandlerMoves ==
  ASSUME ControlTypeOK, NEW r \in Requests,
         Begin(r) \/ LogFails(r) \/ OnBeginRequest(r)
  PROVE  /\ \E to : pc' = [pc EXCEPT ![r] = to]
         /\ UNCHANGED result \/ \E with : result' = [result EXCEPT ![r] = with]
<1>1. CASE Begin(r)
  BY <1>1 DEF Begin
<1>2. CASE LogFails(r)
  BY <1>2 DEF LogFails, Return
<1>3. CASE Dispatch(r)
  BY <1>3 DEF Dispatch, Throws, Return, Goto
<1>4. CASE Handshake(r) \/ Upgrade(r) \/ ReadLogged(r) \/ Pending(r) \/ Page(r)
  BY <1>4 DEF Handshake, Upgrade, ReadLogged, Pending, Page, Fails, Return, Goto
<1>5. CASE FileEntity(r) \/ FileRaw(r) \/ FileTexts(r) \/ AsyncThread(r)
  BY <1>5 DEF FileEntity, FileRaw, FileTexts, AsyncThread, Throws, Return, Goto
<1>6. CASE Warmup(r) \/ WarmupBegun(r) \/ WarmupEnds(r)
  BY <1>6 DEF Warmup, WarmupBegun, WarmupEnds, Fails, Return, Goto
<1>. QED
  BY <1>1, <1>2, <1>3, <1>4, <1>5, <1>6 DEF OnBeginRequest

\* What is left of a request whose module is deleted only adds to its completion.
LEMMA WithinServed ==
  ASSUME ControlTypeOK, AllServed, NEW r \in Requests, Within(r)
  PROVE  AllServed'
<1>. UNCHANGED lifeVars
  BY WithinIsStep
<1>. SUFFICES ASSUME NEW q \in Requests PROVE ServedInv(q)'
  BY DEF AllServed
<1>0. ServedInv(q)
  BY DEF AllServed
<1>1. CASE Executes(r) \/ SessionOver(r) \/ Crashes(r)
  <2>1. UNCHANGED <<pc, result>>
    BY <1>1 DEF Executes, SessionOver, CleanupStoredContext, SessionEnds,
                SessionCloses, Crashes, HeaderMissing, asyncVars, ExecuteRequest,
                ExecuteEntity, ExecuteWrite, ExecuteIndicate
  <2>2. indicated' = indicated \/ indicated' = [indicated EXCEPT ![r] = @ + 1]
    BY <1>1 DEF Executes, SessionOver, CleanupStoredContext, SessionEnds,
                SessionCloses, Crashes, HeaderMissing, asyncVars, ExecuteRequest,
                ExecuteEntity, ExecuteWrite, ExecuteIndicate
  <2>3. indicated[q] > 0 => indicated'[q] > 0
    <3>. indicated \in [Requests -> Nat]
      BY DEF ControlTypeOK
    <3>1. CASE indicated' = indicated
      BY <3>1
    <3>2. CASE indicated' = [indicated EXCEPT ![r] = @ + 1]
      BY <3>2
    <3>. QED  BY <2>2, <3>1, <3>2
  <2>. QED
    BY <1>0, <2>1, <2>3 DEF ServedInv, Completed, lifeVars
<1>2. CASE BeginsOrThrows(r) \/ Handles(r)
  <2>1. module[r] = "live"
    BY <1>2 DEF BeginsOrThrows, Handles, InHandler
  <2>2. UNCHANGED indicated
    BY <1>2 DEF BeginsOrThrows, Handles, OnBeginRequest, Begin, LogFails, Dispatch,
                Handshake, Upgrade, ReadLogged, Pending, Page, FileEntity, FileRaw, FileTexts,
                AsyncThread, Warmup, WarmupBegun, WarmupEnds, asyncVars
  <2>3. /\ \E to : pc' = [pc EXCEPT ![r] = to]
        /\ UNCHANGED result \/ \E with : result' = [result EXCEPT ![r] = with]
    BY <1>2, HandlerMoves DEF BeginsOrThrows, Handles
  <2>4. q # r => pc'[q] = pc[q] /\ result'[q] = result[q]
    BY <2>3 DEF ControlTypeOK
  <2>. QED
    BY <1>0, <2>1, <2>2, <2>4 DEF ServedInv, Completed, lifeVars
<1>. QED
  BY <1>1, <1>2 DEF Within

----------------------------------------------------------------------------
LEMMA InitLifeInv == LifeInit => LifeInv
<1>. SUFFICES ASSUME LifeInit PROVE LifeInv
  OBVIOUS
<1>1. IInv
  BY InitIInv DEF LifeInit
<1>2. ProcessInv
  BY DEF LifeInit, ProcessInv, LifeTypeOK, PhaseInv, OwnInv, PreloadInv, Objects
<1>3. AllServed
  BY DEF LifeInit, Init, AllServed, ServedInv
<1>. QED
  BY <1>1, <1>2, <1>3 DEF LifeInv

LEMMA NextLifeInv == LifeInv /\ [LifeNext]_allVars => LifeInv'
<1>. SUFFICES ASSUME IInv, ProcessInv, AllServed, [LifeNext]_allVars PROVE LifeInv'
  BY DEF LifeInv
<1>1. IInv'
  BY LifeNextImplements, NextIInv
<1>2. CASE UNCHANGED allVars
  <2>1. ProcessInv'
    BY <1>2 DEF allVars, lifeVars, ProcessInv, LifeTypeOK, PhaseInv, OwnInv,
                PreloadInv, Returned
  <2>2. AllServed'
    BY <1>2 DEF allVars, lifeVars, vars, AllServed, ServedInv, Completed
  <2>. QED  BY <1>1, <2>1, <2>2 DEF LifeInv
<1>3. CASE Around
  <2>1. ProcessInv'
    BY <1>3, AttachStep, RegisterStep, PreloadStep, ServerStep DEF Around
  <2>2. AllServed'
    BY <1>3, AroundServed DEF ProcessInv
  <2>. QED  BY <1>1, <2>1, <2>2 DEF LifeInv
<1>4. ASSUME NEW r \in Requests, Within(r) PROVE LifeInv'
  <2>1. ProcessInv'
    BY <1>4, WithinIsStep DEF lifeVars, ProcessInv, LifeTypeOK, PhaseInv, OwnInv,
                              PreloadInv, Returned
  <2>2. AllServed'
    BY <1>4, WithinServed DEF IInv
  <2>. QED  BY <1>1, <2>1, <2>2 DEF LifeInv
<1>. QED
  BY <1>2, <1>3, <1>4, LifeStep

LEMMA LifeInvariance == LifeSpec => []LifeInv
BY InitLifeInv, NextLifeInv, PTL DEF LifeSpec

\* p_log is open whenever something of the module may write to it: DllMain
\* neither opens it too late nor deletes it too early.
THEOREM LogIsOpenWhenWritten == LifeSpec => []LogOutlives
<1>1. LifeInv => LogOutlives
  BY DEF LifeInv, ProcessInv, LifeTypeOK, PhaseInv, OwnInv, AllServed, ServedInv,
         LogOutlives, Logging, Notified, Handling, Alive, Returned
<1>. QED
  BY <1>1, LifeInvariance, PTL

\* The factory, the global module and the context of a preload are deleted by
\* their owner and once, whichever call of RegisterModule or
\* OnGlobalApplicationPreload is refused.
THEOREM ObjectsHaveOneOwner == LifeSpec => []ObjectsOwned
<1>1. LifeInv => ObjectsOwned
  BY DEF LifeInv, ProcessInv, LifeTypeOK, OwnInv, PreloadInv, ObjectsOwned, Objects, Returned
<1>. QED
  BY <1>1, LifeInvariance, PTL

\* No request is still to be completed when a stopping process ends its
\* threads: IIS waits for the completion of every request, and what a session
\* does after that completes nothing.
THEOREM StopCutsNothing == LifeSpec => []DrainedAtExit
<1>1. LifeInv => DrainedAtExit
  <2>. SUFFICES ASSUME LifeInv, process \in {"exiting", "ended"},
                       NEW r \in Requests \ thrown
                PROVE  thread[r] \in {"none", "done"} /\ session[r] # "open"
    BY DEF DrainedAtExit
  <2>1. RequestInv(r) /\ ServedInv(r) /\ ControlTypeOK /\ LifeTypeOK
    BY DEF LifeInv, IInv, RequestsInv, AllServed, ProcessInv
  <2>2. CASE module[r] = "none"
    BY <2>1, <2>2 DEF RequestInv, ServedInv
  <2>3. CASE module[r] = "deleted"
    BY <2>1, <2>3 DEF RequestInv, ServedInv, Completed, ControlTypeOK
  <2>. QED
    BY <2>1, <2>2, <2>3 DEF ServedInv, LifeTypeOK
<1>. QED
  BY <1>1, LifeInvariance, PTL
=============================================================================
