----------------------------- MODULE ModuleLife -----------------------------
(***************************************************************************)
(* The life of the module in a worker process, around the requests of      *)
(* HttpModule.tla: DllMain and RegisterModule (src/main.cpp), the objects  *)
(* they and the factory make (src/mymodulefactory.h), and the global       *)
(* module (src/myglobalmodule.cpp).  Everything writes to the one log      *)
(* p_log points to, the constructors, destructors and notifications that   *)
(* do nothing else included.  IIS stops a process when its requests are    *)
(* completed, and then ends its threads wherever they are; a request can   *)
(* end it at any time (HeaderMissing).                                     *)
(***************************************************************************)
EXTENDS HttpModule

VARIABLES
  process,      \* "loaded", "serving", "stopping", "exiting" (its threads are gone), "ended"
  p_log,        \* the log
  registering,  \* where RegisterModule is, and what it returned
  objects,      \* what is made and deleted once in a process
  registered,   \* those that IIS was given and has not terminated
  module,       \* the CMyHttpModule of a request
  attached,     \* the requests whose detached thread runs, from DLL_THREAD_ATTACH to _DETACH
  preload       \* where OnGlobalApplicationPreload is

lifeVars == <<process, p_log, registering, objects, registered, module, attached, preload>>
allVars  == <<vars, lifeVars>>

Alive == ~crashed /\ process \in {"serving", "stopping"}

\* MyGlobalModule, CMyHttpModuleFactory, and the IHttpContext of a preload.
Objects == {"global", "factory", "context"}

LifeInit ==
  /\ Init
  /\ process = "loaded" /\ p_log = "none"
  /\ registering = "none"
  /\ objects = [o \in Objects |-> "none"] /\ registered = {}
  /\ module = [r \in Requests |-> "none"]
  /\ attached = {}
  /\ preload = "none"

----------------------------------------------------------------------------
(***************************************************************************)
(* DllMain.                                                                *)
(***************************************************************************)
ProcessAttach ==
  /\ p_log = "none" /\ p_log' = "open"
  /\ UNCHANGED <<vars, process, registering, objects, registered, module, attached, preload>>

ThreadAttach(r) ==
  /\ Alive /\ thread[r] = "entity" /\ r \notin attached
  /\ attached' = attached \cup {r}
  /\ UNCHANGED <<vars, process, p_log, registering, objects, registered, module, preload>>

Ended(r) == r \in attached /\ thread[r] \in {"done", "failed"}

\* A bug: no break, and DLL_THREAD_DETACH goes on into DLL_PROCESS_DETACH.
DetachFallsThrough(r) ==
  /\ Alive /\ Ended(r)
  /\ attached' = attached \ {r} /\ p_log' = "deleted"
  /\ UNCHANGED <<vars, process, registering, objects, registered, module, preload>>

ThreadDetach(r) ==
  /\ Alive /\ Ended(r)
  /\ attached' = attached \ {r}
  /\ UNCHANGED <<vars, process, p_log, registering, objects, registered, module, preload>>

ProcessDetach ==
  /\ process = "exiting" /\ process' = "ended"
  /\ p_log' = "deleted"
  /\ UNCHANGED <<vars, registering, objects, registered, module, attached, preload>>

(***************************************************************************)
(* RegisterModule.  IIS passes it both pointers.                           *)
(***************************************************************************)
At(from, to) == registering = from /\ registering' = to
New(o)       == objects' = [objects EXCEPT ![o] = "live"]
Delete(o)    == objects' = [objects EXCEPT ![o] = IF @ = "live" THEN "deleted" ELSE "wild"]

NewGlobal ==
  /\ p_log = "open" /\ At("none", "global") /\ New("global")
  /\ UNCHANGED <<vars, process, p_log, registered, module, attached, preload>>

\* The global module is lost when IIS does not take it.
SetGlobalNotifications ==
  /\ \/ At("global", "globalSet") /\ registered' = registered \cup {"global"}
     \/ At("global", "refused") /\ UNCHANGED registered
  /\ UNCHANGED <<vars, process, p_log, objects, module, attached, preload>>

NewFactory ==
  /\ At("globalSet", "factory") /\ New("factory")
  /\ UNCHANGED <<vars, process, p_log, registered, module, attached, preload>>

\* A bug: pFactory is not set to NULL before the label Finished.
FactoryNotCleared ==
  /\ \/ At("factory", "registered") /\ registered' = registered \cup {"factory"}
     \/ At("factory", "failed") /\ UNCHANGED registered
  /\ Delete("factory")
  /\ UNCHANGED <<vars, process, p_log, module, attached, preload>>

\* The label Finished deletes a factory that IIS does not take.
SetRequestNotifications ==
  /\ \/ At("factory", "registered") /\ registered' = registered \cup {"factory"}
        /\ UNCHANGED objects
     \/ At("factory", "failed") /\ Delete("factory") /\ UNCHANGED registered
  /\ UNCHANGED <<vars, process, p_log, module, attached, preload>>

(***************************************************************************)
(* OnGlobalApplicationPreload, which asks IIS for a context and gives it   *)
(* back at its label Finished.                                             *)
(***************************************************************************)
Preload(from, to) ==
  /\ preload = from /\ preload' = to
  /\ UNCHANGED <<vars, process, p_log, registering, registered, module, attached>>

\* BOUND: one preload, before the first request; it shares nothing with requests.
CreateContext ==
  /\ registering = "registered" /\ process = "loaded"
  /\ \/ Preload("none", "created") /\ New("context")
     \/ Preload("none", "Finished") /\ UNCHANGED objects

\* Whether there is an IGlobalApplicationPreloadProvider2, and whether it says
\* that the process was recycled, changes nothing.
GetInterface == Preload("created", "Finished") /\ UNCHANGED objects

ReleaseContext ==
  /\ Preload("Finished", "returned")
  /\ IF objects["context"] = "none" THEN UNCHANGED objects ELSE Delete("context")

(***************************************************************************)
(* What IIS does: it serves requests, each with a CMyHttpModule that the   *)
(* factory makes and that outlives the request; when all are completed it  *)
(* terminates what it was given and leaves.                                *)
(***************************************************************************)
Serve ==
  /\ process = "loaded" /\ registering = "registered"
  /\ preload \in {"none", "returned"}
  /\ process' = "serving"
  /\ UNCHANGED <<vars, p_log, registering, objects, registered, module, attached, preload>>

GetHttpModule(r) ==
  /\ process = "serving" /\ module[r] = "none"
  /\ module' = [module EXCEPT ![r] = "live"]
  /\ UNCHANGED <<vars, process, p_log, registering, objects, registered, attached, preload>>

\* CMyHttpModule::~CMyHttpModule
Dispose(r) ==
  /\ process = "serving" /\ module[r] = "live"
  /\ pc[r] = "returned" /\ Completed(r)
  /\ module' = [module EXCEPT ![r] = "deleted"]
  /\ UNCHANGED <<vars, process, p_log, registering, objects, registered, attached, preload>>

StopServing ==
  /\ \/ process = "serving" /\ \A r \in Requests : module[r] # "live"
     \/ process = "loaded" /\ registering \in {"refused", "failed"}
  /\ process' = "stopping"
  /\ UNCHANGED <<vars, p_log, registering, objects, registered, module, attached, preload>>

\* Terminate, of the global module and of the factory.
Terminate(o) ==
  /\ process = "stopping" /\ o \in registered
  /\ registered' = registered \ {o} /\ Delete(o)
  /\ UNCHANGED <<vars, process, p_log, registering, module, attached, preload>>

Exit ==
  /\ process = "stopping" /\ registered = {}
  /\ process' = "exiting"
  /\ UNCHANGED <<vars, p_log, registering, objects, registered, module, attached, preload>>

----------------------------------------------------------------------------
\* The notifications that only log, and answer CONTINUE, of the process and of
\* a request, which come when IIS likes.
Notified    == registered # {}
Handling(r) == module[r] = "live"

(***************************************************************************)
(* The steps of HttpModule: the handlers of a module that lives, a thread  *)
(* that DllMain has seen.                                                  *)
(***************************************************************************)
InHandler(r) == ~crashed /\ process = "serving" /\ module[r] = "live"

Crashes(r) == InHandler(r) /\ HeaderMissing(r) /\ UNCHANGED lifeVars

BeginsOrThrows(r) == InHandler(r) /\ (Begin(r) \/ LogFails(r)) /\ UNCHANGED <<crashed, lifeVars>>

Handles(r) == InHandler(r) /\ OnBeginRequest(r) /\ UNCHANGED <<crashed, lifeVars>>

Executes(r) == Alive /\ r \in attached /\ ExecuteRequest(r) /\ UNCHANGED <<crashed, lifeVars>>

SessionOver(r) == Alive /\ CleanupStoredContext(r) /\ UNCHANGED <<crashed, lifeVars>>

Register == NewGlobal \/ SetGlobalNotifications \/ NewFactory \/ SetRequestNotifications

OnGlobalApplicationPreload == CreateContext \/ GetInterface \/ ReleaseContext

LifeNext == ~crashed /\
  \/ ProcessAttach \/ ProcessDetach \/ Register \/ OnGlobalApplicationPreload
  \/ Serve \/ StopServing \/ Exit
  \/ \E o \in Objects : Terminate(o)
  \/ \E r \in Requests : \/ ThreadAttach(r) \/ ThreadDetach(r)
                         \/ GetHttpModule(r) \/ Dispose(r)
                         \/ BeginsOrThrows(r) \/ Handles(r) \/ Executes(r) \/ SessionOver(r)
                         \/ Crashes(r)

LifeSpec == LifeInit /\ [][LifeNext]_allVars

\* The system runs every thread it started; IIS need not stop.
LifeFairSpec ==
  LifeSpec /\ \A r \in Requests : /\ WF_allVars(Handles(r))
                                  /\ WF_allVars(ThreadAttach(r))
                                  /\ WF_allVars(Executes(r))

----------------------------------------------------------------------------
Returned == registering \in {"registered", "refused", "failed"}

\* The values every variable of this module takes.
LifeTypeOK ==
  /\ process \in {"loaded", "serving", "stopping", "exiting", "ended"}
  /\ p_log \in {"none", "open", "deleted"}
  /\ registering \in {"none", "global", "globalSet", "factory", "registered", "refused", "failed"}
  /\ objects \in [Objects -> {"none", "live", "deleted", "wild"}]
  /\ registered \subseteq Objects
  /\ module \in [Requests -> {"none", "live", "deleted"}]
  /\ attached \subseteq Requests
  /\ preload \in {"none", "created", "Finished", "returned"}

\* Who writes to p_log, now or in the call IIS makes next.
Logging ==
  \/ registering # "none" /\ ~Returned
  \/ Notified
  \/ process = "exiting"
  \/ Alive /\ attached # {}
  \/ Alive /\ \E r \in Requests : Handling(r) \/ session[r] \in {"open", "indicated"}

\* DllMain opens the log before anything of the module writes to it and deletes
\* it after everything that does: the destructors Terminate runs, the line of
\* DLL_THREAD_DETACH of a thread that outlived its request, a session's.
LogOutlives == Logging => p_log = "open"

\* Whatever RegisterModule and OnGlobalApplicationPreload are refused, an
\* object is deleted by the one who owns it, and once: no object IIS may still
\* call is gone, and none is lost but the global module that
\* SetGlobalNotifications refused.
ObjectsOwned ==
  /\ \A o \in Objects : objects[o] # "wild"
  /\ \A o \in registered : objects[o] = "live"
  /\ Returned /\ objects["factory"] = "live" => "factory" \in registered
  /\ Returned /\ objects["global"] = "live"
     => "global" \in registered \/ registering = "refused"
  /\ preload = "returned" => objects["context"] # "live"

\* A process that stops cuts off nothing a request waits for: when IIS ends its
\* threads, no thread of ExecuteRequest and no session has a request left to
\* complete, unless the log threw once they had it.  What a session does after
\* that, closing its connection, may be cut off.
DrainedAtExit ==
  process \in {"exiting", "ended"}
  => \A r \in Requests \ thrown : thread[r] \in {"none", "done"} /\ session[r] # "open"
=============================================================================
