---------------------------- MODULE MCModuleLife ----------------------------
(***************************************************************************)
(* An instance of ModuleLife, with HttpModule, for TLC.  Requests share    *)
(* the warm-up, the log and the process, so one request of any kind meets  *)
(* a second one of the kinds that touch these.                             *)
(***************************************************************************)
EXTENDS ModuleLife

CONSTANTS r1, r2

TwoRequests == {r1, r2}

AnyAndShared == [r \in TwoRequests |-> IF r = r1 THEN Urls
                                       ELSE {"post_test", "websocket", "get_test"}]
=============================================================================
