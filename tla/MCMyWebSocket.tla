--------------------------- MODULE MCMyWebSocket ---------------------------
(***************************************************************************)
(* Instances of MyWebSocket for TLC.  Pool threads are interchangeable;    *)
(* connections are not, the registry is ordered by their ids.              *)
(***************************************************************************)
EXTENDS MyWebSocket, TLC

CONSTANTS t1, t2, t3

OneConn  == {1}
TwoConns == {1, 2}
TwoThreads   == {t1, t2}
ThreeThreads == {t1, t2, t3}

Symmetry == Permutations(Threads)
=============================================================================
