--------------------------- MODULE MCWorkerThread ---------------------------
(* Instances of WorkerThread for TLC.                                      *)
EXTENDS WorkerThread, TLC

CONSTANTS c1, c2
=============================================================================
