--------------------------- MODULE MCPiperWorker ---------------------------
(***************************************************************************)
(* Instances of PiperWorker.                                               *)
(***************************************************************************)
EXTENDS PiperWorker

CONSTANTS w1, w2

TwoWorkers == {w1, w2}
AllProcesses == TwoWorkers \cup {CacheProc}
=============================================================================
