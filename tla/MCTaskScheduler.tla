-------------------------- MODULE MCTaskScheduler --------------------------
(***************************************************************************)
(* Instances of TaskScheduler.                                             *)
(***************************************************************************)
EXTENDS TaskScheduler, TLC

SymmetricWorkers == Permutations(Workers)
=============================================================================
