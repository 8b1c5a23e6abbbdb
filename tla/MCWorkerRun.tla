---------------------------- MODULE MCWorkerRun ----------------------------
(* The instance of WorkerRun for TLC. *)
EXTENDS WorkerRun
=============================================================================
