---------------------------- MODULE MCWorkerPool ----------------------------
(* The instance of WorkerPool for TLC; its constants are in the .cfg.      *)
EXTENDS WorkerPool
=============================================================================
