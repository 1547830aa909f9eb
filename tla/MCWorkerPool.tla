---------------------------- MODULE MCWorkerPool ----------------------------
(***************************************************************************)
(* Model-checking instance of WorkerPool.                                  *)
(***************************************************************************)
EXTENDS WorkerPool
=============================================================================
