--------------------------- MODULE MCWorkerStorage ---------------------------
(* WorkerStorage for TLC. *)
EXTENDS WorkerStorage
=============================================================================
