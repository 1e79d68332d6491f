---------------------------- MODULE MCMockWorker ---------------------------
(* Instance of MockWorker for TLC. *)
EXTENDS MockWorker
=============================================================================
