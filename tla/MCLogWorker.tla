---------------------------- MODULE MCLogWorker ----------------------------
(* Small instances of the logging worker.                                  *)
EXTENDS LogWorker
=============================================================================
