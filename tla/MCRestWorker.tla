---------------------------- MODULE MCRestWorker ----------------------------
(* Instances of RestWorker for TLC.                                        *)
EXTENDS RestWorker
=============================================================================
