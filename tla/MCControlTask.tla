---------------------------- MODULE MCControlTask ----------------------------
(* Instances of ControlTask for TLC.                                       *)
EXTENDS ControlTask

(* The options of iControlRequest, with fewer repetitions.                 *)
MCOptions == [maxRedirects |-> 0, retryNetError |-> 1, retry503 |-> TRUE]

(* 500, 4000 and 899500 ms of bigiq.js, scaled.                            *)
MCJobWait == [interval |-> 1, maxInterval |-> 4, timeout |-> 9]
=============================================================================
