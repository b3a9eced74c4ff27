-------------------------- MODULE MCDeclareHandler --------------------------
(* Instances of DeclareHandler for TLC. *)
EXTENDS DeclareHandler, TLC

Get      == [method |-> "Get", actions |-> <<"retrieve">>,
             async |-> "absent", perApp |-> FALSE]
Retrieve == [Get EXCEPT !.method = "Post"]
Deploy   == [Retrieve EXCEPT !.actions = <<"deploy">>]
PatchPair == [Retrieve EXCEPT !.actions = <<"deploy", "patch">>]
ReadPair == [Retrieve EXCEPT !.actions = <<"retrieve", "deploy">>]

(* Requests of one declaration that belong in the queue. *)
QueueForms == {Deploy, [Deploy EXCEPT !.async = "true"]}

(* Requests that read, for one application or with a wrong parameter, and  *)
(* requests that carry two declarations.                                   *)
MixedForms == {Get, PatchPair, ReadPair, [Get EXCEPT !.async = "bad"],
               [Deploy EXCEPT !.perApp = TRUE]}

(* One declaration that queues, may be rejected or bypasses the queue. *)
LiveForms == {Deploy, [Deploy EXCEPT !.perApp = TRUE], Get}

BurstSwitch   == [burst : BOOLEAN, perApp : {TRUE}]
AllSettings   == [burst : BOOLEAN, perApp : BOOLEAN]

Symmetry == Permutations(Requests)

=============================================================================
