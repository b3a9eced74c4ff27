---------------------------- MODULE MCGlobalLock ----------------------------
(* Instances of GlobalLock for TLC.  A tick is 15 seconds. *)
EXTENDS GlobalLock, TLC

CONSTANTS c1, c2, c3, h1, h2

OneHost  == [c \in Clients |-> h1]
TwoHosts == [c \in Clients |-> IF c = c1 THEN h1 ELSE h2]

NoLeftover == {Free}
Left(says, age) == [says |-> says, owner |-> Nobody, age |-> age]

(* Every lock that an earlier request may have left, and one that was not  *)
(* made by AS3.                                                            *)
AnyLeftover   == {Left("nothing", 0), Left("text", 0),
                  Left("time", Timeout + 1), Left("time", Timeout - 1)}
StaleLeftover == {Left("time", Timeout + 1)}

=============================================================================
