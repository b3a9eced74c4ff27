---------------------------- MODULE LockService ----------------------------
(***************************************************************************)
(* What the global lock is to those who use it, with nothing of how it is  *)
(* kept: it has one owner at a time, is taken only when it has none, and   *)
(* is free again only because its owner left.  A client comes once.        *)
(*                                                                         *)
(* GlobalLock implements it on the device, with time and crashes, and the  *)
(* holder of DeclarationFlow is one: the flow of a declaration relies on   *)
(* nothing else, so that what is shown there holds with the lock as it is. *)
(***************************************************************************)

CONSTANTS Clients,    \* who may take the lock
          Nobody      \* the owner of a lock that is free

VARIABLES owner,      \* of the lock
          gone        \* the clients that will not take it any more

vars == <<owner, gone>>

Init ==
    /\ owner = Nobody
    /\ gone = {}

Take(c) ==
    /\ owner = Nobody
    /\ c \notin gone
    /\ owner' = c
    /\ UNCHANGED gone

(* Clients leave, several at a time if their process crashes, and the      *)
(* owner leaves the lock free.                                             *)
Leave(leaving) ==
    /\ gone' = gone \cup leaving
    /\ owner' = IF owner \in leaving THEN Nobody ELSE owner

Next ==
    \/ \E c \in Clients : Take(c)
    \/ \E leaving \in SUBSET (Clients \ gone) : Leave(leaving)

Spec == Init /\ [][Next]_vars

=============================================================================
