--------------------------- MODULE SerialService ---------------------------
(***************************************************************************)
(* What burst handling promises, with nothing of how it is done: callers   *)
(* stand in a line of bounded length, one of them at a time is served, and *)
(* they are served in the order in which they joined the line.             *)
(*                                                                         *)
(* BurstQueue and DeclareHandler are both shown to implement it.           *)
(***************************************************************************)
EXTENDS Naturals, Sequences

CONSTANTS Callers,    \* who may join the line
          Room,       \* how many may stand in it
          Nobody      \* the value of serving when no caller is served

VARIABLES line,       \* the callers that wait, first in first
          serving     \* the caller that is served, or Nobody

vars == <<line, serving>>

Present == {line[k] : k \in DOMAIN line} \cup {serving}

Init ==
    /\ line = <<>>
    /\ serving = Nobody

(* A caller joins the end of the line, if it has room. *)
Join(c) ==
    /\ c \notin Present
    /\ Len(line) < Room
    /\ line' = Append(line, c)
    /\ UNCHANGED serving

(* A caller that finds nobody waiting and nobody served is served at once. *)
WalkIn(c) ==
    /\ line = <<>>
    /\ serving = Nobody
    /\ serving' = c
    /\ UNCHANGED line

(* The first of the line is served once the one before has left. *)
Serve ==
    /\ line # <<>>
    /\ serving = Nobody
    /\ serving' = Head(line)
    /\ line' = Tail(line)

Leave ==
    /\ serving # Nobody
    /\ serving' = Nobody
    /\ UNCHANGED line

Next ==
    \/ \E c \in Callers : Join(c) \/ WalkIn(c)
    \/ Serve
    \/ Leave

Spec == Init /\ [][Next]_vars

FairSpec == Spec /\ WF_vars(Serve) /\ WF_vars(Leave)

=============================================================================
