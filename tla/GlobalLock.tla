----------------------------- MODULE GlobalLock -----------------------------
(***************************************************************************)
(* The global lock of src/lib/mutex.js: a data group on the device that is *)
(* being configured, with the time at which it was made as description.    *)
(* handleCreateUpdateOrDelete of src/lib/declarationHandler.js acquires it *)
(* before it reads the device and releases it after it wrote; the start of *)
(* an AS3 process on the device removes it (clearLocalMutex).              *)
(*                                                                         *)
(* The clients are requests, of one AS3 process or of several, that change *)
(* the same device.  Each iControl REST request is applied by the device   *)
(* in one step; util.httpRequest repeats a request that got no reply, so   *)
(* that the device may apply it twice.                                     *)
(*                                                                         *)
(* Time passes in ticks.  Instead of an absolute clock the lock carries    *)
(* its age and every client the ticks since its last reference point; ages *)
(* beyond Timeout are all alike.                                           *)
(***************************************************************************)
EXTENDS Naturals, FiniteSets

CONSTANTS Clients,      \* the requests
          Hosts,        \* the AS3 processes
          Home,         \* Home[c] is the process that c runs in
          Local,        \* the processes that run on the device itself
          Nobody,       \* the owner of a lock that no client made
          Timeout,      \* mutexTimeoutMinutes, in ticks
          Period,       \* of the refresher, half a minute less
          MaxAcquire,   \* bound on the ticks from the stamp to the lock
          MaxRelease,   \* bound on the ticks until a release is applied
          Leftover,     \* the locks that may be there in the beginning
          Faults        \* of "lost" replies, "odd" statuses and "crash"es

Free == [says |-> "free", owner |-> Nobody, age |-> 0]

(* What the data group's description is: a time, a text that is not a      *)
(* number, or nothing.                                                     *)
Locks == {Free} \cup [says  : {"time", "text", "nothing"},
                      owner : Clients \cup {Nobody},
                      age   : 0..(Timeout + 1)]

ASSUME LockAssumption ==
    /\ Home \in [Clients -> Hosts]
    /\ Local \subseteq Hosts
    /\ Nobody \notin Clients
    /\ Timeout \in Nat /\ Period \in Nat /\ MaxAcquire \in Nat /\ MaxRelease \in Nat
    /\ Period < Timeout
    /\ Leftover \subseteq Locks
    /\ Faults \subseteq {"lost", "odd", "crash"}

VARIABLES lock,         \* the data group ____appsvcs_lock
          scriptsStop,  \* whether ____appsvcs_scripts_stop exists
          pc,           \* what each client does
          clock,        \* ticks since the stamp, the refresh or the release
          pending,      \* clients whose DELETE of the lock nobody awaits
          cleanup,      \* clients whose DELETE of scripts_stop nobody awaits
          down          \* the processes that crashed

vars == <<lock, scriptsStop, pc, clock, pending, cleanup, down>>

Acquiring == {"first",    \* POST of the lock
              "check",    \* GET of the lock
              "remove",   \* DELETE of the lock found stale
              "stop",     \* POST of scripts_stop, a pause
              "second"}   \* POST of the lock once more

Steps == Acquiring \cup
         {"idle",
          "held",         \* changes the device
          "releasing",    \* awaits the DELETE of the lock
          "done",         \* answered, the lock released
          "failed",       \* answered with an error after it had the lock
          "refused",      \* answered 503
          "crashed"}

Holds(c) == pc[c] = "held"
Active(c) == pc[c] \in Acquiring \cup {"held", "releasing"}

Init ==
    /\ lock \in Leftover
    /\ scriptsStop = FALSE
    /\ pc = [c \in Clients |-> "idle"]
    /\ clock = [c \in Clients |-> 0]
    /\ pending = {}
    /\ cleanup = {}
    /\ down = {}

-----------------------------------------------------------------------------

Goto(c, step) == pc' = [pc EXCEPT ![c] = step]

(* Mutant of MadeBy: the description is not sent. *)
MadeWithoutTime(c) == [says |-> "nothing", owner |-> c, age |-> clock[c]]

(* The lock as c's POST makes it.  The body was written when the client    *)
(* began, and the second POST sends it again.                              *)
MadeBy(c) == [says |-> "time", owner |-> c, age |-> clock[c]]

(* acquireMutexLock takes the stamp. *)
Begin(c) ==
    /\ pc[c] = "idle"
    /\ Home[c] \notin down
    /\ Goto(c, "first")
    /\ clock' = [clock EXCEPT ![c] = 0]
    /\ UNCHANGED <<lock, scriptsStop, pending, cleanup, down>>

(* The POST creates the lock and lockRefresher starts the interval. *)
Obtain(c) ==
    /\ lock = Free
    /\ lock' = MadeBy(c)
    /\ Goto(c, "held")
    /\ clock' = [clock EXCEPT ![c] = 0]

(* acquireLock: 200, or 409 and the lock is looked at. *)
FirstPost(c) ==
    /\ pc[c] = "first"
    /\ \/ Obtain(c)
       \/ /\ lock # Free
          /\ Goto(c, "check")
          /\ UNCHANGED <<lock, clock>>
    /\ UNCHANGED <<scriptsStop, pending, cleanup, down>>

(* The lock has no description or expired.  A text that is no number       *)
(* passes Number.isNaN, and its parseInt is older than nothing.            *)
Stale ==
    \/ lock.says = "nothing"
    \/ lock.says = "time" /\ lock.age > Timeout

(* The GET: any status but 200 sends the client on to its second attempt.  *)
Check(c) ==
    /\ pc[c] = "check"
    /\ \/ lock = Free /\ Goto(c, "stop")
       \/ "odd" \in Faults /\ Goto(c, "stop")
       \/ lock # Free /\ Stale /\ Goto(c, "remove")
       \/ lock # Free /\ ~ Stale /\ Goto(c, "refused")
    /\ UNCHANGED <<lock, scriptsStop, clock, pending, cleanup, down>>

(* The DELETE removes whatever lock is there by now; its status is ignored *)
Remove(c) ==
    /\ pc[c] = "remove"
    /\ \/ lock' = Free
       \/ "odd" \in Faults /\ UNCHANGED lock
    /\ Goto(c, "stop")
    /\ UNCHANGED <<scriptsStop, clock, pending, cleanup, down>>

(* acquireLockHelper asks the scripts to stop; 409 will do as well. *)
StopScripts(c) ==
    /\ pc[c] = "stop"
    /\ scriptsStop' = TRUE
    /\ Goto(c, "second")
    /\ UNCHANGED <<lock, clock, pending, cleanup, down>>

(* The second attempt; a success sends the DELETE of scripts_stop. *)
SecondPost(c) ==
    /\ pc[c] = "second"
    /\ \/ /\ Obtain(c)
          /\ cleanup' = cleanup \cup {c}
       \/ /\ lock # Free
          /\ Goto(c, "refused")
          /\ UNCHANGED <<lock, clock, cleanup>>
    /\ UNCHANGED <<scriptsStop, pending, down>>

LetScriptsRun(c) ==
    /\ c \in cleanup
    /\ cleanup' = cleanup \ {c}
    /\ \/ scriptsStop' = FALSE
       \/ "odd" \in Faults /\ UNCHANGED scriptsStop
    /\ UNCHANGED <<lock, pc, clock, pending, down>>

(* Any other status, or a rejection: the request is answered 503. *)
Reject(c) ==
    /\ "odd" \in Faults
    /\ pc[c] \in Acquiring
    /\ Goto(c, "refused")
    /\ UNCHANGED <<lock, scriptsStop, clock, pending, cleanup, down>>

(* The lock that a PATCH of the description leaves, whoever owns it. *)
Refreshed == IF lock = Free THEN Free
                            ELSE [lock EXCEPT !.says = "time", !.age = 0]

(* Mutant of Refresh: the interval is not cleared after an error. *)
RefreshForEver(c) ==
    /\ \/ Holds(c) /\ clock[c] = Period
       \/ pc[c] = "failed"
    /\ lock' = Refreshed
    /\ clock' = [clock EXCEPT ![c] = 0]
    /\ UNCHANGED <<scriptsStop, pc, pending, cleanup, down>>

(* Mutant of Refresh: the first refresh comes one period late. *)
RefreshLate(c) ==
    /\ Holds(c)
    /\ clock[c] = Period
    /\ clock' = [clock EXCEPT ![c] = 0]
    /\ UNCHANGED <<lock, scriptsStop, pc, pending, cleanup, down>>

(* lockRefresher; a status other than 200 is logged and nothing else. *)
Refresh(c) ==
    /\ Holds(c)
    /\ clock[c] = Period
    /\ \/ lock' = Refreshed
       \/ "odd" \in Faults /\ UNCHANGED lock
    /\ clock' = [clock EXCEPT ![c] = 0]
    /\ UNCHANGED <<scriptsStop, pc, pending, cleanup, down>>

(* The changes are made: releaseMutexLock clears the interval and sends    *)
(* the DELETE, which the handler awaits.                                   *)
EndWell(c) ==
    /\ Holds(c)
    /\ Goto(c, "releasing")
    /\ clock' = [clock EXCEPT ![c] = 0]
    /\ UNCHANGED <<lock, scriptsStop, pending, cleanup, down>>

(* An error after the lock was acquired: the catch sends the DELETE and    *)
(* answers without awaiting it.                                            *)
EndBadly(c) ==
    /\ Holds(c)
    /\ Goto(c, "failed")
    /\ pending' = pending \cup {c}
    /\ clock' = [clock EXCEPT ![c] = 0]
    /\ UNCHANGED <<lock, scriptsStop, cleanup, down>>

(* The awaited DELETE succeeds, or is answered 404 because there is no     *)
(* lock, which rejects: the catch then sends the DELETE again.             *)
Release(c) ==
    /\ pc[c] = "releasing"
    /\ \/ /\ lock # Free
          /\ lock' = Free
          /\ Goto(c, "done")
          /\ UNCHANGED pending
       \/ /\ lock = Free \/ "odd" \in Faults
          /\ Goto(c, "failed")
          /\ pending' = pending \cup {c}
          /\ UNCHANGED lock
    /\ clock' = [clock EXCEPT ![c] = 0]
    /\ UNCHANGED <<scriptsStop, cleanup, down>>

(* The DELETE that nobody awaits is applied, or fails without effect. *)
LateDelete(c) ==
    /\ c \in pending
    /\ pending' = pending \ {c}
    /\ \/ lock' = Free
       \/ "odd" \in Faults /\ UNCHANGED lock
    /\ UNCHANGED <<scriptsStop, pc, clock, cleanup, down>>

(* The device applies a request, its reply is lost and httpRequest sends   *)
(* the request again.                                                      *)
ReplyLost(c) ==
    /\ "lost" \in Faults
    /\ \/ /\ pc[c] \in {"first", "second"}
          /\ lock = Free
          /\ lock' = MadeBy(c)
       \/ /\ pc[c] \in {"remove", "releasing"} \/ c \in pending
          /\ lock # Free
          /\ lock' = Free
    /\ UNCHANGED <<scriptsStop, pc, clock, pending, cleanup, down>>

(* A process crashes with all of its requests. *)
Crash(h) ==
    /\ "crash" \in Faults
    /\ h \notin down
    /\ down' = down \cup {h}
    /\ pc' = [c \in Clients |->
                 IF Home[c] = h /\ Active(c) THEN "crashed" ELSE pc[c]]
    /\ pending' = {c \in pending : Home[c] # h}
    /\ cleanup' = {c \in cleanup : Home[c] # h}
    /\ UNCHANGED <<lock, scriptsStop, clock>>

(* Mutant of Restart: the startup leaves the lock alone. *)
RestartWithLock(h) ==
    /\ h \in down
    /\ down' = down \ {h}
    /\ UNCHANGED <<lock, scriptsStop, pc, clock, pending, cleanup>>

(* It starts again: clearLocalMutex deletes the lock of its own device. *)
Restart(h) ==
    /\ h \in down
    /\ down' = down \ {h}
    /\ lock' = IF h \in Local THEN Free ELSE lock
    /\ UNCHANGED <<scriptsStop, pc, clock, pending, cleanup>>

(* How far the clock of a client may run before it must act. *)
Patience(c) ==
    IF pc[c] \in Acquiring THEN MaxAcquire
    ELSE IF Holds(c) THEN Period ELSE MaxRelease

Waiting(c) == Active(c) \/ c \in pending

(* Time passes.  The bounds are those of a device that answers in time.    *)
Tick ==
    /\ \A c \in Clients : Waiting(c) => clock[c] < Patience(c)
    /\ clock' = [c \in Clients |-> IF Waiting(c) THEN clock[c] + 1 ELSE clock[c]]
    /\ lock' = IF lock.says = "time" /\ lock.age <= Timeout
               THEN [lock EXCEPT !.age = @ + 1] ELSE lock
    /\ UNCHANGED <<scriptsStop, pc, pending, cleanup, down>>

ClientStep(c) ==
    \/ FirstPost(c) \/ Check(c) \/ Remove(c) \/ StopScripts(c) \/ SecondPost(c)
    \/ Refresh(c) \/ Release(c)

End(c) == EndWell(c) \/ EndBadly(c)

Next ==
    \/ \E c \in Clients :
          \/ Begin(c) \/ ClientStep(c) \/ End(c)
          \/ LetScriptsRun(c) \/ LateDelete(c)
          \/ Reject(c) \/ ReplyLost(c)
    \/ \E h \in Hosts : Crash(h) \/ Restart(h)
    \/ Tick

Spec == Init /\ [][Next]_vars

(* The promise chains run, requests sent are applied, time passes and a    *)
(* holder comes to an end.  No client has to come, and no process that     *)
(* crashed has to start again.                                             *)
FairSpec ==
    /\ Spec
    /\ \A c \in Clients :
          /\ WF_vars(ClientStep(c))
          /\ WF_vars(End(c))
          /\ WF_vars(LateDelete(c))
    /\ WF_vars(Tick)

-----------------------------------------------------------------------------

TypeOK ==
    /\ lock \in Locks
    /\ scriptsStop \in BOOLEAN
    /\ pc \in [Clients -> Steps]
    /\ clock \in [Clients -> Nat]
    /\ pending \subseteq Clients
    /\ cleanup \subseteq Clients
    /\ down \subseteq Hosts

(* No two requests change the device at the same time: at most one client  *)
(* is between the acquisition and the release (mutex.js, and               *)
(* handleCreateUpdateOrDelete of declarationHandler.js).                   *)
MutualExclusion ==
    \A c, d \in Clients : Holds(c) /\ Holds(d) => c = d

(* The lock on the device stands for the client that believes to hold it,  *)
(* and others respect it: it is the holder's and has not expired, however  *)
(* late the refreshes and however slow the acquisition (lockRefresher).    *)
HolderOwnsLock ==
    \A c \in Clients : Holds(c) =>
        /\ lock.says = "time"
        /\ lock.owner = c
        /\ lock.age <= Timeout

(* A DELETE of the lock that is still on its way, awaited or not, finds    *)
(* the lock of its sender and never that of a later client, so that no     *)
(* release can free what somebody else holds (releaseMutexLock and the     *)
(* catch of handleCreateUpdateOrDelete).                                   *)
ReleaseFindsOwnLock ==
    \A c \in Clients : pc[c] = "releasing" \/ c \in pending =>
        lock # Free /\ lock.owner = c

(* Whose lock has to be on the device: the holder's, and that of a client  *)
(* whose DELETE is still on its way.                                       *)
Guards(c) == pc[c] \in {"held", "releasing"} \/ c \in pending

Guard == IF \E c \in Clients : Guards(c) THEN CHOOSE c \in Clients : Guards(c) ELSE Nobody

Departed == {c \in Clients : pc[c] \in {"done", "failed", "refused", "crashed"}} \ pending

Turns == INSTANCE LockService WITH owner <- Guard, gone <- Departed

(* Seen by those who use it the lock is a lock service: from the POST that *)
(* makes it until its DELETE is applied, or its process crashes, it has    *)
(* one owner and nobody else gets it, whatever is done with the data group *)
(* and however long it takes (acquireLock, lockRefresher, releaseLock).    *)
TakesTurns == Turns!Spec

Orphaned == /\ lock.says = "time"
            /\ lock.owner \notin {c \in Clients : Waiting(c)}

(* The lock of a client that is gone does not block the others for ever:   *)
(* it is released or expires, whatever was lost on the way and whatever    *)
(* process crashed and stays down (checkLockExpiration).                   *)
OrphanGoes == Orphaned ~> (~ Orphaned \/ lock.age > Timeout)

=============================================================================
