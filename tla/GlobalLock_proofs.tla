------------------------- MODULE GlobalLock_proofs -------------------------
(***************************************************************************)
(* Under which conditions the lock of mutex.js excludes: the device        *)
(* answers in time, no reply is lost and no lock was left behind.  For all *)
(* numbers of clients and all time limits.                                 *)
(***************************************************************************)
EXTENDS GlobalLock, TLAPS

(* The age a lock may reach, from the stamp to the last moment at which    *)
(* its release is applied, is less than the timeout.                       *)
Punctual == MaxAcquire + Period + MaxRelease <= Timeout

(* Nothing goes wrong but a crash of the only AS3 process, which runs on   *)
(* the device itself and removes the lock when it starts again.            *)
Orderly ==
    /\ Leftover \subseteq {Free}
    /\ Faults \subseteq {"crash"}
    /\ "crash" \in Faults => \E h \in Hosts : Hosts = {h} /\ Local = {h}

-----------------------------------------------------------------------------

LEMMA LocksTyped ==
    /\ Free \in Locks
    /\ \A l \in Locks : l.age \in 0..(Timeout + 1)
    /\ \A l \in Locks : l # Free =>
          /\ l.says \in {"time", "text", "nothing"}
          /\ l.owner \in Clients \cup {Nobody}
    /\ \A l \in Locks : l # Free => [l EXCEPT !.says = "time", !.age = 0] \in Locks
    /\ \A l \in Locks : l.says = "time" /\ l.age <= Timeout
                            => [l EXCEPT !.age = @ + 1] \in Locks
  <1> USE LockAssumption DEF Locks, Free
  <1>1. 0 \in 0..(Timeout + 1)
    OBVIOUS
  <1>2. Free \in Locks
    OBVIOUS
  <1>3. ASSUME NEW l \in Locks PROVE l.age \in 0..(Timeout + 1)
    BY <1>1
  <1>4. ASSUME NEW l \in Locks, l # Free
        PROVE  /\ l.says \in {"time", "text", "nothing"}
               /\ l.owner \in Clients \cup {Nobody}
               /\ [l EXCEPT !.says = "time", !.age = 0] \in Locks
    BY <1>1, <1>4
  <1>5. ASSUME NEW l \in Locks, l.says = "time", l.age <= Timeout
        PROVE  [l EXCEPT !.age = @ + 1] \in Locks
    <2>1. l \in [says : {"time", "text", "nothing"}, owner : Clients \cup {Nobody},
                 age : 0..(Timeout + 1)]
      BY <1>5
    <2>2. l.age + 1 \in 0..(Timeout + 1)
      BY <1>5, <2>1
    <2> QED
      BY <2>1, <2>2
  <1> QED
    BY <1>2, <1>3, <1>4, <1>5

(* The lock, the steps of the clients and their clocks keep their types,   *)
(* for all faults.  A lock is made with an age that the table of locks has *)
(* only because an acquisition ends in time, hence the bound.              *)
LockTypeInv ==
    /\ TypeOK
    /\ \A c \in Clients : pc[c] \in Acquiring => clock[c] <= MaxAcquire

LEMMA MadeByTyped ==
    ASSUME LockTypeInv, MaxAcquire <= Timeout, NEW c \in Clients, pc[c] \in Acquiring
    PROVE  MadeBy(c) \in Locks /\ MadeBy(c) # Free
  <1>1. clock[c] \in 0..(Timeout + 1)
    BY LockAssumption DEF LockTypeInv, TypeOK
  <1> QED
    BY <1>1 DEF MadeBy, Locks, Free

LEMMA LockTypeInit == Init => LockTypeInv
  <1> SUFFICES ASSUME Init PROVE LockTypeInv
    OBVIOUS
  <1>1. lock \in Locks
    BY LockAssumption DEF Init
  <1>2. \A c \in Clients : pc[c] \notin Acquiring
    BY DEF Init, Acquiring
  <1> QED
    BY <1>1, <1>2 DEF Init, LockTypeInv, TypeOK, Steps

LEMMA LockStepKeepsType ==
    ASSUME LockTypeInv, MaxAcquire <= Timeout, [Next]_vars
    PROVE  LockTypeInv'
  <1> USE DEF LockTypeInv
  <1>1. ASSUME NEW c \in Clients, Begin(c)
        PROVE  LockTypeInv'
    BY <1>1, LockAssumption DEF Begin, Goto, TypeOK, Steps, Acquiring
  <1>2. ASSUME NEW c \in Clients, pc[c] \in {"first", "second"}, Obtain(c),
               UNCHANGED <<scriptsStop, pending, down>>, cleanup' \subseteq Clients
        PROVE  LockTypeInv'
    <2>1. lock' \in Locks
      BY <1>2, MadeByTyped DEF Obtain, Acquiring
    <2> QED
      BY <1>2, <2>1, LockAssumption DEF Obtain, Goto, TypeOK, Steps, Acquiring
  <1>3. ASSUME NEW c \in Clients, FirstPost(c)
        PROVE  LockTypeInv'
    <2>1. CASE Obtain(c)
      BY <1>2, <1>3, <2>1 DEF FirstPost, TypeOK
    <2>2. CASE ~ Obtain(c)
      BY <1>3, <2>2 DEF FirstPost, Goto, TypeOK, Steps, Acquiring
    <2> QED
      BY <2>1, <2>2
  <1>4. ASSUME NEW c \in Clients, Check(c) \/ StopScripts(c) \/ Reject(c)
        PROVE  LockTypeInv'
    BY <1>4 DEF Check, StopScripts, Reject, Goto, TypeOK, Steps, Acquiring
  <1>5. ASSUME NEW c \in Clients, Remove(c)
        PROVE  LockTypeInv'
    BY <1>5, LocksTyped DEF Remove, Goto, TypeOK, Steps, Acquiring
  <1>6. ASSUME NEW c \in Clients, SecondPost(c)
        PROVE  LockTypeInv'
    <2>1. CASE Obtain(c)
      BY <1>2, <1>6, <2>1 DEF SecondPost, TypeOK
    <2>2. CASE ~ Obtain(c)
      BY <1>6, <2>2 DEF SecondPost, Goto, TypeOK, Steps, Acquiring
    <2> QED
      BY <2>1, <2>2
  <1>7. ASSUME NEW c \in Clients, LetScriptsRun(c)
        PROVE  LockTypeInv'
    BY <1>7 DEF LetScriptsRun, TypeOK
  <1>8. ASSUME NEW c \in Clients, Refresh(c)
        PROVE  LockTypeInv'
    <2>1. lock' \in Locks
      BY <1>8, LocksTyped DEF Refresh, Refreshed, TypeOK
    <2> QED
      BY <1>8, <2>1, LockAssumption DEF Refresh, TypeOK
  <1>9. ASSUME NEW c \in Clients, EndWell(c) \/ EndBadly(c)
        PROVE  LockTypeInv'
    BY <1>9, LockAssumption DEF EndWell, EndBadly, Goto, TypeOK, Steps, Acquiring
  <1>10. ASSUME NEW c \in Clients, Release(c)
         PROVE  LockTypeInv'
    BY <1>10, LocksTyped, LockAssumption DEF Release, Goto, TypeOK, Steps, Acquiring
  <1>11. ASSUME NEW c \in Clients, LateDelete(c)
         PROVE  LockTypeInv'
    BY <1>11, LocksTyped DEF LateDelete, TypeOK
  <1>12. ASSUME NEW c \in Clients, ReplyLost(c)
         PROVE  LockTypeInv'
    BY <1>12, LocksTyped, MadeByTyped DEF ReplyLost, TypeOK, Acquiring
  <1>13. ASSUME NEW h \in Hosts, Crash(h) \/ Restart(h)
         PROVE  LockTypeInv'
    BY <1>13, LocksTyped DEF Crash, Restart, TypeOK, Steps, Acquiring
  <1>14. CASE Tick
    <2>1. lock' \in Locks
      BY <1>14, LocksTyped DEF Tick, TypeOK
    <2>2. clock' \in [Clients -> Nat]
      BY <1>14 DEF Tick, TypeOK
    <2>3. ASSUME NEW c \in Clients, pc'[c] \in Acquiring
          PROVE  clock'[c] <= MaxAcquire
      <3>1. pc[c] \in Acquiring /\ Waiting(c) /\ Patience(c) = MaxAcquire
        BY <1>14, <2>3 DEF Tick, Waiting, Active, Patience
      <3> QED
        BY <1>14, <3>1, LockAssumption DEF Tick, TypeOK
    <2> QED
      BY <1>14, <2>1, <2>2, <2>3 DEF Tick, TypeOK
  <1>15. CASE UNCHANGED vars
    BY <1>15 DEF vars, TypeOK
  <1> QED
    BY <1>1, <1>3, <1>4, <1>5, <1>6, <1>7, <1>8, <1>9, <1>10, <1>11, <1>12,
       <1>13, <1>14, <1>15 DEF Next, ClientStep, End

(* All variables keep their types, whatever the faults.                    *)
THEOREM LockTyped == ASSUME MaxAcquire <= Timeout PROVE Spec => []TypeOK
  <1>1. LockTypeInv /\ [Next]_vars => LockTypeInv'
    BY LockStepKeepsType
  <1>2. LockTypeInv => TypeOK
    BY DEF LockTypeInv
  <1> QED
    BY <1>1, <1>2, LockTypeInit, PTL DEF Spec

-----------------------------------------------------------------------------

(* Why nobody ever finds the lock of a live client stale: it is never      *)
(* older than the time to acquire it plus the time since the last refresh. *)
(* A lock without a live owner is there only while the process is down.    *)
ExclusionInv ==
    /\ LockTypeInv
    /\ \A c \in Clients : pc[c] # "remove"
    /\ \A c \in pending : pc[c] = "failed"
    /\ \A c \in Clients : Guards(c) => lock.says = "time" /\ lock.owner = c
    /\ \A c \in Clients : Holds(c) =>
          clock[c] <= Period /\ lock.age <= MaxAcquire + clock[c]
    /\ \A c \in Clients : Guards(c) /\ ~ Holds(c) =>
          clock[c] <= MaxRelease /\ lock.age <= MaxAcquire + Period + clock[c]
    /\ lock # Free => down # {} \/ \E c \in Clients : Guards(c)
    /\ down # {} => /\ "crash" \in Faults
                    /\ \A c \in Clients : ~ Active(c) /\ c \notin pending

LEMMA ExclusionInit == ASSUME Orderly, Init PROVE ExclusionInv
  <1>1. lock = Free
    BY DEF Orderly, Init
  <1>2. LockTypeInv
    BY LockTypeInit
  <1> QED
    BY <1>1, <1>2 DEF Init, ExclusionInv, Guards, Holds, Acquiring

LEMMA AgeTyped ==
    ASSUME ExclusionInv
    PROVE  lock \in Locks /\ lock.age \in Nat
  <1>1. lock \in Locks
    BY DEF ExclusionInv, LockTypeInv, TypeOK
  <1>2. lock.age \in 0..(Timeout + 1)
    BY <1>1, LocksTyped
  <1> QED
    BY <1>1, <1>2, LockAssumption

(* A guarded lock is not stale and there is one guard at most. *)
LEMMA GuardedLock ==
    ASSUME Punctual, ExclusionInv, NEW c \in Clients, Guards(c)
    PROVE  /\ lock # Free /\ ~ Stale /\ lock.age <= Timeout
           /\ \A d \in Clients : Guards(d) => d = c
           /\ down = {}
  <1>1. lock.says = "time" /\ lock.owner = c
    BY DEF ExclusionInv
  <1>2. clock[c] \in Nat /\ lock.age \in Nat
    BY AgeTyped DEF ExclusionInv, LockTypeInv, TypeOK
  <1>3. lock.age <= Timeout
    <2>1. CASE Holds(c)
      BY <1>2, <2>1, LockAssumption DEF Punctual, ExclusionInv
    <2>2. CASE ~ Holds(c)
      BY <1>2, <2>2, LockAssumption DEF Punctual, ExclusionInv
    <2> QED
      BY <2>1, <2>2
  <1>4. lock # Free /\ ~ Stale
    BY <1>1, <1>2, <1>3, LockAssumption DEF Free, Stale
  <1>5. down = {}
    BY DEF ExclusionInv, Guards, Active
  <1>6. \A d \in Clients : Guards(d) => d = c
    BY <1>1 DEF ExclusionInv
  <1> QED
    BY <1>3, <1>4, <1>5, <1>6

(* Making the lock: nobody guards a lock that is not there. *)
LEMMA ObtainKeepsExclusion ==
    ASSUME Punctual, ExclusionInv, LockTypeInv', NEW c \in Clients,
           pc[c] \in Acquiring, Obtain(c), UNCHANGED <<pending, down>>
    PROVE  ExclusionInv'
  <1>1. \A d \in Clients : ~ Guards(d)
    BY GuardedLock DEF Obtain
  <1>2. /\ lock' = [says |-> "time", owner |-> c, age |-> clock[c]]
        /\ pc' = [pc EXCEPT ![c] = "held"] /\ clock' = [clock EXCEPT ![c] = 0]
        /\ pending' = pending /\ down' = down /\ down = {}
    BY DEF Obtain, MadeBy, Goto, ExclusionInv, Active
  <1>3. /\ pc \in [Clients -> Steps] /\ clock \in [Clients -> Nat]
        /\ pending \subseteq Clients
        /\ clock[c] <= MaxAcquire
    BY DEF ExclusionInv, LockTypeInv, TypeOK
  <1>4. \A d \in Clients : Guards(d)' <=> d = c
    BY <1>1, <1>2, <1>3 DEF Guards
  <1>5. /\ lock'.says = "time" /\ lock'.owner = c /\ lock'.age = clock[c]
        /\ clock'[c] = 0 /\ Holds(c)'
    BY <1>2, <1>3 DEF Holds
  <1>6. \A d \in Clients : d # c => pc'[d] = pc[d]
    BY <1>2, <1>3
  <1>7. c \notin pending
    BY DEF ExclusionInv, Acquiring
  <1>8. \A d \in Clients : Holds(d)' => d = c
    BY <1>4 DEF Guards, Holds
  <1> QED
    BY <1>2, <1>3, <1>4, <1>5, <1>6, <1>7, <1>8, LockAssumption DEF ExclusionInv

(* A step that leaves the lock, and neither makes a guard nor ends one. *)
LEMMA AsideKeepsExclusion ==
    ASSUME ExclusionInv, LockTypeInv', NEW c \in Clients, NEW to \in Steps,
           to \notin {"held", "releasing", "remove"},
           pc' = [pc EXCEPT ![c] = to],
           ~ Guards(c), to \in Acquiring => down = {},
           UNCHANGED <<lock, pending, down>>,
           \A d \in Clients \ {c} : clock'[d] = clock[d]
    PROVE  ExclusionInv'
  <1>1. pc \in [Clients -> Steps]
    BY DEF ExclusionInv, LockTypeInv, TypeOK
  <1>2. \A d \in Clients : Guards(d)' <=> Guards(d)
    BY <1>1 DEF Guards
  <1>3. \A d \in Clients : Holds(d)' <=> Holds(d)
    BY <1>1 DEF Guards, Holds
  <1>4. \A d \in Clients : Guards(d) => d # c /\ clock'[d] = clock[d]
    OBVIOUS
  <1>5. \A d \in Clients : Holds(d) => Guards(d)
    BY DEF Guards, Holds
  <1>6. down' # {} => /\ "crash" \in Faults
                      /\ \A d \in Clients : ~ Active(d)' /\ d \notin pending'
    BY <1>1 DEF ExclusionInv, Active
  <1>7. \A d \in pending' : pc'[d] = "failed"
    BY <1>1 DEF ExclusionInv, Guards
  <1>8. \A d \in Clients : pc'[d] # "remove"
    BY <1>1 DEF ExclusionInv
  <1> QED
    BY <1>2, <1>3, <1>4, <1>5, <1>6, <1>7, <1>8 DEF ExclusionInv

(* A step after which nobody guards and no lock is left. *)
LEMMA FreedKeepsExclusion ==
    ASSUME LockTypeInv', lock' = Free,
           \A d \in Clients : ~ Guards(d)' /\ pc'[d] # "remove",
           \A d \in pending' : pc'[d] = "failed",
           down' # {} => "crash" \in Faults /\ \A d \in Clients : ~ Active(d)'
    PROVE  ExclusionInv'
  BY DEF ExclusionInv, Guards, Holds

LEMMA LockStepKeepsExclusion ==
    ASSUME Punctual, Orderly, ExclusionInv, [Next]_vars
    PROVE  ExclusionInv'
  <1>1. LockTypeInv'
    BY LockStepKeepsType, LockAssumption DEF Punctual, ExclusionInv
  <1>2. /\ "odd" \notin Faults /\ "lost" \notin Faults
    BY DEF Orderly
  <1>3. /\ pc \in [Clients -> Steps] /\ clock \in [Clients -> Nat]
        /\ pending \subseteq Clients /\ down \subseteq Hosts
    BY DEF ExclusionInv, LockTypeInv, TypeOK
  <1>4. ASSUME NEW c \in Clients, Begin(c)
        PROVE  ExclusionInv'
    <2>1. down = {}
      <3>1. SUFFICES ASSUME down # {} PROVE FALSE
        OBVIOUS
      <3>2. PICK h \in Hosts : Hosts = {h}
        BY <3>1 DEF ExclusionInv, Orderly
      <3>3. Home[c] \in down
        BY <1>3, <3>1, <3>2, LockAssumption
      <3> QED
        BY <1>4, <3>3 DEF Begin
    <2> QED
      BY <1>1, <1>3, <1>4, <2>1, AsideKeepsExclusion
      DEF Begin, Goto, Guards, Steps, Acquiring, ExclusionInv
  <1>5. ASSUME NEW c \in Clients, pc[c] \in Acquiring
        PROVE  down = {} /\ ~ Guards(c)
    BY <1>5 DEF ExclusionInv, Active, Guards, Acquiring
  <1>6. ASSUME NEW c \in Clients, FirstPost(c) \/ SecondPost(c)
        PROVE  ExclusionInv'
    <2>1. pc[c] \in Acquiring
      BY <1>6 DEF FirstPost, SecondPost, Acquiring
    <2>2. CASE Obtain(c)
      BY <1>1, <1>6, <2>1, <2>2, ObtainKeepsExclusion DEF FirstPost, SecondPost
    <2>3. CASE ~ Obtain(c)
      <3>1. PICK to \in {"check", "refused"} : pc' = [pc EXCEPT ![c] = to]
        BY <1>6, <2>3 DEF FirstPost, SecondPost, Goto
      <3>2. UNCHANGED <<lock, clock, pending, down>>
        BY <1>6, <2>3 DEF FirstPost, SecondPost
      <3> QED
        BY <1>1, <1>5, <2>1, <3>1, <3>2, AsideKeepsExclusion DEF Steps, Acquiring
    <2> QED
      BY <2>2, <2>3
  <1>7. ASSUME NEW c \in Clients, Check(c)
        PROVE  ExclusionInv'
    <2>1. pc[c] \in Acquiring
      BY <1>7 DEF Check, Acquiring
    <2>2. ~ (lock # Free /\ Stale)
      BY <1>5, <2>1, GuardedLock DEF ExclusionInv
    <2>3. PICK to \in {"stop", "refused"} : pc' = [pc EXCEPT ![c] = to]
      BY <1>2, <1>7, <2>2 DEF Check, Goto
    <2> QED
      BY <1>1, <1>5, <1>7, <2>1, <2>3, AsideKeepsExclusion DEF Check, Steps, Acquiring
  <1>8. ASSUME NEW c \in Clients, StopScripts(c)
        PROVE  ExclusionInv'
    <2>1. pc[c] \in Acquiring
      BY <1>8 DEF StopScripts, Acquiring
    <2> QED
      BY <1>1, <1>5, <1>8, <2>1, AsideKeepsExclusion
      DEF StopScripts, Goto, Steps, Acquiring
  <1>9. ASSUME NEW c \in Clients, Remove(c) \/ Reject(c) \/ ReplyLost(c)
        PROVE  ExclusionInv'
    BY <1>2, <1>9 DEF Remove, Reject, ReplyLost, ExclusionInv
  <1>10. CASE UNCHANGED <<lock, pc, clock, pending, down>>
    BY <1>1, <1>10 DEF ExclusionInv, Guards, Holds, Active
  <1>11. ASSUME NEW c \in Clients, Refresh(c)
         PROVE  ExclusionInv'
    <2>1. /\ Holds(c) /\ Guards(c) /\ UNCHANGED <<pc, pending, down>>
          /\ lock' = Refreshed /\ clock' = [clock EXCEPT ![c] = 0]
      BY <1>2, <1>11 DEF Refresh, Holds, Guards
    <2>2. /\ lock # Free /\ lock.owner = c /\ lock \in Locks
          /\ \A d \in Clients : Guards(d) => d = c
      BY <2>1, GuardedLock DEF ExclusionInv, LockTypeInv, TypeOK
    <2>3. lock'.says = "time" /\ lock'.owner = c /\ lock'.age = 0
      BY <2>1, <2>2 DEF Refreshed, Locks
    <2>4. clock'[c] = 0
      BY <1>3, <2>1
    <2>5. \A d \in Clients : /\ Guards(d)' = Guards(d)
                              /\ Holds(d)' = Holds(d)
                              /\ Active(d)' = Active(d)
      BY <2>1 DEF Guards, Holds, Active
    <2>6. \A d \in Clients : Holds(d) => Guards(d)
      BY DEF Guards, Holds
    <2> QED
      BY <1>1, <2>1, <2>2, <2>3, <2>4, <2>5, <2>6, LockAssumption DEF ExclusionInv
  <1>12. ASSUME NEW c \in Clients, End(c)
         PROVE  ExclusionInv'
    <2>1. Holds(c) /\ Guards(c) /\ UNCHANGED <<lock, down>> /\ pc[c] = "held"
      BY <1>12 DEF End, EndWell, EndBadly, Holds, Guards
    <2>2. /\ \A d \in Clients : Guards(d) => d = c
          /\ lock.says = "time" /\ lock.owner = c /\ lock # Free /\ down = {}
      BY <2>1, GuardedLock DEF ExclusionInv
    <2>3. clock' = [clock EXCEPT ![c] = 0]
      BY <1>12 DEF End, EndWell, EndBadly
    <2>4. clock'[c] = 0 /\ lock.age <= MaxAcquire + Period
      <3>1. lock.age \in Nat /\ clock[c] \in Nat
        BY <1>3, AgeTyped
      <3> QED
        BY <1>3, <2>1, <2>3, <3>1, LockAssumption DEF ExclusionInv
    <2>5. /\ Guards(c)' /\ ~ Holds(c)'
          /\ \A d \in Clients : d # c => pc'[d] = pc[d] /\ (d \in pending' <=> d \in pending)
          /\ c \in pending' => pc'[c] = "failed"
          /\ pc'[c] # "remove"
          /\ pending' \subseteq Clients
      BY <1>3, <1>12, <2>1 DEF End, EndWell, EndBadly, Goto, Guards, Holds, ExclusionInv
    <2>6. \A d \in Clients : d # c => ~ Guards(d)' /\ ~ Holds(d)'
      BY <2>2, <2>5 DEF Guards, Holds
    <2> QED
      BY <1>1, <2>1, <2>2, <2>4, <2>5, <2>6, LockAssumption DEF ExclusionInv
  <1>13. ASSUME NEW c \in Clients, Release(c)
         PROVE  ExclusionInv'
    <2>1. pc[c] = "releasing" /\ Guards(c)
      BY <1>13 DEF Release, Guards
    <2>2. lock # Free /\ down = {} /\ \A d \in Clients : Guards(d) => d = c
      BY <2>1, GuardedLock
    <2>3. /\ lock' = Free /\ pc' = [pc EXCEPT ![c] = "done"]
          /\ pending' = pending /\ down' = down
      BY <1>2, <1>13, <2>2 DEF Release, Goto
    <2>4. c \notin pending
      BY <2>1 DEF ExclusionInv
    <2>5. \A d \in Clients : ~ Guards(d)' /\ pc'[d] # "remove"
      BY <1>3, <2>2, <2>3, <2>4 DEF Guards, ExclusionInv
    <2> QED
      BY <1>1, <1>3, <2>2, <2>3, <2>4, <2>5, FreedKeepsExclusion DEF ExclusionInv
  <1>14. ASSUME NEW c \in Clients, LateDelete(c)
         PROVE  ExclusionInv'
    <2>1. pc[c] = "failed" /\ Guards(c)
      BY <1>14 DEF LateDelete, Guards, ExclusionInv
    <2>2. lock # Free /\ down = {} /\ \A d \in Clients : Guards(d) => d = c
      BY <2>1, GuardedLock
    <2>3. /\ lock' = Free /\ pc' = pc /\ pending' = pending \ {c} /\ down' = down
      BY <1>2, <1>14 DEF LateDelete
    <2>4. \A d \in Clients : ~ Guards(d)' /\ pc'[d] # "remove"
      BY <2>1, <2>2, <2>3 DEF Guards, ExclusionInv
    <2> QED
      BY <1>1, <1>3, <2>2, <2>3, <2>4, FreedKeepsExclusion DEF ExclusionInv
  <1>15. ASSUME NEW h \in Hosts, Crash(h)
         PROVE  ExclusionInv'
    <2>1. Hosts = {h} /\ "crash" \in Faults
      BY <1>15 DEF Crash, Orderly
    <2>2. \A c \in Clients : Home[c] = h
      BY <2>1, LockAssumption
    <2>3. /\ pending' = {} /\ lock' = lock /\ clock' = clock /\ down' # {}
          /\ \A c \in Clients : pc'[c] = IF Active(c) THEN "crashed" ELSE pc[c]
      BY <1>3, <1>15, <2>2 DEF Crash
    <2>4. \A c \in Clients : ~ Active(c)' /\ ~ Guards(c)' /\ ~ Holds(c)' /\ pc'[c] # "remove"
      BY <2>3 DEF Active, Guards, Holds, Acquiring, ExclusionInv
    <2> QED
      BY <1>1, <2>1, <2>3, <2>4 DEF ExclusionInv
  <1>16. ASSUME NEW h \in Hosts, Restart(h)
         PROVE  ExclusionInv'
    <2>1. Hosts = {h} /\ Local = {h} /\ down # {}
      BY <1>16 DEF Restart, ExclusionInv, Orderly
    <2>2. /\ lock' = Free /\ pc' = pc /\ pending' = pending /\ down' = {}
      BY <1>3, <1>16, <2>1 DEF Restart
    <2>3. \A c \in Clients : ~ Active(c) /\ c \notin pending
      BY <2>1 DEF ExclusionInv
    <2>4. \A c \in Clients : ~ Guards(c)' /\ pc'[c] # "remove"
      BY <2>2, <2>3 DEF Active, Guards, ExclusionInv
    <2> QED
      BY <1>1, <1>3, <2>2, <2>3, <2>4, FreedKeepsExclusion
  <1>17. CASE Tick
    <2>1. UNCHANGED <<pc, pending, down>>
      BY <1>17 DEF Tick
    <2>2. \A c \in Clients : /\ Guards(c)' = Guards(c)
                              /\ Holds(c)' = Holds(c)
                              /\ Active(c)' = Active(c)
      BY <2>1 DEF Guards, Holds, Active
    <2>3. lock \in Locks /\ lock.age \in Nat
      BY AgeTyped
    <2>4. lock' # Free => lock # Free
      BY <1>17 DEF Tick, Free
    <2>5. ASSUME NEW c \in Clients, Guards(c)
          PROVE  /\ lock'.says = "time" /\ lock'.owner = c
                 /\ lock'.age = lock.age + 1
                 /\ clock'[c] = clock[c] + 1 /\ clock[c] \in Nat
                 /\ clock[c] < Patience(c)
      <3>1. lock.says = "time" /\ lock.owner = c /\ lock.age <= Timeout /\ lock # Free
        BY <2>5, GuardedLock DEF ExclusionInv
      <3>2. Waiting(c)
        BY <2>5 DEF Guards, Waiting, Active
      <3> QED
        BY <1>3, <1>17, <2>3, <3>1, <3>2 DEF Tick, Locks
    <2>6. ASSUME NEW c \in Clients, Holds(c)
          PROVE  clock'[c] <= Period /\ lock'.age <= MaxAcquire + clock'[c]
      <3>1. Guards(c) /\ Patience(c) = Period
        BY <2>6 DEF Holds, Guards, Patience, Acquiring
      <3> QED
        BY <2>3, <2>5, <2>6, <3>1, LockAssumption DEF ExclusionInv
    <2>7. ASSUME NEW c \in Clients, Guards(c), ~ Holds(c)
          PROVE  /\ clock'[c] <= MaxRelease
                 /\ lock'.age <= MaxAcquire + Period + clock'[c]
      <3>1. Patience(c) = MaxRelease
        BY <2>7 DEF Holds, Guards, Patience, Acquiring, ExclusionInv
      <3> QED
        BY <2>3, <2>5, <2>7, <3>1, LockAssumption DEF ExclusionInv
    <2> QED
      BY <1>1, <2>1, <2>2, <2>4, <2>5, <2>6, <2>7 DEF ExclusionInv
  <1> QED
    BY <1>4, <1>6, <1>7, <1>8, <1>9, <1>10, <1>11, <1>12, <1>13, <1>14, <1>15,
       <1>16, <1>17 DEF Next, ClientStep, LetScriptsRun, vars

(* ExclusionInv is inductive, and all that it says of a lock that guards   *)
(* somebody follows from GuardedLock.                                      *)
LEMMA ExclusionHolds ==
    ASSUME Punctual, Orderly
    PROVE  Spec => []ExclusionInv
  <1>1. Init => ExclusionInv
    BY ExclusionInit
  <1>2. ExclusionInv /\ [Next]_vars => ExclusionInv'
    BY LockStepKeepsExclusion
  <1> QED
    BY <1>1, <1>2, PTL DEF Spec

LEMMA GuardsOwn ==
    ASSUME Punctual, ExclusionInv, NEW c \in Clients, Guards(c)
    PROVE  /\ lock # Free /\ lock.says = "time" /\ lock.owner = c
           /\ lock.age <= Timeout
           /\ \A d \in Clients : Guards(d) => d = c
  BY GuardedLock DEF ExclusionInv

(* When the device answers in time and nothing is lost, no two requests    *)
(* change it at the same time, even if the only AS3 process crashes and    *)
(* starts again (mutex.js).                                                *)
THEOREM LockExcludes ==
    ASSUME Punctual, Orderly
    PROVE  Spec => []MutualExclusion
  <1>1. ExclusionInv => MutualExclusion
    <2> SUFFICES ASSUME ExclusionInv, NEW c \in Clients, NEW d \in Clients, Holds(c), Holds(d)
                 PROVE  c = d
      BY DEF MutualExclusion
    <2> QED
      BY GuardsOwn DEF Guards, Holds
  <1> QED
    BY <1>1, ExclusionHolds, PTL

(* Under the same conditions a holder's lock stays its own and unexpired,  *)
(* from the acquisition over every refresh to the release (lockRefresher). *)
THEOREM LockHeldByOwner ==
    ASSUME Punctual, Orderly
    PROVE  Spec => []HolderOwnsLock
  <1>1. ExclusionInv => HolderOwnsLock
    <2> SUFFICES ASSUME ExclusionInv, NEW c \in Clients, Holds(c)
                 PROVE  lock.says = "time" /\ lock.owner = c /\ lock.age <= Timeout
      BY DEF HolderOwnsLock
    <2> QED
      BY GuardsOwn DEF Guards, Holds
  <1> QED
    BY <1>1, ExclusionHolds, PTL

(* Under the same conditions whatever DELETE is on its way, awaited or     *)
(* not, finds the lock of its sender (releaseMutexLock).                   *)
THEOREM ReleaseIsOwn ==
    ASSUME Punctual, Orderly
    PROVE  Spec => []ReleaseFindsOwnLock
  <1>1. ExclusionInv => ReleaseFindsOwnLock
    <2> SUFFICES ASSUME ExclusionInv, NEW c \in Clients, pc[c] = "releasing" \/ c \in pending
                 PROVE  lock # Free /\ lock.owner = c
      BY DEF ReleaseFindsOwnLock
    <2> QED
      BY GuardsOwn DEF Guards
  <1> QED
    BY <1>1, ExclusionHolds, PTL

-----------------------------------------------------------------------------
(* The lock service                                                        *)

(* There is one guard at most, so the one that is chosen is the one.       *)
LEMMA GuardIsIt ==
    ASSUME Punctual, ExclusionInv
    PROVE  /\ \A c \in Clients : Guards(c) => Guard = c
           /\ (\A c \in Clients : ~ Guards(c)) => Guard = Nobody
  <1>1. \A c, d \in Clients : Guards(c) /\ Guards(d) => c = d
    BY GuardsOwn
  <1> HIDE DEF Guards
  <1> QED
    BY <1>1 DEF Guard

(* A step in which guards only end, if any, and those whose guard ends are *)
(* gone with the others that leave.                                        *)
LEMMA GuardsLeave ==
    ASSUME Punctual, ExclusionInv, ExclusionInv', NEW leaving \in SUBSET (Clients \ Departed),
           Departed' = Departed \cup leaving,
           \A c \in Clients : Guards(c)' <=> Guards(c) /\ c \notin leaving
    PROVE  Turns!Next
  <1>1. /\ \A c \in Clients : Guards(c)' => Guard' = c
        /\ (\A c \in Clients : ~ Guards(c)') => Guard' = Nobody
    <2>1. \A c, d \in Clients : Guards(c)' /\ Guards(d)' => c = d
      BY DEF ExclusionInv
    <2> HIDE DEF Guards
    <2> QED
      BY <2>1 DEF Guard
  <1>2. Guard' = IF Guard \in leaving THEN Nobody ELSE Guard
    <2>1. CASE \E c \in Clients : Guards(c)
      <3>1. PICK c \in Clients : Guards(c)
        BY <2>1
      <3>2. Guard = c /\ \A d \in Clients : Guards(d) => d = c
        BY <3>1, GuardIsIt
      <3> HIDE DEF Guards, Guard
      <3> QED
        BY <1>1, <3>1, <3>2
    <2>2. CASE \A c \in Clients : ~ Guards(c)
      <3>1. Guard = Nobody /\ Guard' = Nobody
        BY <1>1, <2>2, GuardIsIt
      <3> QED
        BY <3>1
    <2> QED
      BY <2>1, <2>2
  <1>3. Turns!Leave(leaving)
    BY <1>2 DEF Turns!Leave
  <1> QED
    BY <1>3 DEF Turns!Next

(* Every step of the lock is one of the service: the POST that makes it is *)
(* a Take, the DELETE that is applied and the end of a client are a Leave, *)
(* and the rest changes nothing.                                           *)
LEMMA TurnStep ==
    ASSUME Punctual, Orderly, ExclusionInv, ExclusionInv', [Next]_vars
    PROVE  [Turns!Next]_(Turns!vars)
  <1>1. /\ "odd" \notin Faults /\ "lost" \notin Faults
    BY DEF Orderly
  <1>2. pc \in [Clients -> Steps] /\ pending \subseteq Clients
    BY DEF ExclusionInv, LockTypeInv, TypeOK
  <1>3. ASSUME UNCHANGED <<pc, pending>>
        PROVE  Turns!Next
    <2>1. Departed' = Departed \cup {} /\ {} \in SUBSET (Clients \ Departed)
      BY <1>3 DEF Departed
    <2>2. \A c \in Clients : Guards(c)' <=> Guards(c) /\ c \notin {}
      BY <1>3 DEF Guards
    <2> QED
      BY <2>1, <2>2, GuardsLeave
  <1>4. ASSUME NEW c \in Clients, ~ Guards(c), c \notin Departed, NEW to,
               to \notin {"held", "releasing"},
               pc' = [pc EXCEPT ![c] = to], UNCHANGED pending
        PROVE  Turns!Next
    <2> DEFINE leaving == IF to \in {"done", "failed", "refused", "crashed"} THEN {c} ELSE {}
    <2>1. pc[c] \notin {"held", "releasing", "done", "failed", "refused", "crashed"}
      BY <1>4 DEF Guards, Departed
    <2>2. leaving \in SUBSET (Clients \ Departed) /\ Departed' = Departed \cup leaving
      BY <1>2, <1>4, <2>1 DEF Departed, Guards
    <2>3. \A d \in Clients : Guards(d)' <=> Guards(d) /\ d \notin leaving
      BY <1>2, <1>4 DEF Guards
    <2> HIDE DEF leaving
    <2> QED
      BY <2>2, <2>3, GuardsLeave
  <1>5. ASSUME NEW c \in Clients, pc[c] \in Acquiring, Obtain(c), UNCHANGED pending
        PROVE  Turns!Next
    <2>1. \A d \in Clients : ~ Guards(d)
      BY <1>5, GuardsOwn DEF Obtain
    <2>2. pc' = [pc EXCEPT ![c] = "held"]
      BY <1>5 DEF Obtain, Goto
    <2>3. Guards(c)' /\ \A d \in Clients : Guards(d)' => d = c
      BY <1>2, <1>5, <2>1, <2>2 DEF Guards
    <2>4. Guard = Nobody /\ Guard' = c
      <3>1. Guard = Nobody
        BY <2>1, GuardIsIt
      <3> HIDE DEF Guards
      <3> QED
        BY <2>3, <3>1 DEF Guard
    <2>5. c \notin Departed /\ Departed' = Departed
      BY <1>2, <1>5, <2>2 DEF Departed, Acquiring
    <2>6. Turns!Take(c)
      BY <2>4, <2>5 DEF Turns!Take
    <2> QED
      BY <2>6 DEF Turns!Next
  <1>6. ASSUME NEW c \in Clients, pc[c] \in Acquiring \cup {"idle"}
        PROVE  ~ Guards(c) /\ c \notin Departed
    BY <1>6 DEF Guards, Departed, Acquiring, ExclusionInv
  <1>7. ASSUME NEW c \in Clients, Begin(c)
        PROVE  Turns!Next
    BY <1>4, <1>6, <1>7 DEF Begin, Goto
  <1>8. ASSUME NEW c \in Clients, FirstPost(c) \/ SecondPost(c)
        PROVE  Turns!Next
    <2>1. pc[c] \in Acquiring /\ UNCHANGED pending
      BY <1>8 DEF FirstPost, SecondPost, Acquiring
    <2>2. CASE ~ Obtain(c)
      <3>1. PICK to \in {"check", "refused"} : pc' = [pc EXCEPT ![c] = to]
        BY <1>8, <2>2 DEF FirstPost, SecondPost, Goto
      <3> QED
        BY <1>4, <1>6, <2>1, <3>1
    <2> QED
      BY <1>5, <2>1, <2>2
  <1>9. ASSUME NEW c \in Clients, Check(c) \/ Remove(c) \/ StopScripts(c)
        PROVE  Turns!Next
    <2>1. pc[c] \in Acquiring /\ UNCHANGED pending
      BY <1>9 DEF Check, Remove, StopScripts, Acquiring
    <2>2. PICK to \in {"stop", "remove", "refused", "second"} : pc' = [pc EXCEPT ![c] = to]
      BY <1>9 DEF Check, Remove, StopScripts, Goto
    <2> QED
      BY <1>4, <1>6, <2>1, <2>2
  <1>10. ASSUME NEW c \in Clients, LetScriptsRun(c) \/ Refresh(c)
         PROVE  Turns!Next
    BY <1>3, <1>10 DEF LetScriptsRun, Refresh
  <1>11. ASSUME NEW c \in Clients, Reject(c) \/ ReplyLost(c)
         PROVE  Turns!Next
    BY <1>1, <1>11 DEF Reject, ReplyLost
  <1>12. ASSUME NEW c \in Clients, End(c) \/ (Release(c) /\ pending' # pending)
         PROVE  Turns!Next
    <2>1. /\ pc[c] \in {"held", "releasing"} /\ c \notin pending
          /\ \/ pc' = [pc EXCEPT ![c] = "releasing"] /\ pending' = pending
             \/ pc' = [pc EXCEPT ![c] = "failed"] /\ pending' = pending \cup {c}
      BY <1>12 DEF End, EndWell, EndBadly, Release, Goto, Holds, ExclusionInv
    <2>2. Departed' = Departed \cup {} /\ {} \in SUBSET (Clients \ Departed)
      BY <1>2, <2>1 DEF Departed
    <2>3. \A d \in Clients : Guards(d)' <=> Guards(d) /\ d \notin {}
      BY <1>2, <2>1 DEF Guards
    <2> QED
      BY <2>2, <2>3, GuardsLeave
  <1>13. ASSUME NEW c \in Clients, (Release(c) /\ pending' = pending) \/ LateDelete(c)
         PROVE  Turns!Next
    <2>1. \/ /\ pc[c] = "releasing" /\ c \notin pending
             /\ pc' = [pc EXCEPT ![c] = "done"] /\ pending' = pending
          \/ /\ pc[c] = "failed" /\ c \in pending
             /\ pc' = pc /\ pending' = pending \ {c}
      BY <1>13 DEF Release, LateDelete, Goto, ExclusionInv
    <2>2. Departed' = Departed \cup {c} /\ {c} \in SUBSET (Clients \ Departed)
      BY <1>2, <2>1 DEF Departed
    <2>3. \A d \in Clients : Guards(d)' <=> Guards(d) /\ d \notin {c}
      BY <1>2, <2>1 DEF Guards
    <2> QED
      BY <2>2, <2>3, GuardsLeave
  <1>14. ASSUME NEW h \in Hosts, Crash(h)
         PROVE  Turns!Next
    <2> DEFINE leaving == {c \in Clients : Home[c] = h /\ (Active(c) \/ c \in pending)}
    <2>1. /\ \A c \in Clients : pc'[c] = IF Home[c] = h /\ Active(c) THEN "crashed" ELSE pc[c]
          /\ pending' = {c \in pending : Home[c] # h}
      BY <1>14 DEF Crash
    <2>2. \A c \in pending : pc[c] = "failed"
      BY DEF ExclusionInv
    <2>3. leaving \in SUBSET (Clients \ Departed) /\ Departed' = Departed \cup leaving
      BY <2>1, <2>2 DEF Departed, Active, Acquiring
    <2>4. \A d \in Clients : Guards(d)' <=> Guards(d) /\ d \notin leaving
      BY <2>1, <2>2 DEF Guards, Active, Acquiring
    <2> HIDE DEF leaving
    <2> QED
      BY <2>3, <2>4, GuardsLeave
  <1>15. ASSUME NEW h \in Hosts, Restart(h)
         PROVE  Turns!Next
    BY <1>3, <1>15 DEF Restart
  <1>16. CASE Tick
    BY <1>3, <1>16 DEF Tick
  <1>17. CASE UNCHANGED vars
    BY <1>3, <1>17 DEF vars
  <1> QED
    BY <1>7, <1>8, <1>9, <1>10, <1>11, <1>12, <1>13, <1>14, <1>15, <1>16, <1>17
    DEF Next, ClientStep

(* Under the same conditions the data group, with its stamps, refreshes,   *)
(* late DELETEs and restarts, is to its users a lock that one owner has    *)
(* from taking it until leaving (acquireLock, lockRefresher, releaseLock). *)
THEOREM LockIsService ==
    ASSUME Punctual, Orderly
    PROVE  Spec => TakesTurns
  <1>1. Init => Turns!Init
    BY DEF Init, Turns!Init, Guard, Guards, Departed
  <1>2. ExclusionInv /\ ExclusionInv' /\ [Next]_vars => [Turns!Next]_(Turns!vars)
    BY TurnStep
  <1> QED
    BY <1>1, <1>2, ExclusionHolds, PTL DEF Spec, TakesTurns, Turns!Spec

=============================================================================
