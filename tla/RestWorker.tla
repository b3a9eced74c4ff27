----------------------------- MODULE RestWorker -----------------------------
(***************************************************************************)
(* The AS3 process between two restarts: the start of the worker           *)
(* (onStartCompleted of src/nodejs/restWorker.js and buildContext of       *)
(* src/lib/context/hostContext.js), the task records that the requests     *)
(* change (src/lib/asyncHandler.js), and the store that keeps them beyond  *)
(* the process: a data group (DataGroupDataStore.js), or memory only       *)
(* (JsonDataStore.js).                                                     *)
(*                                                                         *)
(* saveState() sends what the records are at the time and nobody waits for *)
(* it, so the saves of several changes are on their way together.  A       *)
(* restart ends the process at any time.                                   *)
(*                                                                         *)
(* A record's name stands for its timestamp as well: no two are created at *)
(* the same time, and a later one has the larger name.  What is older than *)
(* a week and what is too many goes as in AsyncRecords.                    *)
(***************************************************************************)
EXTENDS Naturals, Sequences, SequencesExt

CONSTANTS Tasks,          \* names of the records
          MaxRecords,     \* MAX_RECORDS
          Patience,       \* CHECK_TIMEOUT_MS in units of CHECK_INTERVAL_MS
          MaxRestarts,    \* bound on the restarts of a behaviour
          MaxSaves,       \* bound on the saves under way
          MayFail         \* whether a request to the device may fail

ASSUME WorkerAssumption ==
    /\ Patience \in Nat \ {0}
    /\ MaxRestarts \in Nat /\ MaxSaves \in Nat \ {0}
    /\ MayFail \in BOOLEAN
    /\ Tasks \subseteq Nat \ {0} /\ MaxRecords \in Nat

VARIABLES phase,      \* of the process
          budget,     \* what is left of Patience
          memory,     \* AsyncHandler.records
          kind,       \* asyncTaskStorage, as the process read it
          setting,    \* asyncTaskStorage, as it is stored
          group,      \* the data group of the records
          saves,      \* the saves under way
          posted,     \* the records this process created
          found,      \* the records that there were when it began
          unordered,  \* whether a save failed or went along with a different one
          restarts,
          newest,     \* the record created last, by any process
          horizon,    \* records up to it have expired
          busy        \* whether the device answers every request with 503

time == <<newest, horizon>>
vars == <<phase, budget, memory, kind, setting, group, saves, posted, found, unordered,
          restarts, newest, horizon, busy>>

R == INSTANCE AsyncRecords

Checks   == {"available", "provision"}
Steps    == <<"admin", "available", "provision", "discovery", "mutex", "store",
              "restore", "create", "cancel", "groups", "up">>
Phases   == ToSet(Steps) \cup {"failed", "down"}
Storage  == {"data-group", "memory"}

Tables  == [Tasks -> R!Statuses]
Empty   == [t \in Tasks |-> "none"]
Known(table) == {t \in Tasks : table[t] # "none"}

(* A start cancels what is pending.                                        *)
Restored(table) == [t \in Tasks |-> IF table[t] = "pending" THEN "cancelled" ELSE table[t]]

(* cleanRecords(): what has expired goes, and what is not pending and not  *)
(* among the newest MaxRecords.                                            *)
Cleaned(table) ==
    LET records == [t \in Tasks |-> [status |-> table[t], stamp |-> t]]
    IN  [t \in Tasks |-> R!CleanRecords(records, horizon)[t].status]

Init ==
    /\ phase = "down" /\ budget = Patience
    /\ memory = Empty
    /\ kind = "memory" /\ setting = "data-group"
    /\ group = [is |-> "missing", table |-> Empty]    \* "fresh" without a record, "saved"
    /\ saves = <<>>
    /\ posted = {} /\ found = {} /\ unordered = FALSE
    /\ restarts = 0
    /\ newest = 0 /\ horizon = 0
    /\ busy = FALSE

-----------------------------------------------------------------------------
(* Saves *)

Stage(i, stage) == saves' = [saves EXCEPT ![i].stage = stage]

(* times saves of the same records; the store in memory has them at once.  *)
Save(table, times) ==
    IF kind = "memory" THEN UNCHANGED <<saves, unordered>>
    ELSE /\ Len(saves) + times <= MaxSaves
         /\ saves' = saves \o [i \in 1..times |-> [stage |-> "check", data |-> table]]
         /\ unordered' = (unordered \/ \E i \in DOMAIN saves : saves[i].data # table)

(* DataGroupDataStore.save: looks for the folder and the data group,       *)
(* creates what is missing, and replaces the records.  What another save   *)
(* created meanwhile is a conflict, and ends this one.  A request that the *)
(* device answers with 503 is repeated until it is not.                    *)
SaveStep(i) ==
    LET stage == saves[i].stage
    IN  /\ ~busy
        /\ \/ /\ stage = "check"
              /\ Stage(i, IF group.is = "missing" THEN "create" ELSE "write")
              /\ UNCHANGED <<group, unordered>>
           \/ /\ stage = "create" /\ group.is = "missing"
              /\ group' = [group EXCEPT !.is = "fresh"]
              /\ Stage(i, "write")
              /\ UNCHANGED unordered
           \/ /\ stage = "create" /\ group.is # "missing"
              /\ saves' = RemoveAt(saves, i)
              /\ unordered' = TRUE
              /\ UNCHANGED group
           \/ /\ stage = "write"
              /\ group' = [is |-> "saved", table |-> saves[i].data]
              /\ saves' = RemoveAt(saves, i)
              /\ UNCHANGED unordered
        /\ UNCHANGED <<phase, budget, memory, kind, setting, posted, found, restarts, time, busy>>

SaveFails(i) ==
    /\ MayFail /\ ~busy
    /\ saves' = RemoveAt(saves, i)
    /\ unordered' = TRUE
    /\ UNCHANGED <<phase, budget, memory, kind, setting, group, posted, found, restarts, time, busy>>

-----------------------------------------------------------------------------
(* The start *)

After(step) == Steps[1 + CHOOSE i \in DOMAIN Steps : Steps[i] = step]

Boot ==
    /\ phase = "down"
    /\ phase' = "admin" /\ budget' = Patience
    /\ found' = IF setting = "data-group" THEN Known(group.table) ELSE {}
    /\ UNCHANGED <<memory, kind, setting, group, saves, posted, unordered, restarts, time, busy>>

(* The steps that a device stops which answers with 503 (retry503 of       *)
(* httpRequest and iControlRequest).                                       *)
Stopped == /\ busy
           /\ \/ phase \in Checks \cup {"admin", "discovery", "mutex"}
              \/ phase = "restore" /\ kind = "data-group"

(* The name of the administrator, the settings and the packages of the     *)
(* service discovery, the removal of the lock that a former process may    *)
(* have left, the data groups of other objects.                            *)
Pass ==
    /\ ~Stopped
    /\ phase \in {"admin", "discovery", "mutex", "groups"}
    /\ phase' = After(phase)
    /\ UNCHANGED <<budget, memory, kind, setting, group, saves, posted, found, unordered, restarts, time, busy>>

Fail ==
    /\ phase \in {"admin", "discovery", "mutex", "store", "restore", "groups"}
    /\ MayFail /\ ~Stopped
    /\ phase' = "failed"
    /\ UNCHANGED <<budget, memory, kind, setting, group, saves, posted, found, unordered, restarts, time, busy>>

(* Mutant of Check: the next try has all the time again. *)
CheckForEver ==
    /\ phase \in Checks /\ ~Stopped
    /\ \/ phase' = After(phase) /\ budget' = Patience
       \/ MayFail /\ budget' = (IF budget = Patience THEN Patience - 1 ELSE Patience) /\ UNCHANGED phase
    /\ UNCHANGED <<memory, kind, setting, group, saves, posted, found, unordered, restarts, time, busy>>

(* checkAddtlDependencies: another try after an interval, two intervals    *)
(* the less after an error, until the time is up.  A try that the device   *)
(* answers with 503 takes none of it: httpRequest asks again and the try   *)
(* does not end.                                                           *)
Check ==
    /\ phase \in Checks /\ ~Stopped
    /\ \/ phase' = After(phase) /\ budget' = Patience
       \/ /\ MayFail
          /\ \E spent \in {1, 2} :
                IF budget > spent THEN budget' = budget - spent /\ UNCHANGED phase
                                  ELSE budget' = 0 /\ phase' = "failed"
    /\ UNCHANGED <<memory, kind, setting, group, saves, posted, found, unordered, restarts, time, busy>>

MakeDataStore ==
    /\ phase = "store"
    /\ phase' = After(phase) /\ kind' = setting
    /\ UNCHANGED <<budget, memory, setting, group, saves, posted, found, unordered, restarts, time, busy>>

(* Mutant of Restore: any error means that there are no records yet. *)
RestoreAnyway ==
    /\ phase = "restore" /\ ~Stopped
    /\ \/ /\ kind = "data-group" /\ group.is = "saved"
          /\ memory' = group.table
          /\ phase' = "cancel"
          /\ UNCHANGED <<saves, unordered>>
       \/ /\ MayFail \/ kind = "memory" \/ group.is # "saved"
          /\ memory' = Empty
          /\ phase' = "create"
          /\ Save(Empty, 1)
    /\ UNCHANGED <<budget, kind, setting, group, posted, found, restarts, time, busy>>

(* restoreState(): without a record there is one to create, which is       *)
(* waited for; any other error is one of the start (Fail).                 *)
Restore ==
    /\ phase = "restore" /\ ~Stopped
    /\ IF kind = "data-group" /\ group.is = "saved"
       THEN /\ memory' = group.table
            /\ phase' = "cancel"
            /\ UNCHANGED <<saves, unordered>>
       ELSE /\ memory' = Empty
            /\ phase' = "create"
            /\ Save(Empty, 1)
    /\ UNCHANGED <<budget, kind, setting, group, posted, found, restarts, time, busy>>

(* The save of the empty table has ended, well or not.                     *)
CreateEnds ==
    /\ phase = "create" /\ saves = <<>>
    /\ phase' = IF kind = "data-group" /\ unordered THEN "failed" ELSE "cancel"
    /\ UNCHANGED <<budget, memory, kind, setting, group, saves, posted, found, unordered, restarts, time, busy>>

(* Mutant of Cancel: records from before the restart stay pending. *)
CancelNone ==
    /\ phase = "cancel"
    /\ phase' = After(phase)
    /\ memory' = Cleaned(memory)
    /\ Save(memory', 2)
    /\ UNCHANGED <<budget, kind, setting, group, posted, found, restarts, time, busy>>

(* updatePending(): cancels, cleans, and saves once more than              *)
(* cleanRecords() does.                                                    *)
Cancel ==
    /\ phase = "cancel"
    /\ phase' = After(phase)
    /\ memory' = Cleaned(Restored(memory))
    /\ Save(memory', 2)
    /\ UNCHANGED <<budget, kind, setting, group, posted, found, restarts, time, busy>>

Start == Boot \/ Pass \/ Fail \/ Check \/ MakeDataStore \/ Restore \/ CreateEnds \/ Cancel

-----------------------------------------------------------------------------
(* The requests *)

(* cleanRecords() for a request that is not a GET.                         *)
Arrive ==
    /\ phase = "up"
    /\ memory' = Cleaned(memory)
    /\ Save(memory', 1)
    /\ UNCHANGED <<phase, budget, kind, setting, group, posted, found, restarts, time, busy>>

(* handleRecord 'POST' and 'PATCH'                                         *)
Post(t) ==
    /\ phase = "up" /\ t > newest
    /\ newest' = t
    /\ memory' = [memory EXCEPT ![t] = "pending"]
    /\ posted' = posted \cup {t}
    /\ Save(memory', 1)
    /\ UNCHANGED <<phase, budget, kind, setting, group, found, restarts, horizon, busy>>

(* Mutant of Patch: the results are not saved. *)
PatchUnsaved(t) ==
    /\ phase = "up" /\ memory[t] = "pending"
    /\ memory' = [memory EXCEPT ![t] = "complete"]
    /\ UNCHANGED <<phase, budget, kind, setting, group, saves, posted, found, unordered, restarts, time, busy>>

Patch(t) ==
    /\ phase = "up" /\ memory[t] = "pending"
    /\ memory' = [memory EXCEPT ![t] = "complete"]
    /\ Save(memory', 1)
    /\ UNCHANGED <<phase, budget, kind, setting, group, posted, found, restarts, time, busy>>

(* reportError on a request that the queue refused: it saves nothing.      *)
Refuse(t) ==
    /\ phase = "up" /\ memory[t] = "pending"
    /\ memory' = [memory EXCEPT ![t] = "cancelled"]
    /\ UNCHANGED <<phase, budget, kind, setting, group, saves, posted, found, unordered, restarts, time, busy>>

(* A POST to /settings: the process keeps the store that it has.           *)
Configure ==
    /\ phase = "up"
    /\ setting' \in Storage \ {setting}
    /\ UNCHANGED <<phase, budget, memory, kind, group, saves, posted, found, unordered, restarts, time, busy>>

(* The process ends; of the writes on their way one may still be done.     *)
Restart ==
    /\ phase # "down" /\ restarts < MaxRestarts
    /\ phase' = "down" /\ restarts' = restarts + 1
    /\ memory' = Empty /\ saves' = <<>>
    /\ \/ UNCHANGED group
       \/ \E i \in DOMAIN saves :
             /\ saves[i].stage = "write"
             /\ group' = [is |-> "saved", table |-> saves[i].data]
    /\ posted' = {} /\ found' = {} /\ unordered' = FALSE
    /\ UNCHANGED <<budget, kind, setting, time, busy>>

(* Records expire. *)
WeekPasses ==
    /\ \E t \in Tasks : horizon < t /\ t <= newest /\ horizon' = t
    /\ UNCHANGED <<phase, budget, memory, kind, setting, group, saves, posted, found, unordered,
                   restarts, newest, busy>>

(* The device answers with 503 from now on, or no longer.                  *)
DeviceTurns ==
    /\ MayFail
    /\ busy' = ~busy
    /\ UNCHANGED <<phase, budget, memory, kind, setting, group, saves, posted, found, unordered,
                   restarts, time>>

Next ==
    \/ Start
    \/ \E i \in DOMAIN saves : SaveStep(i) \/ SaveFails(i)
    \/ Arrive
    \/ \E t \in Tasks : Post(t) \/ Patch(t) \/ Refuse(t)
    \/ Configure
    \/ WeekPasses
    \/ DeviceTurns
    \/ Restart

(* The framework starts the worker; a request to the device is answered,   *)
(* unless with 503.                                                        *)
Fairness ==
    /\ WF_vars(Start)
    /\ WF_vars(\E i \in DOMAIN saves : SaveStep(i) \/ SaveFails(i))

Spec == Init /\ [][Next]_vars /\ Fairness

-----------------------------------------------------------------------------

(* Whoever polls a task "in progress" polls one that this process works    *)
(* on: what a former process did not finish has been cancelled.            *)
PendingIsOurs ==
    phase = "up" => \A t \in Tasks : memory[t] = "pending" => t \in posted

(* What a start owes to those who poll: of the records that it found, the  *)
(* newest MaxRecords that have not expired.                                *)
Due == {t \in found : /\ t > horizon
                      /\ Cardinality({u \in found : u > t}) < MaxRecords}

(* A start loses no task that is due, whatever fails during it: it is in   *)
(* the memory or still in the data group.  A store that cannot be read is  *)
(* not taken for an empty one, and no record that has expired, was pending *)
(* or is older takes the place of one that is due.                         *)
KnownTasksAreKept == phase # "up" => Due \subseteq Known(memory) \cup Known(group.table)

Settled == phase = "up" /\ kind = "data-group" /\ saves = <<>>

(* Once its saves have ended, and if none failed or was overtaken, a start *)
(* would find what this process has: a refused request, whose record is    *)
(* not saved, included.                                                    *)
SettledAloneIsStored ==
    Settled /\ ~ unordered => Restored(group.table) = Restored(memory)

(* A start ends, be it that the device never becomes available or that     *)
(* each of its answers is an error: unless it goes on answering with 503,  *)
(* which makes a start wait for ever.                                      *)
StartEnds ==
    <>[]~busy => (phase = "admin" ~> phase \in {"up", "failed", "down"})
=============================================================================
