-------------------------- MODULE RestWorker_proofs --------------------------
(***************************************************************************)
(* The task records across restarts, for any number of tasks, restarts and *)
(* saves under way, whether or not requests to the device fail.            *)
(***************************************************************************)
EXTENDS RestWorker, SequenceTheorems, TLAPS

SaveStages == {"check", "create", "write"}
Saves == [stage : SaveStages, data : Tables]

WorkerTypeInv ==
    /\ phase \in {"down", "admin", "available", "provision", "discovery", "mutex", "store",
                  "restore", "create", "cancel", "groups", "up", "failed"}
    /\ memory \in Tables
    /\ kind \in Storage /\ setting \in Storage
    /\ group \in [is : {"missing", "fresh", "saved"}, table : Tables]
    /\ saves \in Seq(Saves)
    /\ posted \subseteq Tasks /\ found \subseteq Tasks
    /\ unordered \in BOOLEAN
    /\ newest \in Nat /\ horizon \in Nat

(* The steps of a start up to the one that reads the records.              *)
Unread == {"admin", "available", "provision", "discovery", "mutex", "store", "restore"}

(* The steps in which the records of the process are the latest.           *)
Reading == {"create", "cancel", "groups", "up"}

-----------------------------------------------------------------------------
(* Steps, tables, sequences of saves *)

LEMMA StepsFollow ==
    /\ After("admin") = "available"
    /\ After("available") = "provision"
    /\ After("provision") = "discovery"
    /\ After("discovery") = "mutex"
    /\ After("mutex") = "store"
    /\ After("store") = "restore"
    /\ After("cancel") = "groups"
    /\ After("groups") = "up"
  <1>1. DOMAIN Steps = 1..11
    BY DEF Steps
  <1>2. /\ Steps[1] = "admin" /\ Steps[2] = "available" /\ Steps[3] = "provision"
        /\ Steps[4] = "discovery" /\ Steps[5] = "mutex" /\ Steps[6] = "store"
        /\ Steps[7] = "restore" /\ Steps[8] = "create" /\ Steps[9] = "cancel"
        /\ Steps[10] = "groups" /\ Steps[11] = "up"
    BY DEF Steps
  <1>3. ASSUME NEW k \in 1..10,
               \A i \in 1..11 : Steps[i] = Steps[k] => i = k
        PROVE  After(Steps[k]) = Steps[k + 1]
    <2>1. k = CHOOSE i \in DOMAIN Steps : Steps[i] = Steps[k]
      BY <1>1, <1>3
    <2>2. After(Steps[k]) = Steps[1 + k]
      BY <2>1, Zenon DEF After
    <2> QED
      BY <2>2
  <1>4. \A i, j \in 1..11 : Steps[i] = Steps[j] => i = j
    BY <1>2
  <1>5. \A k \in 1..10 : After(Steps[k]) = Steps[k + 1]
    BY <1>3, <1>4
  <1>6. /\ After(Steps[1]) = Steps[2] /\ After(Steps[2]) = Steps[3]
        /\ After(Steps[3]) = Steps[4] /\ After(Steps[4]) = Steps[5]
        /\ After(Steps[5]) = Steps[6] /\ After(Steps[6]) = Steps[7]
        /\ After(Steps[9]) = Steps[10] /\ After(Steps[10]) = Steps[11]
    BY <1>5
  <1> QED
    BY <1>2, <1>6

LEMMA RestoredKnows ==
    ASSUME NEW table \in Tables
    PROVE  /\ Restored(table) \in Tables
           /\ Known(Restored(table)) = Known(table)
           /\ Restored(Restored(table)) = Restored(table)
           /\ \A t \in Tasks : Restored(table)[t] # "pending"
  BY DEF Tables, Restored, Known, R!Statuses

LEMMA EmptyTable == Empty \in Tables /\ Known(Empty) = {}
  BY DEF Empty, Tables, Known, R!Statuses

(* AsyncRecords counts as this module does.                                *)
LEMMA SameCardinality == \A S : R!Cardinality(S) = Cardinality(S)
  BY Zenon DEF R!Cardinality, Cardinality

(* The newest MaxRecords of a set of records, but those that have expired. *)
DueOf(S) == {t \in S : /\ t > horizon
                       /\ Cardinality({u \in S : u > t}) < MaxRecords}

(* Cleaning adds no record and changes none; without pending ones it drops *)
(* no record that is due.                                                  *)
LEMMA CleanedKeeps ==
    ASSUME WorkerTypeInv, NEW table \in Tables
    PROVE  /\ Cleaned(table) \in Tables
           /\ \A t \in Tasks : Cleaned(table)[t] \in {table[t], "none"}
           /\ (\A t \in Tasks : table[t] # "pending") =>
                 DueOf(Known(table)) \subseteq Known(Cleaned(table))
  <1> DEFINE records == [t \in Tasks |-> [status |-> table[t], stamp |-> t]]
             fresh   == {t \in Tasks : /\ records[t].status # "none"
                                       /\ records[t].stamp > horizon}
             pending == {t \in fresh : records[t].status = "pending"}
             settled == fresh \ pending
             stay    == pending \cup R!Newest(records, settled, MaxRecords)
             known   == Known(table)
  <1>1. Tasks \subseteq Nat /\ horizon \in Nat
    BY WorkerAssumption DEF WorkerTypeInv
  <1>2. \A t \in Tasks : records[t].status = table[t] /\ records[t].stamp = t
    OBVIOUS
  <1>3. \A t \in Tasks : Cleaned(table)[t] = IF t \in stay THEN table[t] ELSE "none"
    BY DEF Cleaned, R!CleanRecords, R!Absent
  <1>4. Cleaned(table) = [t \in Tasks |-> Cleaned(table)[t]]
    BY DEF Cleaned
  <1>5. ASSUME \A t \in Tasks : table[t] # "pending",
               NEW t \in DueOf(known)
        PROVE  t \in Known(Cleaned(table))
    <2>1. known = {u \in Tasks : table[u] # "none"}
      BY DEF Known
    <2>2. settled = {u \in known : u > horizon}
      BY <1>2, <1>5, <2>1
    <2>3. /\ t \in known /\ t > horizon
          /\ Cardinality({u \in known : u > t}) < MaxRecords
      BY <1>5 DEF DueOf
    <2>4. t \in R!Newest(records, settled, MaxRecords)
      <3> HIDE DEF records, settled, known
      <3>1. known \subseteq Tasks /\ t \in settled
        BY <2>1, <2>2, <2>3
      <3>2. ASSUME NEW u \in known
            PROVE  (u \in settled /\ records[u].stamp > records[t].stamp) <=> u > t
        <4>1. records[u].stamp = u /\ records[t].stamp = t
          BY <1>2, <2>3, <3>1
        <4>2. u \in Nat /\ t \in Nat /\ (u > t => u > horizon)
          BY <1>1, <2>3, <3>1
        <4> QED
          BY <2>2, <4>1, <4>2
      <3>3. {u \in settled : records[u].stamp > records[t].stamp} = {u \in known : u > t}
        BY <2>2, <3>2
      <3>4. R!Cardinality({u \in settled : records[u].stamp > records[t].stamp}) < MaxRecords
        BY <2>3, <3>3, SameCardinality, Zenon
      <3> QED
        BY <3>1, <3>4, Zenon DEF R!Newest
    <2>5. t \in stay /\ t \in Tasks /\ table[t] # "none"
      BY <2>1, <2>3, <2>4
    <2> QED
      BY <1>3, <2>5 DEF Known
  <1> HIDE DEF stay
  <1>6. \A t \in Tasks : Cleaned(table)[t] \in {table[t], "none"}
    BY <1>3
  <1>7. Cleaned(table) \in Tables
    BY <1>4, <1>6 DEF Tables, R!Statuses
  <1> QED
    BY <1>5, <1>6, <1>7

LEMMA SavesTyped ==
    ASSUME NEW s \in Seq(Saves), NEW i \in DOMAIN s
    PROVE  s[i] \in Saves /\ s[i].data \in Tables
  <1>1. s[i] \in Saves
    OBVIOUS
  <1> QED
    BY <1>1 DEF Saves

(* A save that is removed leaves the others.                               *)
LEMMA RemovedSave ==
    ASSUME NEW s \in Seq(Saves), NEW i \in DOMAIN s
    PROVE  /\ RemoveAt(s, i) \in Seq(Saves)
           /\ \A j \in DOMAIN RemoveAt(s, i) :
                 \E k \in DOMAIN s : RemoveAt(s, i)[j] = s[k]
  <1>1. i \in 1..Len(s) /\ Len(s) \in Nat
    OBVIOUS
  <1> DEFINE a == SubSeq(s, 1, i - 1)
             b == SubSeq(s, i + 1, Len(s))
  <1>2. a \in Seq(Saves) /\ Len(a) = i - 1 /\ \A j \in 1..(i - 1) : a[j] = s[j]
    BY <1>1
  <1>3. b \in Seq(Saves) /\ Len(b) = Len(s) - i /\ \A j \in 1..(Len(s) - i) : b[j] = s[i + j]
    BY <1>1
  <1>4. RemoveAt(s, i) = a \o b
    BY DEF RemoveAt
  <1> HIDE DEF a, b
  <1>5. a \o b \in Seq(Saves) /\ Len(a \o b) = Len(s) - 1
    BY <1>1, <1>2, <1>3
  <1>6. ASSUME NEW j \in 1..(Len(s) - 1)
        PROVE  \E k \in DOMAIN s : (a \o b)[j] = s[k]
    <2>1. CASE j <= i - 1
      BY <1>1, <1>2, <1>3, <1>6, <2>1
    <2>2. CASE j > i - 1
      <3>1. (a \o b)[j] = b[j - (i - 1)]
        BY <1>1, <1>2, <1>3, <1>5, <1>6, <2>2, ConcatProperties
      <3>2. b[j - (i - 1)] = s[j + 1] /\ j + 1 \in DOMAIN s
        BY <1>1, <1>3, <1>6, <2>2
      <3> QED
        BY <3>1, <3>2
    <2>3. j <= i - 1 \/ j > i - 1
      BY <1>1, <1>6
    <2> QED
      BY <2>1, <2>2, <2>3, Zenon
  <1>7. DOMAIN (a \o b) = 1..(Len(s) - 1)
    BY <1>5
  <1> QED
    BY <1>4, <1>5, <1>6, <1>7

(* The saves of a change follow those that were under way.                 *)
LEMMA AddedSaves ==
    ASSUME WorkerTypeInv, NEW table \in Tables, NEW times \in {1, 2}, Save(table, times)
    PROVE  /\ saves' \in Seq(Saves) /\ unordered' \in BOOLEAN
           /\ kind = "data-group" /\ ~unordered' =>
                 /\ saves' # <<>>
                 /\ \A j \in DOMAIN saves' : saves'[j].data = table
  <1>1. CASE kind = "memory"
    BY <1>1 DEF Save, WorkerTypeInv
  <1>2. CASE kind # "memory"
    <2> DEFINE new == [i \in 1..times |-> [stage |-> "check", data |-> table]]
    <2>1. saves' = saves \o new /\ saves \in Seq(Saves)
      BY <1>2 DEF Save, WorkerTypeInv
    <2>2. [stage |-> "check", data |-> table] \in Saves
      BY DEF Saves, SaveStages
    <2>3. new \in Seq(Saves) /\ Len(new) = times /\ \A i \in 1..times : new[i].data = table
      BY <2>2
    <2> HIDE DEF new
    <2>4. saves' \in Seq(Saves) /\ Len(saves') = Len(saves) + times
      BY <2>1, <2>3
    <2>5. unordered' = (unordered \/ \E i \in DOMAIN saves : saves[i].data # table)
      BY <1>2 DEF Save
    <2>6. ASSUME ~unordered', NEW j \in DOMAIN saves'
          PROVE  saves'[j].data = table
      <3>1. j \in 1..(Len(saves) + times) /\ Len(saves) \in Nat
        BY <2>1, <2>4, <2>6
      <3>2. CASE j <= Len(saves)
        <4>1. j \in DOMAIN saves /\ saves'[j] = saves[j]
          BY <2>1, <2>3, <3>1, <3>2
        <4> QED
          BY <2>5, <2>6, <4>1
      <3>3. CASE j > Len(saves)
        <4>1. saves'[j] = new[j - Len(saves)] /\ j - Len(saves) \in 1..times
          BY <2>1, <2>3, <3>1, <3>3
        <4> QED
          BY <2>3, <4>1
      <3> QED
        BY <3>1, <3>2, <3>3
    <2>7. saves' # <<>>
      BY <2>1, <2>4
    <2> QED
      BY <2>4, <2>5, <2>6, <2>7 DEF WorkerTypeInv
  <1> QED
    BY <1>1, <1>2
-----------------------------------------------------------------------------
(* Types *)

LEMMA WorkerTypeInit == Init => WorkerTypeInv
  <1> SUFFICES ASSUME Init PROVE WorkerTypeInv
    OBVIOUS
  <1>1. saves \in Seq(Saves)
    BY DEF Init
  <1> QED
    BY <1>1, EmptyTable DEF Init, WorkerTypeInv, Storage

(* One step of a save: it goes on, or ends.                                *)
LEMMA SaveStepTyped ==
    ASSUME WorkerTypeInv, NEW i \in DOMAIN saves, SaveStep(i) \/ SaveFails(i)
    PROVE  /\ saves' \in Seq(Saves)
           /\ \A j \in DOMAIN saves' : \E k \in DOMAIN saves : saves'[j].data = saves[k].data
           /\ group' \in [is : {"missing", "fresh", "saved"}, table : Tables]
           /\ unordered' \in BOOLEAN
           /\ group'.table # group.table => saves # <<>>
           /\ group'.is # "saved" => group.is # "saved" /\ group'.table = group.table
           /\ (saves' = <<>> /\ ~unordered') => group'.table = saves[i].data
  <1>1. saves[i] \in Saves /\ saves[i].data \in Tables
    BY SavesTyped DEF WorkerTypeInv
  <1> saves # <<>>
    OBVIOUS
  <1>2. ASSUME NEW s \in SaveStages, Stage(i, s)
        PROVE  /\ saves' \in Seq(Saves) /\ saves' # <<>>
               /\ \A j \in DOMAIN saves' : saves'[j].data = saves[j].data /\ j \in DOMAIN saves
    <2>1. /\ DOMAIN saves' = DOMAIN saves /\ Len(saves') = Len(saves)
          /\ saves'[i] = [saves[i] EXCEPT !.stage = s]
          /\ \A j \in DOMAIN saves : j # i => saves'[j] = saves[j]
      BY <1>2 DEF Stage, WorkerTypeInv
    <2>2. saves'[i] \in Saves /\ saves'[i].data = saves[i].data
      BY <1>1, <2>1 DEF Saves
    <2>3. saves' \in Seq(Saves)
      BY <1>1, <1>2, <2>2 DEF Stage, WorkerTypeInv, Saves
    <2>4. saves' # <<>>
      <3>1. i \in DOMAIN saves'
        BY <2>1
      <3> QED
        BY <3>1
    <2>5. ASSUME NEW j \in DOMAIN saves'
          PROVE  saves'[j].data = saves[j].data /\ j \in DOMAIN saves
      BY <2>1, <2>2
    <2> QED
      BY <2>3, <2>4, <2>5
  <1>3. ASSUME saves' = RemoveAt(saves, i)
        PROVE  /\ saves' \in Seq(Saves)
               /\ \A j \in DOMAIN saves' : \E k \in DOMAIN saves : saves'[j] = saves[k]
    BY <1>3, RemovedSave DEF WorkerTypeInv
  <1>4. CASE /\ saves[i].stage = "check"
             /\ Stage(i, IF group.is = "missing" THEN "create" ELSE "write")
             /\ UNCHANGED <<group, unordered>>
    BY <1>2, <1>4 DEF SaveStages, WorkerTypeInv
  <1>5. CASE /\ saves[i].stage = "create" /\ group.is = "missing"
             /\ group' = [group EXCEPT !.is = "fresh"]
             /\ Stage(i, "write")
             /\ UNCHANGED unordered
    BY <1>2, <1>5 DEF SaveStages, WorkerTypeInv
  <1>6. CASE saves' = RemoveAt(saves, i) /\ unordered' = TRUE /\ UNCHANGED group
    BY <1>3, <1>6 DEF WorkerTypeInv
  <1>7. CASE /\ saves[i].stage = "write"
             /\ group' = [is |-> "saved", table |-> saves[i].data]
             /\ saves' = RemoveAt(saves, i)
             /\ UNCHANGED unordered
    BY <1>1, <1>3, <1>7 DEF WorkerTypeInv
  <1> QED
    BY <1>4, <1>5, <1>6, <1>7 DEF SaveStep, SaveFails

LEMMA WorkerStepKeepsType == WorkerTypeInv /\ [Next]_vars => WorkerTypeInv'
  <1> SUFFICES ASSUME WorkerTypeInv, [Next]_vars PROVE WorkerTypeInv'
    OBVIOUS
  <1> USE DEF time
  <1>1. CASE Boot
    BY <1>1 DEF Boot, WorkerTypeInv, Known
  <1>2. CASE Pass
    BY <1>2, StepsFollow DEF Pass, WorkerTypeInv
  <1>3. CASE Fail
    BY <1>3 DEF Fail, WorkerTypeInv
  <1>4. CASE Check
    BY <1>4, StepsFollow DEF Check, Checks, WorkerTypeInv
  <1>5. CASE MakeDataStore
    BY <1>5, StepsFollow DEF MakeDataStore, WorkerTypeInv
  <1>6. CASE Restore
    <2>1. saves' \in Seq(Saves) /\ unordered' \in BOOLEAN
      BY <1>6, AddedSaves, EmptyTable DEF Restore, WorkerTypeInv
    <2> QED
      BY <1>6, <2>1, EmptyTable DEF Restore, WorkerTypeInv
  <1>7. CASE CreateEnds
    BY <1>7 DEF CreateEnds, WorkerTypeInv
  <1>8. CASE Cancel
    <2>1. memory' \in Tables
      BY <1>8, RestoredKnows, CleanedKeeps DEF Cancel, WorkerTypeInv
    <2>2. saves' \in Seq(Saves) /\ unordered' \in BOOLEAN
      BY <1>8, <2>1, AddedSaves DEF Cancel
    <2> QED
      BY <1>8, <2>1, <2>2, StepsFollow DEF Cancel, WorkerTypeInv
  <1>9. ASSUME NEW i \in DOMAIN saves, SaveStep(i) \/ SaveFails(i)
        PROVE  WorkerTypeInv'
    BY <1>9, SaveStepTyped DEF SaveStep, SaveFails, WorkerTypeInv
  <1>10. CASE Arrive
    <2>1. memory' \in Tables
      BY <1>10, CleanedKeeps DEF Arrive, WorkerTypeInv
    <2>2. saves' \in Seq(Saves) /\ unordered' \in BOOLEAN
      BY <1>10, <2>1, AddedSaves DEF Arrive
    <2> QED
      BY <1>10, <2>1, <2>2 DEF Arrive, WorkerTypeInv
  <1>11. ASSUME NEW t \in Tasks, Post(t) \/ Patch(t) \/ Refuse(t)
         PROVE  WorkerTypeInv'
    <2>1. memory' \in Tables
      BY <1>11 DEF Post, Patch, Refuse, WorkerTypeInv, Tables, R!Statuses
    <2>2. saves' \in Seq(Saves) /\ unordered' \in BOOLEAN
      BY <1>11, <2>1, AddedSaves DEF Post, Patch, Refuse, WorkerTypeInv
    <2> QED
      BY <1>11, <2>1, <2>2, WorkerAssumption DEF Post, Patch, Refuse, WorkerTypeInv
  <1>12. CASE Configure
    BY <1>12 DEF Configure, WorkerTypeInv
  <1>13. CASE Restart
    <2>1. saves' \in Seq(Saves) /\ memory' \in Tables
      BY <1>13, EmptyTable DEF Restart
    <2>2. group' \in [is : {"missing", "fresh", "saved"}, table : Tables]
      <3>1. CASE UNCHANGED group
        BY <3>1 DEF WorkerTypeInv
      <3>2. ASSUME NEW i \in DOMAIN saves, group' = [is |-> "saved", table |-> saves[i].data]
            PROVE  group' \in [is : {"missing", "fresh", "saved"}, table : Tables]
        <4>1. saves[i].data \in Tables
          BY SavesTyped DEF WorkerTypeInv
        <4> QED
          BY <3>2, <4>1
      <3> QED
        BY <1>13, <3>1, <3>2 DEF Restart
    <2> QED
      BY <1>13, <2>1, <2>2 DEF Restart, WorkerTypeInv
  <1>14. CASE WeekPasses
    BY <1>14, WorkerAssumption DEF WeekPasses, WorkerTypeInv
  <1>15. CASE DeviceTurns \/ UNCHANGED vars
    BY <1>15 DEF DeviceTurns, vars, WorkerTypeInv
  <1> QED
    BY <1>1, <1>2, <1>3, <1>4, <1>5, <1>6, <1>7, <1>8, <1>9, <1>10, <1>11, <1>12, <1>13,
       <1>14, <1>15 DEF Next, Start
-----------------------------------------------------------------------------
(* The invariants of the start *)

(* From the cancellation on, what is pending was posted by this process.   *)
PendingInv == phase \in {"groups", "up"} =>
                 \A t \in Tasks : memory[t] = "pending" => t \in posted

(* Where the records are that the data group had when the process began:   *)
(* in the data group alone until they are read, in the memory then; after  *)
(* the cleaning, those that are due.  No save is under way before they are *)
(* read.                                                                   *)
KeptInv ==
    /\ group.is # "saved" => group.table = Empty
    /\ phase \in {"down", "create"} => found = {}
    /\ phase \in Unread \cup {"down"} => saves = <<>>
    /\ phase \in Unread /\ found # {} => /\ found = Known(group.table)
                                         /\ setting = "data-group"
    /\ phase = "restore" => kind = setting
    /\ phase = "cancel" /\ found # {} => found = Known(memory)
    /\ phase = "groups" => Due \subseteq Known(memory)
    /\ phase = "failed" => \/ Due \subseteq Known(memory)
                           \/ saves = <<>> /\ found \subseteq Known(group.table)

(* What is stored, or what every save under way is about to store, is for  *)
(* a start the same as what the process has.                               *)
StoredInv ==
    (phase \in Reading /\ kind = "data-group" /\ ~unordered) =>
        /\ saves = <<>> => Restored(group.table) = Restored(memory)
        /\ \A i \in DOMAIN saves : Restored(saves[i].data) = Restored(memory)

WorkerInv == WorkerTypeInv /\ PendingInv /\ KeptInv /\ StoredInv

LEMMA WorkerInit == Init => WorkerInv
  BY WorkerTypeInit DEF Init, WorkerInv, PendingInv, KeptInv, StoredInv, Unread, Reading

LEMMA PendingStep == WorkerInv /\ [Next]_vars => PendingInv'
  <1> SUFFICES ASSUME WorkerInv, [Next]_vars PROVE PendingInv'
    OBVIOUS
  <1> USE DEF WorkerInv, PendingInv
  <1>1. CASE Boot \/ Fail \/ MakeDataStore \/ Restore \/ CreateEnds \/ Restart
    BY <1>1, StepsFollow DEF Boot, Fail, MakeDataStore, Restore, CreateEnds, Restart,
                             WorkerTypeInv
  <1>2. CASE Pass
    BY <1>2, StepsFollow DEF Pass
  <1>3. CASE Check
    BY <1>3, StepsFollow DEF Check, Checks
  <1>4. CASE Cancel
    <2>1. memory \in Tables /\ Restored(memory) \in Tables
      BY RestoredKnows DEF WorkerTypeInv
    <2>2. \A t \in Tasks : memory'[t] # "pending"
      BY <1>4, <2>1, RestoredKnows, CleanedKeeps DEF Cancel
    <2> QED
      BY <2>2
  <1>5. ASSUME NEW i \in DOMAIN saves, SaveStep(i) \/ SaveFails(i)
        PROVE  PendingInv'
    BY <1>5 DEF SaveStep, SaveFails
  <1>6. CASE Arrive
    <2>1. \A t \in Tasks : memory'[t] \in {memory[t], "none"}
      BY <1>6, CleanedKeeps DEF Arrive, WorkerTypeInv
    <2> QED
      BY <1>6, <2>1 DEF Arrive
  <1>7. ASSUME NEW t \in Tasks, Post(t) \/ Patch(t) \/ Refuse(t)
        PROVE  PendingInv'
    BY <1>7 DEF Post, Patch, Refuse, WorkerTypeInv, Tables
  <1>8. CASE Configure \/ WeekPasses \/ DeviceTurns \/ UNCHANGED vars
    BY <1>8 DEF Configure, WeekPasses, DeviceTurns, vars
  <1> QED
    BY <1>1, <1>2, <1>3, <1>4, <1>5, <1>6, <1>7, <1>8 DEF Next, Start

LEMMA KeptStep == WorkerInv /\ [Next]_vars => KeptInv'
  <1> SUFFICES ASSUME WorkerInv, [Next]_vars PROVE KeptInv'
    OBVIOUS
  <1> USE DEF WorkerInv, KeptInv, Unread
  <1>0. /\ Due \subseteq found
        /\ UNCHANGED <<found, horizon>> => Due' = Due
    BY DEF Due
  <1>1. CASE Boot
    BY <1>1 DEF Boot
  <1>2. CASE Pass
    BY <1>0, <1>2, StepsFollow DEF Pass, time
  <1>3. CASE Fail
    BY <1>0, <1>3 DEF Fail, time
  <1>4. CASE Check
    BY <1>4, StepsFollow DEF Check, Checks
  <1>5. CASE MakeDataStore
    BY <1>5, StepsFollow DEF MakeDataStore
  <1>6. CASE Restore
    <2>1. found # {} => kind = "data-group" /\ group.is = "saved"
      BY <1>6, EmptyTable DEF Restore
    <2> QED
      BY <1>6, <2>1 DEF Restore
  <1>7. CASE CreateEnds
    BY <1>0, <1>7 DEF CreateEnds
  <1>8. CASE Cancel
    <2>1. memory \in Tables /\ Restored(memory) \in Tables
      BY RestoredKnows DEF WorkerTypeInv
    <2>2. Known(Restored(memory)) = Known(memory)
      BY <2>1, RestoredKnows
    <2>3. \A t \in Tasks : Restored(memory)[t] # "pending"
      BY <2>1, RestoredKnows
    <2>4. DueOf(Known(memory)) \subseteq Known(memory')
      BY <1>8, <2>1, <2>2, <2>3, CleanedKeeps DEF Cancel
    <2>5. Due = DueOf(found)
      BY DEF Due, DueOf
    <2>6. Due \subseteq Known(memory')
      BY <1>0, <1>8, <2>4, <2>5 DEF Cancel
    <2>7. phase' = "groups" /\ Due' = Due
      BY <1>0, <1>8, StepsFollow DEF Cancel, time
    <2> QED
      BY <1>8, <2>6, <2>7 DEF Cancel
  <1>9. ASSUME NEW i \in DOMAIN saves, SaveStep(i) \/ SaveFails(i)
        PROVE  KeptInv'
    <2>1. saves # <<>>
      BY <1>9
    <2>2. group'.is # "saved" => group.is # "saved" /\ group'.table = group.table
      BY <1>9, SaveStepTyped
    <2>3. UNCHANGED <<phase, memory, kind, setting, found, horizon>>
      BY <1>9 DEF SaveStep, SaveFails, time
    <2> QED
      BY <1>0, <2>1, <2>2, <2>3
  <1>10. CASE Arrive
    BY <1>10 DEF Arrive
  <1>11. ASSUME NEW t \in Tasks, Post(t) \/ Patch(t) \/ Refuse(t)
         PROVE  KeptInv'
    BY <1>11 DEF Post, Patch, Refuse
  <1>12. CASE Configure
    BY <1>12 DEF Configure
  <1>13. CASE Restart
    BY <1>13 DEF Restart
  <1>14. CASE WeekPasses
    <2>1. Due' \subseteq Due
      <3>1. horizon \in Nat /\ horizon' \in Nat /\ horizon < horizon' /\ found' = found
        BY <1>14, WorkerAssumption DEF WeekPasses, WorkerTypeInv
      <3>2. found \subseteq Nat
        BY WorkerAssumption DEF WorkerTypeInv
      <3>3. ASSUME NEW t \in found, t > horizon'
            PROVE  t > horizon
        BY <3>1, <3>2, <3>3
      <3>4. Due' = {t \in found : /\ t > horizon'
                                  /\ Cardinality({u \in found : u > t}) < MaxRecords}
        BY <3>1, Zenon DEF Due
      <3> QED
        BY <3>3, <3>4, Zenon DEF Due
    <2> QED
      BY <1>14, <2>1 DEF WeekPasses
  <1>15. CASE DeviceTurns \/ UNCHANGED vars
    BY <1>0, <1>15 DEF DeviceTurns, vars, time
  <1> QED
    BY <1>1, <1>2, <1>3, <1>4, <1>5, <1>6, <1>7, <1>8, <1>9, <1>10, <1>11, <1>12, <1>13,
       <1>14, <1>15 DEF Next, Start

LEMMA StoredStep == WorkerInv /\ [Next]_vars => StoredInv'
  <1> SUFFICES ASSUME WorkerInv, [Next]_vars PROVE StoredInv'
    OBVIOUS
  <1> USE DEF WorkerInv, StoredInv, Reading
  <1>1. ASSUME Save(memory', 1) \/ Save(memory', 2), memory' \in Tables, UNCHANGED kind
        PROVE  StoredInv'
    BY <1>1, AddedSaves
  <1>2. CASE Boot \/ Fail \/ MakeDataStore \/ Restart
    BY <1>2, StepsFollow DEF Boot, Fail, MakeDataStore, Restart
  <1>3. CASE Pass
    BY <1>3, StepsFollow DEF Pass
  <1>4. CASE Check
    BY <1>4, StepsFollow DEF Check, Checks
  <1>5. CASE Restore
    <2>1. CASE kind = "data-group" /\ group.is = "saved"
      <3>1. saves = <<>>
        BY <1>5 DEF Restore, KeptInv, Unread
      <3> QED
        BY <1>5, <2>1, <3>1 DEF Restore
    <2>2. CASE ~(kind = "data-group" /\ group.is = "saved")
      BY <1>1, <1>5, <2>2, EmptyTable DEF Restore
    <2> QED
      BY <2>1, <2>2
  <1>6. CASE CreateEnds
    BY <1>6 DEF CreateEnds
  <1>7. CASE Cancel
    <2>1. memory' \in Tables
      BY <1>7, WorkerStepKeepsType DEF WorkerTypeInv
    <2> QED
      BY <1>1, <1>7, <2>1 DEF Cancel
  <1>8. ASSUME NEW i \in DOMAIN saves, SaveStep(i) \/ SaveFails(i)
        PROVE  StoredInv'
    <2>1. UNCHANGED <<phase, memory, kind>> /\ (unordered => unordered')
      BY <1>8 DEF SaveStep, SaveFails
    <2>2. /\ \A j \in DOMAIN saves' : \E k \in DOMAIN saves : saves'[j].data = saves[k].data
          /\ (saves' = <<>> /\ ~unordered') => group'.table = saves[i].data
      BY <1>8, SaveStepTyped
    <2> QED
      BY <2>1, <2>2
  <1>9. CASE Arrive
    <2>1. memory' \in Tables
      BY <1>9, WorkerStepKeepsType DEF WorkerTypeInv
    <2> QED
      BY <1>1, <1>9, <2>1 DEF Arrive
  <1>10. ASSUME NEW t \in Tasks, Post(t) \/ Patch(t)
         PROVE  StoredInv'
    <2>1. memory' \in Tables
      BY WorkerStepKeepsType DEF WorkerTypeInv
    <2> QED
      BY <1>1, <1>10, <2>1 DEF Post, Patch
  <1>11. ASSUME NEW t \in Tasks, Refuse(t)
         PROVE  StoredInv'
    <2>1. Restored(memory') = Restored(memory)
      BY <1>11 DEF Refuse, Restored, WorkerTypeInv, Tables
    <2> QED
      BY <1>11, <2>1 DEF Refuse
  <1>12. CASE Configure
    BY <1>12 DEF Configure
  <1>13. CASE WeekPasses \/ DeviceTurns \/ UNCHANGED vars
    BY <1>13 DEF WeekPasses, DeviceTurns, vars
  <1> QED
    BY <1>2, <1>3, <1>4, <1>5, <1>6, <1>7, <1>8, <1>9, <1>10, <1>11, <1>12, <1>13
    DEF Next, Start

LEMMA WorkerInvariant == Spec => []WorkerInv
  <1>1. WorkerInv /\ [Next]_vars => WorkerInv'
    BY WorkerStepKeepsType, PendingStep, KeptStep, StoredStep DEF WorkerInv
  <1> QED
    BY <1>1, WorkerInit, PTL DEF Spec

(* asyncHandler.js: updatePending at the start.  After any restarts, and   *)
(* whatever was lost with them, no task is in progress that this process   *)
(* does not work on.                                                       *)
THEOREM NobodyPollsAGhost == Spec => []PendingIsOurs
  <1>1. WorkerInv => PendingIsOurs
    BY DEF WorkerInv, PendingInv, PendingIsOurs
  <1> QED
    BY <1>1, WorkerInvariant, PTL

(* asyncHandler.js: restoreState and cleanRecords.  A start, failed or not, *)
(* loses none of the tasks that the data group had and that are due: the    *)
(* newest ones that have not expired.                                       *)
THEOREM StartsKeepWhatIsDue == Spec => []KnownTasksAreKept
  <1>1. WorkerInv => KnownTasksAreKept
    <2>1. Due \subseteq found
      BY DEF Due
    <2> QED
      BY <2>1 DEF WorkerInv, WorkerTypeInv, KeptInv, KnownTasksAreKept, Unread
  <1> QED
    BY <1>1, WorkerInvariant, PTL

(* asyncHandler.js: saveState.  When the saves have ended, none of them    *)
(* failed and no two differed that were under way together, a start would  *)
(* find the records of this process.                                       *)
THEOREM LastSaveTellsAll == Spec => []SettledAloneIsStored
  <1>1. WorkerInv => SettledAloneIsStored
    BY DEF WorkerInv, StoredInv, SettledAloneIsStored, Settled, Reading
  <1> QED
    BY <1>1, WorkerInvariant, PTL
=============================================================================
