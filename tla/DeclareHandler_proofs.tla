----------------------- MODULE DeclareHandler_proofs -----------------------
(***************************************************************************)
(* What holds of DeclareHandler for every set of requests, every limit of  *)
(* the queue and all forms of requests: the queue and the places of the    *)
(* requests agree, requests that belong in the queue are processed one at  *)
(* a time, the whole handler implements BurstQueue and SerialService; how  *)
(* often the clients are answered, and what the records of their tasks say.*)
(***************************************************************************)
EXTENDS DeclareHandler, BurstQueue_proofs

(* QueueMatchesPlaces is not inductive by itself: that whoever is taken    *)
(* from the queue belongs in it must be known while it is still queued.    *)
PlacesInv ==
    /\ place \in [Requests -> Places]
    /\ form \in [Requests -> Forms]
    /\ sawBurst \in [Requests -> BOOLEAN]
    /\ settings \in Stored
    /\ QueueMatchesPlaces
    /\ \A r \in Requests : place[r] = "queued" => Queues(r)

HandlerInv == QueueInv /\ PlacesInv

-----------------------------------------------------------------------------

LEMMA HandlerInvInit == Init => HandlerInv
  <1> SUFFICES ASSUME Init PROVE HandlerInv
    OBVIOUS
  <1>1. QueueInv
    BY QueueInvInit DEF Init
  <1>2. PlacesInv
    BY QueueAssumption
    DEF Init, QueueInit, PlacesInv, Places, QueueMatchesPlaces, Queued, Processing
  <1> QED
    BY <1>1, <1>2 DEF HandlerInv

(* The consumer's item is a request whose place says so. *)
LEMMA InHandIsProcessed ==
    ASSUME HandlerInv, NEW r \in Requests, inHand = r
    PROVE  place[r] \in {"running", "handler", "done", "failed"}
  BY QueueAssumption DEF HandlerInv, PlacesInv, QueueMatchesPlaces, Processing

(* A request that has not come to the queue is neither in it nor in hand. *)
LEMMA NotYetQueued ==
    ASSUME HandlerInv, NEW r \in Requests,
           place[r] \in {"new", "settings", "controls"}
    PROVE  r \notin Queued \cup {inHand}
  BY InHandIsProcessed DEF HandlerInv, PlacesInv, QueueMatchesPlaces

(* A step of a request that leaves the queue alone. *)
LEMMA MoveKeepsHandlerInv ==
    ASSUME HandlerInv, NEW r \in Requests, NEW to \in Places \ {"queued"},
           UNCHANGED <<qvars, form, settings>>,
           place' = [place EXCEPT ![r] = to],
           place[r] # "queued",
           sawBurst' \in [Requests -> BOOLEAN],
           \A s \in Requests \ {r} : sawBurst'[s] = sawBurst[s],
           inHand = r => /\ sawBurst'[r] = sawBurst[r]
                         /\ to \in {"running", "handler", "done", "failed"},
           to \in {"running", "handler"} /\ Queues(r)' => inHand = r
    PROVE  HandlerInv'
  <1>1. QueueInv'
    BY DEF HandlerInv, QueueInv, QueueTypeOK, NoLostWakeup, OnePlace, Queued, qvars
  <1>2. /\ entries' = entries /\ inHand' = inHand /\ Queued' = Queued
        /\ place'[r] = to
        /\ \A s \in Requests : s # r => place'[s] = place[s]
        /\ \A s \in Requests : s # r => (Queues(s)' <=> Queues(s))
    BY DEF qvars, Queued, Queues, HandlerInv, PlacesInv
  <1>3. /\ place' \in [Requests -> Places] /\ form' \in [Requests -> Forms]
        /\ settings' \in Stored
    BY DEF HandlerInv, PlacesInv
  <1>4. \A s \in Requests : place'[s] = "queued" <=> s \in Queued'
    BY <1>2 DEF HandlerInv, PlacesInv, QueueMatchesPlaces
  <1>5. \A s \in Requests : Queues(s)' /\ Processing(s)' => inHand' = s
    BY <1>2 DEF HandlerInv, PlacesInv, QueueMatchesPlaces, Processing
  <1>6. inHand' # None => /\ Queues(inHand)'
                          /\ \/ Processing(inHand)'
                             \/ place'[inHand'] \in {"done", "failed"}
    <2> SUFFICES ASSUME inHand # None
                 PROVE  /\ Queues(inHand)'
                        /\ \/ Processing(inHand)'
                           \/ place'[inHand] \in {"done", "failed"}
      BY <1>2
    <2>1. inHand \in Requests
      BY DEF HandlerInv, QueueInv, QueueTypeOK
    <2>2. CASE inHand = r
      BY <1>2, <2>2 DEF Queues, Processing, HandlerInv, PlacesInv, QueueMatchesPlaces
    <2>3. CASE inHand # r
      BY <1>2, <2>1, <2>3 DEF Processing, HandlerInv, PlacesInv, QueueMatchesPlaces, Queues
    <2> QED
      BY <2>2, <2>3
  <1>7. \A s \in Requests : place'[s] = "queued" => Queues(s)'
    BY <1>2 DEF HandlerInv, PlacesInv
  <1>8. QueueMatchesPlaces'
    BY <1>4, <1>5, <1>6 DEF QueueMatchesPlaces
  <1> QED
    BY <1>1, <1>3, <1>7, <1>8 DEF HandlerInv, PlacesInv

(* A step that touches neither the queue nor the places. *)
LEMMA AsideKeepsHandlerInv ==
    ASSUME HandlerInv, UNCHANGED <<qvars, place, form, sawBurst>>,
           settings' \in Stored
    PROVE  HandlerInv'
  BY DEF HandlerInv, PlacesInv, QueueMatchesPlaces, Queues, Processing, QueueInv,
         QueueTypeOK, NoLostWakeup, OnePlace, Queued, qvars

(* The steps before the queue. *)
LEMMA BeforeQueueKeepsHandlerInv ==
    ASSUME HandlerInv, NEW r \in Requests,
           Arrive(r) \/ ReadSettings(r) \/ PreparationFails(r)
                     \/ StartNow(r) \/ TurnAway(r)
    PROVE  HandlerInv'
  <1>1. ASSUME place[r] \in {"new", "settings", "controls"} PROVE inHand # r
    BY <1>1, NotYetQueued
  <1>2. CASE Arrive(r)
    BY <1>1, <1>2, MoveKeepsHandlerInv
    DEF Arrive, Places, HandlerInv, PlacesInv, rvars
  <1>3. CASE ReadSettings(r)
    <2>1. settings.burst \in BOOLEAN
      BY DeclareAssumption DEF HandlerInv, PlacesInv
    <2> QED
      BY <1>1, <1>3, <2>1, MoveKeepsHandlerInv
      DEF ReadSettings, Places, HandlerInv, PlacesInv, rvars
  <1>4. CASE PreparationFails(r)
    BY <1>1, <1>4, MoveKeepsHandlerInv
    DEF PreparationFails, Places, HandlerInv, PlacesInv, rvars
  <1>5. CASE StartNow(r)
    <2>1. /\ place[r] = "controls"
          /\ UNCHANGED <<qvars, form, settings, sawBurst>>
          /\ ~ Queues(r)
          /\ place' = [place EXCEPT ![r] = "running"]
      BY <1>5 DEF StartNow, Prepare
    <2>2. ~ Queues(r)'
      BY <2>1 DEF Queues
    <2> QED
      BY <1>1, <2>1, <2>2, MoveKeepsHandlerInv DEF Places, HandlerInv, PlacesInv
  <1>6. CASE TurnAway(r)
    <2>1. /\ place[r] = "controls"
          /\ UNCHANGED <<qvars, form, settings, sawBurst>>
          /\ place' = [place EXCEPT ![r] = "refused"]
      BY <1>6 DEF TurnAway, Prepare, Refuse
    <2> QED
      BY <1>1, <2>1, MoveKeepsHandlerInv DEF Places, HandlerInv, PlacesInv
  <1> QED
    BY <1>2, <1>3, <1>4, <1>5, <1>6

(* The steps of processRequest: the place changes to one that is neither   *)
(* in the queue nor before it.                                             *)
LEMMA ProcessingKeepsHandlerInv ==
    ASSUME HandlerInv, NEW r \in Requests,
           BeginTask(r) \/ EndTask(r) \/ ProcessingFails(r) \/ Finish(r)
    PROVE  HandlerInv'
  <1>1. PICK to \in {"running", "handler", "done", "failed"} :
            place' = [place EXCEPT ![r] = to]
    BY DEF BeginTask, EndTask, ProcessingFails, Finish
  <1>2. Processing(r) /\ UNCHANGED <<qvars, form, settings, sawBurst>>
    BY DEF BeginTask, EndTask, ProcessingFails, Finish, Processing
  <1>3. Queues(r)' => inHand = r
    BY <1>2 DEF Queues, HandlerInv, PlacesInv, QueueMatchesPlaces
  <1> QED
    BY <1>1, <1>2, <1>3, MoveKeepsHandlerInv
    DEF Processing, Places, HandlerInv, PlacesInv

(* Queueing: the queue's own lemma says what becomes of the queue. *)
LEMMA QueueUpKeepsHandlerInv ==
    ASSUME HandlerInv, NEW r \in Requests, QueueUp(r)
    PROVE  HandlerInv'
  <1> USE QueueAssumption
  <1>1. /\ place[r] = "controls" /\ Queues(r) /\ Enqueue(r)
        /\ UNCHANGED <<form, settings, sawBurst>>
        /\ place' = [place EXCEPT ![r] =
                        IF consumer = "waiting" THEN "running" ELSE "queued"]
    BY DEF QueueUp, Prepare
  <1>2. r \notin Queued \cup {inHand}
    BY <1>1, NotYetQueued
  <1>3. QueueInv'
    BY <1>1, <1>2, EnqueueKeepsQueueInv DEF HandlerInv
  <1>4. \A s \in Requests : Queues(s)' <=> Queues(s)
    BY <1>1 DEF Queues
  <1>5. /\ place' \in [Requests -> Places]
        /\ \A s \in Requests : s # r => place'[s] = place[s]
    BY <1>1 DEF HandlerInv, PlacesInv, Places
  <1>6. CASE EnqueueToWaiting(r)
    <2>1. consumer = "waiting" /\ entries = <<>> /\ inHand = None
      BY <1>6 DEF EnqueueToWaiting, HandlerInv, QueueInv, NoLostWakeup
    <2>2. inHand' = r /\ entries' = <<>>
      BY <1>6, <2>1, HandedOver DEF EnqueueToWaiting
    <2>3. Queued = {} /\ Queued' = {} /\ place'[r] = "running"
      BY <1>1, <2>1, <2>2 DEF Queued, HandlerInv, PlacesInv
    <2>4. QueueMatchesPlaces'
      BY <1>1, <1>4, <1>5, <2>1, <2>2, <2>3
      DEF QueueMatchesPlaces, Processing, HandlerInv, PlacesInv
    <2> QED
      BY <1>1, <1>3, <1>4, <1>5, <2>3, <2>4 DEF HandlerInv, PlacesInv
  <1>7. CASE EnqueueBehind(r)
    <2>1. inHand' = inHand /\ place'[r] = "queued" /\ entries' = Append(entries, r)
      BY <1>1, <1>7 DEF EnqueueBehind, HandlerInv, PlacesInv
    <2>2. Queued' = Queued \cup {r}
      <3>1. entries \in Seq(Requests) /\ Len(entries) \in Nat
        BY DEF HandlerInv, QueueInv, QueueTypeOK
      <3> QED
        BY <2>1, <3>1, AppendedEntry DEF Queued
    <2>3. \A s \in Requests : place'[s] = "queued" <=> s \in Queued'
      BY <1>5, <2>1, <2>2 DEF HandlerInv, PlacesInv, QueueMatchesPlaces
    <2>4. \A s \in Requests : Queues(s)' /\ Processing(s)' => inHand' = s
      BY <1>4, <1>5, <2>1 DEF HandlerInv, PlacesInv, QueueMatchesPlaces, Processing
    <2>5. inHand # None => /\ Queues(inHand)'
                           /\ \/ Processing(inHand)'
                              \/ place'[inHand] \in {"done", "failed"}
      <3> SUFFICES ASSUME inHand # None
                   PROVE  /\ Queues(inHand)'
                          /\ \/ Processing(inHand)'
                             \/ place'[inHand] \in {"done", "failed"}
        OBVIOUS
      <3>1. inHand \in Requests /\ inHand # r
        BY <1>2 DEF HandlerInv, QueueInv, QueueTypeOK
      <3>2. Queues(inHand)' /\ place'[inHand] = place[inHand] /\ inHand' = inHand
        BY <1>1, <1>5, <2>1, <3>1 DEF HandlerInv, PlacesInv, QueueMatchesPlaces, Queues
      <3> QED
        BY <3>2 DEF HandlerInv, PlacesInv, QueueMatchesPlaces, Processing
    <2>6. QueueMatchesPlaces'
      BY <2>1, <2>3, <2>4, <2>5 DEF QueueMatchesPlaces
    <2> QED
      BY <1>1, <1>3, <1>4, <1>5, <2>6 DEF HandlerInv, PlacesInv
  <1> QED
    BY <1>1, <1>6, <1>7 DEF Enqueue

(* The steps of the consumer. *)
LEMMA ConsumerKeepsHandlerInv ==
    ASSUME HandlerInv, ConsumerStep
    PROVE  HandlerInv'
  <1> USE QueueAssumption
  <1>1. CASE ConsumerTakes
    <2> DEFINE r == Head(entries)
    <2>1. /\ entries \in Seq(Requests) /\ entries # <<>> /\ inHand = None
          /\ inHand' = r /\ entries' = Tail(entries)
          /\ place' = [place EXCEPT ![r] = "running"]
          /\ UNCHANGED <<form, sawBurst, settings>>
      BY <1>1 DEF ConsumerTakes, TakeNext, HandlerInv, QueueInv, QueueTypeOK,
                  NoLostWakeup
    <2>2. r \in Requests /\ Queued = Queued' \cup {r} /\ r \notin Queued'
      <3>1. /\ r \in Requests /\ r = entries[1]
            /\ Len(entries) \in Nat \ {0}
            /\ DOMAIN entries = 1..Len(entries)
            /\ DOMAIN entries' = 1..(Len(entries) - 1)
            /\ \A k \in DOMAIN entries' : entries'[k] = entries[k + 1]
        BY <2>1, ShiftedEntry
      <3>2. r \notin Queued'
        <4>1. QueueInv'
          BY <1>1, TakeNextKeepsQueueInv DEF ConsumerTakes, HandlerInv
        <4> QED
          BY <2>1, <4>1 DEF QueueInv, OnePlace
      <3>3. ASSUME NEW k \in DOMAIN entries, k # 1
            PROVE  k - 1 \in DOMAIN entries' /\ entries'[k - 1] = entries[k]
        BY <3>1, <3>3
      <3>4. ASSUME NEW k \in DOMAIN entries'
            PROVE  k + 1 \in DOMAIN entries /\ entries'[k] = entries[k + 1]
        BY <3>1
      <3>5. Queued \subseteq Queued' \cup {r}
        BY <3>1, <3>3 DEF Queued
      <3>6. Queued' \cup {r} \subseteq Queued
        BY <3>1, <3>4 DEF Queued
      <3> QED
        BY <3>1, <3>2, <3>5, <3>6
    <2> HIDE DEF r
    <2>3. QueueInv'
      BY <1>1, TakeNextKeepsQueueInv DEF ConsumerTakes, HandlerInv
    <2>4. /\ place' \in [Requests -> Places]
          /\ place'[r] = "running" /\ place[r] = "queued" /\ Queues(r)
          /\ \A s \in Requests : s # r => place'[s] = place[s]
          /\ \A s \in Requests : Queues(s)' <=> Queues(s)
      BY <2>1, <2>2 DEF HandlerInv, PlacesInv, QueueMatchesPlaces, Places, Queues
    <2>5. \A s \in Requests : place'[s] = "queued" <=> s \in Queued'
      BY <2>2, <2>4 DEF HandlerInv, PlacesInv, QueueMatchesPlaces
    <2>6. \A s \in Requests : Queues(s)' /\ Processing(s)' => inHand' = s
      BY <2>1, <2>2, <2>4 DEF HandlerInv, PlacesInv, QueueMatchesPlaces, Processing
    <2>7. Queues(inHand)' /\ Processing(inHand)'
      BY <2>1, <2>2, <2>4 DEF Processing, Queues
    <2>8. QueueMatchesPlaces'
      BY <2>5, <2>6, <2>7 DEF QueueMatchesPlaces, Queues, Processing
    <2> QED
      BY <2>1, <2>3, <2>4, <2>8 DEF HandlerInv, PlacesInv
  <1>2. CASE ConsumerWaits
    <2>1. QueueInv'
      BY <1>2, QueueStepKeepsQueueInv DEF ConsumerWaits, QueueNext, HandlerInv
    <2> QED
      BY <1>2, <2>1 DEF ConsumerWaits, WaitForEntry, rvars, HandlerInv, PlacesInv,
                        QueueMatchesPlaces, Queues, Processing, Queued
  <1>3. CASE ConsumerReturns
    <2>1. QueueInv'
      BY <1>3, QueueStepKeepsQueueInv DEF ConsumerReturns, QueueNext, HandlerInv
    <2>2. inHand' = None /\ entries' = entries /\ UNCHANGED <<rvars, settings>>
      BY <1>3 DEF ConsumerReturns, CallbackSettles
    <2>3. inHand \in Requests /\ ~ Processing(inHand)
      BY <1>3 DEF ConsumerReturns, CallbackSettles, Processing, HandlerInv, QueueInv,
                  QueueTypeOK, NoLostWakeup
    <2> QED
      BY <2>1, <2>2, <2>3 DEF rvars, HandlerInv, PlacesInv, QueueMatchesPlaces,
                              Queues, Processing, Queued
  <1> QED
    BY <1>1, <1>2, <1>3 DEF ConsumerStep

LEMMA HandlerStepKeepsInv ==
    ASSUME HandlerInv, [Next]_vars
    PROVE  HandlerInv'
  <1>1. ASSUME NEW r \in Requests, SkipTask(r) \/ TimerFires(r)
        PROVE  HandlerInv'
    BY <1>1, AsideKeepsHandlerInv DEF SkipTask, TimerFires, HandlerInv, PlacesInv
  <1>2. ASSUME NEW new \in Stored, SettingsPosted(new)
        PROVE  HandlerInv'
    BY <1>2, AsideKeepsHandlerInv DEF SettingsPosted, rvars
  <1>3. CASE WeekPasses
    BY <1>3, AsideKeepsHandlerInv DEF WeekPasses, rvars, HandlerInv, PlacesInv
  <1>4. CASE UNCHANGED vars
    BY <1>4, AsideKeepsHandlerInv DEF vars, qvars, HandlerInv, PlacesInv
  <1>5. ASSUME NEW r \in Requests, Arrive(r) \/ RequestStep(r)
        PROVE  HandlerInv'
    BY <1>1, <1>5, BeforeQueueKeepsHandlerInv, ProcessingKeepsHandlerInv,
       QueueUpKeepsHandlerInv DEF RequestStep
  <1> QED
    BY <1>2, <1>3, <1>4, <1>5, ConsumerKeepsHandlerInv DEF Next

THEOREM HandlerInvariant == Spec => []HandlerInv
  <1>1. HandlerInv /\ [Next]_vars => HandlerInv'
    BY HandlerStepKeepsInv
  <1> QED
    BY <1>1, HandlerInvInit, PTL DEF Spec

-----------------------------------------------------------------------------

(* Type correctness needs that a request never runs past its declarations. *)
HandlerTypeInv ==
    /\ TypeOK
    /\ \A r \in Requests :
          /\ nextTask[r] <= Length(r) + 1
          /\ place[r] = "handler" => nextTask[r] <= Length(r)

LEMMA LengthBounded ==
    ASSUME NEW f \in Forms
    PROVE  Len(f.actions) \in 1..MaxTasks
  <1>1. f \in AllForms
    BY DeclareAssumption
  <1>2. PICK n \in 1..MaxTasks : f.actions \in [1..n -> {"retrieve", "deploy", "patch"}]
    BY <1>1 DEF AllForms
  <1>3. n \in Nat /\ f.actions \in Seq({"retrieve", "deploy", "patch"})
    BY <1>2, DeclareAssumption
  <1>4. Len(f.actions) = n
    BY <1>2, <1>3
  <1> QED
    BY <1>4

(* The operators on the table of records return tables. *)
LEMMA CleanedTable ==
    ASSUME NEW table \in R!TaskTables, NEW h
    PROVE  R!CleanRecords(table, h) \in R!TaskTables
  BY DEF R!CleanRecords, R!TaskTables, R!Absent, R!Statuses

LEMMA PostedTable ==
    ASSUME NEW table \in R!TaskTables, NEW names, NEW stamp \in [Tasks -> Nat]
    PROVE  R!PostRecords(table, names, stamp) \in R!TaskTables
  BY DEF R!PostRecords, R!TaskTables, R!Statuses

LEMMA PatchedTable ==
    ASSUME NEW table \in R!TaskTables, NEW names
    PROVE  R!PatchRecords(table, names) \in R!TaskTables
  BY DEF R!PatchRecords, R!TaskTables, R!Statuses

LEMMA CancelledTable ==
    ASSUME NEW table \in R!TaskTables, NEW name \in Tasks
    PROVE  R!CancelRecord(table, name) \in R!TaskTables
  BY DEF R!CancelRecord, R!TaskTables, R!Statuses

LEMMA AnswerTyped ==
    ASSUME answers \in [Requests -> Seq(Answers)], NEW r \in Requests,
           NEW a \in Answers, Answer(r, a)
    PROVE  answers' \in [Requests -> Seq(Answers)]
  <1>1. Append(answers[r], a) \in Seq(Answers)
    OBVIOUS
  <1> QED
    BY <1>1 DEF Answer

LEMMA HandlerTypeInit == Init => HandlerTypeInv
  <1> SUFFICES ASSUME Init PROVE HandlerTypeInv
    OBVIOUS
  <1>1. QueueTypeOK
    BY QueueInvInit DEF Init, QueueInv
  <1>2. records \in R!TaskTables
    BY DEF Init, R!NoRecords, R!TaskTables, R!Absent, R!Statuses
  <1>3. \A r \in Requests : Length(r) \in 1..MaxTasks
    BY LengthBounded DEF Init, Length
  <1>4. TypeOK
    BY <1>1, <1>2, DeclareAssumption DEF Init, TypeOK, Places
  <1>5. \A r \in Requests : nextTask[r] = 1 /\ place[r] = "new"
    BY DEF Init
  <1> QED
    BY <1>3, <1>4, <1>5, DeclareAssumption DEF HandlerTypeInv

(* Preparing a request: the records and the answer it gets. *)
LEMMA PreparedTyped ==
    ASSUME TypeOK, NEW r \in Requests, NEW install \in BOOLEAN, Prepare(r, install)
    PROVE  /\ goesAsync' \in [Requests -> BOOLEAN]
           /\ created' \in Nat
           /\ Posted(r) \in R!TaskTables
           /\ Promise202(r, install) => answers' \in [Requests -> Seq(Answers)]
           /\ SetTimer(r, install) => timer' \in [Requests -> BOOLEAN]
           /\ <<r, 1>> \in Tasks
  <1>1. Length(r) \in 1..MaxTasks
    BY LengthBounded DEF TypeOK, Length
  <1>2. [t \in Tasks |-> created + t[2]] \in [Tasks -> Nat]
    BY DeclareAssumption DEF Tasks, TypeOK
  <1>3. Posted(r) \in R!TaskTables
    BY <1>2, PostedTable DEF Posted, TypeOK
  <1>4. Promise202(r, install) => answers' \in [Requests -> Seq(Answers)]
    BY AnswerTyped DEF Promise202, TypeOK, Answers
  <1>5. created' \in Nat
    BY <1>1, DeclareAssumption DEF Prepare, TypeOK
  <1>6. GoesAsync(r, install) \in BOOLEAN
    BY DEF GoesAsync
  <1>7. goesAsync' \in [Requests -> BOOLEAN]
    BY <1>6 DEF Prepare, TypeOK
  <1>8. SetTimer(r, install) => timer' \in [Requests -> BOOLEAN]
    BY <1>6 DEF SetTimer, TypeOK
  <1>9. <<r, 1>> \in Tasks
    BY DeclareAssumption DEF Tasks
  <1> QED
    BY <1>3, <1>4, <1>5, <1>7, <1>8, <1>9

LEMMA HandlerStepKeepsType ==
    ASSUME HandlerTypeInv, HandlerInv, [Next]_vars
    PROVE  HandlerTypeInv'
  <1> USE DEF HandlerTypeInv
  <1>0. QueueTypeOK'
    BY HandlerStepKeepsInv DEF HandlerInv, QueueInv
  <1>1. \A r \in Requests : Length(r) \in 1..MaxTasks
    BY LengthBounded DEF Length, TypeOK
  <1>2. \A r \in Requests : Length(r) \in Nat /\ nextTask[r] \in Nat /\ Length(r) <= MaxTasks
    BY <1>1, DeclareAssumption DEF TypeOK
  <1>3. form' = form /\ \A r \in Requests : Length(r)' = Length(r)
    <2>1. form' = form
      BY DEF Next, RequestStep, ConsumerStep, Arrive, ReadSettings, PreparationFails,
             StartNow, QueueUp, TurnAway, Prepare, BeginTask, SkipTask, EndTask,
             ProcessingFails, Finish, TimerFires, ConsumerTakes, ConsumerWaits,
             ConsumerReturns, SettingsPosted, WeekPasses, vars, rvars
    <2> QED
      BY <2>1 DEF Length
  <1>4. ASSUME NEW r \in Requests, Arrive(r)
        PROVE  HandlerTypeInv'
    <2>1. records' \in R!TaskTables
      BY <1>4, CleanedTable DEF Arrive, TypeOK
    <2>2. answers' \in [Requests -> Seq(Answers)]
      BY <1>4, AnswerTyped DEF Arrive, TypeOK, Answers
    <2> QED
      BY <1>0, <1>3, <1>4, <2>1, <2>2 DEF Arrive, TypeOK, Places
  <1>5. ASSUME NEW r \in Requests, ReadSettings(r)
        PROVE  HandlerTypeInv'
    <2>1. answers' \in [Requests -> Seq(Answers)]
      BY <1>5, AnswerTyped DEF ReadSettings, TypeOK, Answers
    <2>2. settings.burst \in BOOLEAN
      BY DeclareAssumption DEF TypeOK
    <2> QED
      BY <1>0, <1>3, <1>5, <2>1, <2>2 DEF ReadSettings, TypeOK, Places, tvars
  <1>6. ASSUME NEW r \in Requests, PreparationFails(r)
        PROVE  HandlerTypeInv'
    <2>1. answers' \in [Requests -> Seq(Answers)]
      BY <1>6, AnswerTyped DEF PreparationFails, TypeOK, Answers
    <2> QED
      BY <1>0, <1>3, <1>6, <2>1 DEF PreparationFails, TypeOK, Places, tvars
  <1>7. ASSUME NEW r \in Requests, StartNow(r) \/ QueueUp(r)
        PROVE  HandlerTypeInv'
    <2>1. PICK install \in BOOLEAN :
              /\ Prepare(r, install)
              /\ Promise202(r, install) /\ SetTimer(r, install)
              /\ records' = Posted(r)
              /\ \E to \in {"running", "queued"} : place' = [place EXCEPT ![r] = to]
      BY <1>7 DEF StartNow, QueueUp
    <2>2. /\ goesAsync' \in [Requests -> BOOLEAN] /\ created' \in Nat
          /\ records' \in R!TaskTables
          /\ answers' \in [Requests -> Seq(Answers)]
          /\ timer' \in [Requests -> BOOLEAN]
      BY <2>1, PreparedTyped
    <2> QED
      BY <1>0, <1>3, <2>1, <2>2 DEF Prepare, TypeOK, Places
  <1>8. ASSUME NEW r \in Requests, TurnAway(r)
        PROVE  HandlerTypeInv'
    <2>1. PICK install \in BOOLEAN :
              /\ Prepare(r, install)
              /\ answers' = [answers EXCEPT ![r] =
                    IF GoesAsync(r, install) THEN @ \o <<"accepted", "unavailable">>
                                             ELSE Append(@, "unavailable")]
              /\ records' = R!CancelRecord(Posted(r), <<r, 1>>)
              /\ place' = [place EXCEPT ![r] = "refused"]
              /\ UNCHANGED timer
      BY <1>8 DEF TurnAway
    <2>2. /\ goesAsync' \in [Requests -> BOOLEAN] /\ created' \in Nat
          /\ records' \in R!TaskTables
      BY <2>1, PreparedTyped, CancelledTable
    <2>3. answers' \in [Requests -> Seq(Answers)]
      <3>1. /\ answers[r] \o <<"accepted", "unavailable">> \in Seq(Answers)
            /\ Append(answers[r], "unavailable") \in Seq(Answers)
        BY DEF TypeOK, Answers
      <3> QED
        BY <2>1, <3>1 DEF TypeOK
    <2> QED
      BY <1>0, <1>3, <2>1, <2>2, <2>3 DEF Prepare, TypeOK, Places
  <1>9. ASSUME NEW r \in Requests, BeginTask(r) \/ SkipTask(r) \/ EndTask(r)
        PROVE  HandlerTypeInv'
    <2>1. CASE BeginTask(r)
      BY <1>0, <1>2, <1>3, <2>1 DEF BeginTask, TypeOK, Places, tvars
    <2>2. CASE SkipTask(r) \/ EndTask(r)
      <3>1. /\ nextTask' = [nextTask EXCEPT ![r] = @ + 1]
            /\ nextTask[r] <= Length(r)
        BY <2>2 DEF SkipTask, EndTask
      <3>2. place' \in [Requests -> Places]
        BY <2>2 DEF SkipTask, EndTask, Places, TypeOK
      <3>3. nextTask[r] + 1 \in 1..(MaxTasks + 1)
        BY <1>2, <3>1, DeclareAssumption
      <3>4. nextTask' \in [Requests -> 1..(MaxTasks + 1)]
        BY <3>1, <3>3 DEF TypeOK
      <3>5. TypeOK'
        BY <1>0, <2>2, <3>2, <3>4 DEF SkipTask, EndTask, TypeOK, tvars
      <3>6. ASSUME NEW s \in Requests
            PROVE  /\ nextTask'[s] <= Length(s) + 1
                   /\ place'[s] = "handler" => nextTask'[s] <= Length(s)
        <4>1. CASE s = r
          <5>1. nextTask'[r] = nextTask[r] + 1 /\ place'[r] = "running"
            BY <2>2, <3>1 DEF SkipTask, EndTask, TypeOK
          <5> QED
            BY <1>2, <3>1, <4>1, <5>1
        <4>2. CASE s # r
          <5>1. nextTask'[s] = nextTask[s] /\ place'[s] = place[s]
            BY <2>2, <4>2 DEF SkipTask, EndTask, TypeOK
          <5> QED
            BY <5>1
        <4> QED
          BY <4>1, <4>2
      <3> QED
        BY <1>3, <3>5, <3>6
    <2> QED
      BY <1>9, <2>1, <2>2
  <1>10. ASSUME NEW r \in Requests, ProcessingFails(r)
         PROVE  HandlerTypeInv'
    <2>1. answers' \in [Requests -> Seq(Answers)]
      BY <1>10, AnswerTyped DEF ProcessingFails, TypeOK, Answers
    <2> QED
      BY <1>0, <1>3, <1>10, <2>1 DEF ProcessingFails, TypeOK, Places, tvars
  <1>11. ASSUME NEW r \in Requests, Finish(r)
         PROVE  HandlerTypeInv'
    <2>1. records' \in R!TaskTables
      BY <1>11, PatchedTable DEF Finish, TypeOK
    <2>2. answers' \in [Requests -> Seq(Answers)]
      BY <1>11, AnswerTyped DEF Finish, TypeOK, Answers
    <2> QED
      BY <1>0, <1>3, <1>11, <2>1, <2>2 DEF Finish, TypeOK, Places
  <1>12. ASSUME NEW r \in Requests, TimerFires(r)
         PROVE  HandlerTypeInv'
    <2>1. answers' \in [Requests -> Seq(Answers)]
      BY <1>12, AnswerTyped DEF TimerFires, TypeOK, Answers
    <2> QED
      BY <1>0, <1>3, <1>12, <2>1 DEF TimerFires, TypeOK, tvars
  <1>13. CASE ConsumerStep
    <2>1. CASE ConsumerTakes
      BY <1>0, <1>3, <2>1 DEF ConsumerTakes, TypeOK, Places, tvars
    <2>2. CASE ConsumerWaits \/ ConsumerReturns
      BY <1>0, <1>3, <2>2 DEF ConsumerWaits, ConsumerReturns, TypeOK, rvars, tvars
    <2> QED
      BY <1>13, <2>1, <2>2 DEF ConsumerStep
  <1>14. ASSUME NEW new \in Stored, SettingsPosted(new)
         PROVE  HandlerTypeInv'
    <2>1. records' \in R!TaskTables
      BY <1>14, CleanedTable DEF SettingsPosted, TypeOK
    <2> QED
      BY <1>0, <1>3, <1>14, <2>1 DEF SettingsPosted, TypeOK, rvars
  <1>15. CASE WeekPasses
    <2>1. horizon' \in Nat
      BY <1>15 DEF WeekPasses, TypeOK
    <2> QED
      BY <1>0, <1>3, <1>15, <2>1 DEF WeekPasses, TypeOK, rvars
  <1>16. CASE UNCHANGED vars
    BY <1>0, <1>3, <1>16 DEF vars, TypeOK
  <1> QED
    BY <1>4, <1>5, <1>6, <1>7, <1>8, <1>9, <1>10, <1>11, <1>12, <1>13, <1>14,
       <1>15, <1>16 DEF Next, RequestStep

(* All variables keep their types; in particular a request never has more  *)
(* declarations processed than it carries.                                 *)
THEOREM HandlerTyped == Spec => []TypeOK
  <1>1. HandlerTypeInv /\ HandlerInv /\ [Next]_vars => HandlerTypeInv'
    BY HandlerStepKeepsType
  <1>2. HandlerTypeInv => TypeOK
    BY DEF HandlerTypeInv
  <1> QED
    BY <1>1, <1>2, HandlerTypeInit, HandlerInvariant, PTL DEF Spec

-----------------------------------------------------------------------------

(* A context is in the queue exactly while its request is "queued", and a  *)
(* queueing request is processed only as the item in the consumer's hand.  *)
THEOREM QueueAndPlacesAgree == Spec => []QueueMatchesPlaces
  BY HandlerInvariant, PTL DEF HandlerInv, PlacesInv

(* With burst handling on, requests that belong in the queue are processed *)
(* one at a time, for every number of requests and every limit.            *)
THEOREM QueuedOneAtATime == Spec => []OneAtATime
  <1>1. HandlerInv => OneAtATime
    BY DEF HandlerInv, PlacesInv, QueueMatchesPlaces, OneAtATime
  <1> QED
    BY <1>1, HandlerInvariant, PTL

-----------------------------------------------------------------------------

(* Every step of the handler is a step of the queue or leaves it alone: a  *)
(* request is queued when it is not in the queue, and the callback settles *)
(* when the consumer is busy.                                              *)
LEMMA HandlerStepIsQueueStep ==
    ASSUME HandlerInv, [Next]_vars
    PROVE  [QueueNext]_qvars
  <1>1. ASSUME NEW r \in Requests, QueueUp(r) PROVE QueueNext
    <2>1. place[r] = "controls" /\ Enqueue(r)
      BY <1>1 DEF QueueUp, Prepare
    <2>2. r \notin Queued \cup {inHand}
      BY <2>1, NotYetQueued
    <2> QED
      BY <2>1, <2>2 DEF QueueNext
  <1>2. ASSUME NEW r \in Requests, TurnAway(r) PROVE UNCHANGED qvars
    BY <1>2 DEF TurnAway, Refuse
  <1>3. ASSUME NEW r \in Requests, StartNow(r) PROVE UNCHANGED qvars
    BY <1>3 DEF StartNow
  <1>4. ASSUME NEW r \in Requests, Arrive(r) \/ RequestStep(r)
        PROVE  [QueueNext]_qvars
    BY <1>1, <1>2, <1>3, <1>4
    DEF RequestStep, Arrive, ReadSettings, PreparationFails, BeginTask, SkipTask,
        EndTask, ProcessingFails, Finish, TimerFires
  <1>5. ASSUME ConsumerStep PROVE QueueNext
    BY <1>5 DEF ConsumerStep, ConsumerTakes, ConsumerWaits, ConsumerReturns, QueueNext
  <1>6. ASSUME (\E new \in Stored : SettingsPosted(new)) \/ WeekPasses \/ UNCHANGED vars
        PROVE  UNCHANGED qvars
    BY <1>6 DEF SettingsPosted, WeekPasses, vars, qvars
  <1> QED
    BY <1>4, <1>5, <1>6 DEF Next

THEOREM HandlerImplementsQueue == Spec => QueueSpec
  <1>1. Init => QueueInit
    BY DEF Init
  <1>2. HandlerInv /\ [Next]_vars => [QueueNext]_qvars
    BY HandlerStepIsQueueStep
  <1> QED
    BY <1>1, <1>2, HandlerInvariant, PTL DEF Spec, QueueSpec

(* Requests that are queued are served one after the other, in the order   *)
(* in which they were queued, whatever else the handler does meanwhile.    *)
THEOREM HandlerServesInOrder == Spec => ServesInOrder
  BY HandlerImplementsQueue, QueueServesInOrder

-----------------------------------------------------------------------------
(* Answers and records *)


(* NoTimerAfterAnswer and DoneAnsweredOnce are about requests that are     *)
(* done; what holds of those on the way makes them inductive: a live       *)
(* request is asynchronous and has its 202, or has its timer and no        *)
(* answer, or had its timer and has its 202.                               *)
Waiting(r)  == place[r] \in {"new", "settings", "controls"}

LiveAnswer(r) ==
    \/ goesAsync[r] /\ ~ timer[r] /\ ~ timedOut[r] /\ answers[r] = <<"accepted">>
    \/ ~ goesAsync[r] /\ timer[r] /\ ~ timedOut[r] /\ answers[r] = <<>>
    \/ ~ goesAsync[r] /\ ~ timer[r] /\ timedOut[r] /\ answers[r] = <<"accepted">>

AnswerOf(r) ==
    /\ Waiting(r) => ~ timer[r] /\ ~ timedOut[r] /\ answers[r] = <<>>
    /\ Live(r) => LiveAnswer(r)
    /\ place[r] = "done" =>
          /\ ~ timer[r]
          /\ answers[r] = IF goesAsync[r] \/ timedOut[r] THEN <<"accepted">> ELSE <<"result">>
    /\ place[r] \in {"refused", "rejected"} => ~ timer[r]

AnswersInv == \A r \in Requests : AnswerOf(r)

LEMMA AnswersInit == Init => AnswersInv
  BY DEF Init, AnswersInv, AnswerOf, Waiting, Live

(* A step of one request leaves the answers of the others alone. *)
LEMMA OthersKeepAnswer ==
    ASSUME AnswersInv, NEW r \in Requests, AnswerOf(r)',
           \A s \in Requests \ {r} :
               /\ place'[s] = place[s] /\ goesAsync'[s] = goesAsync[s]
               /\ timer'[s] = timer[s] /\ timedOut'[s] = timedOut[s]
               /\ answers'[s] = answers[s]
    PROVE  AnswersInv'
  <1>1. ASSUME NEW s \in Requests \ {r} PROVE AnswerOf(s)'
    BY <1>1 DEF AnswersInv, AnswerOf, Waiting, Live, LiveAnswer
  <1> QED
    BY <1>1 DEF AnswersInv

LEMMA SameKeepsAnswers ==
    ASSUME AnswersInv, UNCHANGED <<place, goesAsync, timer, timedOut, answers>>
    PROVE  AnswersInv'
  BY DEF AnswersInv, AnswerOf, Waiting, Live, LiveAnswer

(* Whom the consumer takes was queued. *)
LEMMA TakenWasQueued ==
    ASSUME HandlerInv, QueueTypeOK, ConsumerTakes
    PROVE  Head(entries) \in Requests /\ place[Head(entries)] = "queued"
  <1>1. entries \in Seq(Requests) /\ entries # <<>>
    BY DEF ConsumerTakes, TakeNext, QueueTypeOK
  <1>2. 1 \in DOMAIN entries /\ Head(entries) = entries[1] /\ Head(entries) \in Requests
    BY <1>1
  <1>3. Head(entries) \in Queued
    BY <1>2 DEF Queued
  <1> QED
    BY <1>2, <1>3 DEF HandlerInv, PlacesInv, QueueMatchesPlaces

LEMMA StepKeepsAnswers ==
    ASSUME TypeOK, HandlerInv, AnswersInv, [Next]_vars
    PROVE  AnswersInv'
  <1> USE DEF TypeOK
  <1>1. ASSUME NEW r \in Requests, Arrive(r) \/ ReadSettings(r) \/ PreparationFails(r)
        PROVE  AnswersInv'
    <2>1. /\ Waiting(r) /\ UNCHANGED <<goesAsync, timer, timedOut>>
          /\ \E to \in {"settings", "controls", "rejected"} :
                /\ place' = [place EXCEPT ![r] = to]
                /\ to # "rejected" => UNCHANGED answers
          /\ \A s \in Requests \ {r} : answers'[s] = answers[s]
      BY <1>1 DEF Arrive, ReadSettings, PreparationFails, Answer, Waiting
    <2>2. AnswerOf(r)'
      BY <2>1 DEF AnswersInv, AnswerOf, Waiting, Live
    <2> QED
      BY <2>1, <2>2, OthersKeepAnswer
  <1>2. ASSUME NEW r \in Requests, StartNow(r) \/ QueueUp(r)
        PROVE  AnswersInv'
    <2>1. PICK install \in BOOLEAN :
              /\ Prepare(r, install)
              /\ Promise202(r, install) /\ SetTimer(r, install)
              /\ \E to \in {"running", "queued"} : place' = [place EXCEPT ![r] = to]
      BY <1>2 DEF StartNow, QueueUp
    <2>2. /\ Waiting(r) /\ UNCHANGED timedOut
          /\ goesAsync' = [goesAsync EXCEPT ![r] = GoesAsync(r, install)]
          /\ GoesAsync(r, install) \in BOOLEAN
      BY <2>1 DEF Prepare, Waiting, GoesAsync
    <2>3. answers[r] = <<>> /\ ~ timedOut[r]
      BY <2>2 DEF AnswersInv, AnswerOf
    <2>4. LiveAnswer(r)'
      <3>1. CASE GoesAsync(r, install)
        <4>1. goesAsync'[r] /\ ~ timer'[r] /\ ~ timedOut'[r]
          BY <2>1, <2>2, <2>3, <3>1 DEF SetTimer
        <4>2. answers'[r] = <<"accepted">>
          BY <2>1, <2>3, <3>1 DEF Promise202, Answer
        <4> QED
          BY <4>1, <4>2 DEF LiveAnswer
      <3>2. CASE ~ GoesAsync(r, install)
        <4>1. ~ goesAsync'[r] /\ timer'[r] /\ ~ timedOut'[r]
          BY <2>1, <2>2, <2>3, <3>2 DEF SetTimer
        <4>2. answers'[r] = <<>>
          BY <2>1, <2>3, <3>2 DEF Promise202
        <4> QED
          BY <4>1, <4>2 DEF LiveAnswer
      <3> QED
        BY <3>1, <3>2
    <2>5. AnswerOf(r)'
      BY <2>1, <2>4 DEF AnswerOf, Waiting
    <2> QED
      BY <2>1, <2>2, <2>5, OthersKeepAnswer DEF Promise202, SetTimer, Answer
  <1>3. ASSUME NEW r \in Requests, TurnAway(r)
        PROVE  AnswersInv'
    <2>1. /\ Waiting(r) /\ UNCHANGED <<timer, timedOut>>
          /\ place' = [place EXCEPT ![r] = "refused"]
          /\ \A s \in Requests \ {r} : answers'[s] = answers[s] /\ goesAsync'[s] = goesAsync[s]
      BY <1>3 DEF TurnAway, Prepare, Waiting
    <2>2. AnswerOf(r)'
      BY <2>1 DEF AnswersInv, AnswerOf, Waiting, Live
    <2> QED
      BY <2>1, <2>2, OthersKeepAnswer
  <1>4. ASSUME NEW r \in Requests, BeginTask(r) \/ SkipTask(r) \/ EndTask(r)
        PROVE  AnswersInv'
    <2>1. /\ Live(r) /\ UNCHANGED <<goesAsync, timer, timedOut, answers>>
          /\ \E to \in {"running", "handler"} : place' = [place EXCEPT ![r] = to]
      BY <1>4 DEF BeginTask, SkipTask, EndTask, Live
    <2>2. AnswerOf(r)'
      BY <2>1 DEF AnswersInv, AnswerOf, Waiting, Live, LiveAnswer
    <2> QED
      BY <2>1, <2>2, OthersKeepAnswer
  <1>5. ASSUME NEW r \in Requests, ProcessingFails(r)
        PROVE  AnswersInv'
    <2>1. /\ UNCHANGED <<goesAsync, timer, timedOut>>
          /\ place' = [place EXCEPT ![r] = "failed"]
          /\ \A s \in Requests \ {r} : answers'[s] = answers[s]
      BY <1>5 DEF ProcessingFails, Answer
    <2>2. AnswerOf(r)'
      BY <2>1 DEF AnswerOf, Waiting, Live
    <2> QED
      BY <2>1, <2>2, OthersKeepAnswer
  <1>6. ASSUME NEW r \in Requests, Finish(r)
        PROVE  AnswersInv'
    <2>1. /\ LiveAnswer(r) /\ UNCHANGED <<goesAsync, timedOut>>
          /\ place' = [place EXCEPT ![r] = "done"] /\ timer' = [timer EXCEPT ![r] = FALSE]
          /\ IF goesAsync[r] \/ timedOut[r] THEN UNCHANGED answers ELSE Answer(r, "result")
      BY <1>6 DEF Finish, Live, AnswersInv, AnswerOf
    <2>2. place'[r] = "done" /\ ~ timer'[r] /\ goesAsync' = goesAsync /\ timedOut' = timedOut
      BY <2>1
    <2>3. ASSUME goesAsync[r] \/ timedOut[r] PROVE AnswerOf(r)'
      <3>1. answers'[r] = <<"accepted">>
        BY <2>1, <2>3 DEF LiveAnswer
      <3> QED
        BY <2>2, <2>3, <3>1 DEF AnswerOf, Waiting, Live
    <2>4. ASSUME ~ (goesAsync[r] \/ timedOut[r]) PROVE AnswerOf(r)'
      <3>1. answers[r] = <<>>
        BY <2>1, <2>4 DEF LiveAnswer
      <3>2. answers'[r] = <<"result">>
        BY <2>1, <2>4, <3>1 DEF Answer
      <3> QED
        BY <2>2, <2>4, <3>2 DEF AnswerOf, Waiting, Live
    <2> QED
      BY <2>1, <2>3, <2>4, OthersKeepAnswer DEF Answer
  <1>7. ASSUME NEW r \in Requests, TimerFires(r)
        PROVE  AnswersInv'
    <2>1. /\ timer[r] /\ UNCHANGED <<place, goesAsync>> /\ Answer(r, "accepted")
          /\ timer' = [timer EXCEPT ![r] = FALSE] /\ timedOut' = [timedOut EXCEPT ![r] = TRUE]
      BY <1>7 DEF TimerFires
    <2>2. LiveAnswer(r) => LiveAnswer(r)'
      <3> SUFFICES ASSUME LiveAnswer(r) PROVE LiveAnswer(r)'
        OBVIOUS
      <3>1. ~ goesAsync[r] /\ answers[r] = <<>>
        BY <2>1 DEF LiveAnswer
      <3>2. answers'[r] = <<"accepted">>
        BY <2>1, <3>1 DEF Answer
      <3>3. ~ goesAsync'[r] /\ ~ timer'[r] /\ timedOut'[r]
        BY <2>1, <3>1
      <3> QED
        BY <3>2, <3>3 DEF LiveAnswer
    <2>3. place[r] \notin {"done", "refused", "rejected", "new", "settings", "controls"}
      BY <2>1 DEF AnswersInv, AnswerOf, Waiting
    <2>4. AnswerOf(r)'
      BY <2>1, <2>2, <2>3 DEF AnswersInv, AnswerOf, Waiting, Live
    <2> QED
      BY <2>1, <2>4, OthersKeepAnswer DEF Answer
  <1>8. CASE ConsumerTakes
    <2>1. PICK r \in Requests : /\ place[r] = "queued"
                               /\ place' = [place EXCEPT ![r] = "running"]
                               /\ UNCHANGED <<goesAsync, timer, timedOut, answers>>
      BY <1>8, TakenWasQueued DEF ConsumerTakes
    <2>2. AnswerOf(r)'
      BY <2>1 DEF AnswersInv, AnswerOf, Waiting, Live, LiveAnswer
    <2> QED
      BY <2>1, <2>2, OthersKeepAnswer
  <1>9. ASSUME \/ ConsumerWaits \/ ConsumerReturns \/ WeekPasses
               \/ (\E new \in Stored : SettingsPosted(new)) \/ UNCHANGED vars
        PROVE  AnswersInv'
    BY <1>9, SameKeepsAnswers
    DEF ConsumerWaits, ConsumerReturns, WeekPasses, SettingsPosted, vars, rvars
  <1> QED
    BY <1>1, <1>2, <1>3, <1>4, <1>5, <1>6, <1>7, <1>8, <1>9 DEF Next, RequestStep, ConsumerStep

LEMMA AnswersInvariant == Spec => []AnswersInv
  <1>1. TypeOK /\ HandlerInv /\ AnswersInv /\ [Next]_vars => AnswersInv'
    BY StepKeepsAnswers
  <1> QED
    BY <1>1, AnswersInit, HandlerTyped, HandlerInvariant, PTL DEF Spec

(* No request has an answer and a timer that is still to promise a task,   *)
(* unless its processing failed (processSync and the catch of process).    *)
THEOREM TimerOnlyBeforeAnswer == Spec => []NoTimerAfterAnswer
  <1>1. TypeOK /\ AnswersInv => NoTimerAfterAnswer
    BY DEF TypeOK, Places, AnswersInv, AnswerOf, Waiting, Live, LiveAnswer, NoTimerAfterAnswer
  <1> QED
    BY <1>1, AnswersInvariant, HandlerTyped, PTL

(* A request that is processed to its end is answered exactly once, by its *)
(* 202 or with its result, in whatever order timer and processing end.     *)
THEOREM DoneIsAnsweredOnce == Spec => []DoneAnsweredOnce
  <1>1. AnswersInv => DoneAnsweredOnce
    BY DEF AnswersInv, AnswerOf, DoneAnsweredOnce
  <1> QED
    BY <1>1, AnswersInvariant, PTL

-----------------------------------------------------------------------------
(* PollableWhileLive and RecordsTellOutcome rest on one fact more: the     *)
(* record of a live request is younger than all that expired, which keeps  *)
(* every cleaning from taking it.                                          *)
RecordOf(r) ==
    /\ Live(r) /\ Recorded(r) =>
          \A t \in TasksOf(r) : records[t].status = "pending" /\ records[t].stamp > horizon
    /\ \A t \in TasksOf(r) :
          /\ records[t].status = "complete" => place[r] = "done"
          /\ records[t].status = "cancelled" => place[r] = "refused"
    /\ place[r] = "done" => nextTask[r] > Length(r)
    /\ Waiting(r) \/ place[r] \in {"queued", "refused"} => nextTask[r] = 1

RecordsInv ==
    /\ horizon <= created
    /\ \A r \in Requests : RecordOf(r)

(* The tasks of a request are its own. *)
LEMMA TasksAreTasks ==
    ASSUME TypeOK, NEW r \in Requests
    PROVE  /\ TasksOf(r) \subseteq Tasks
           /\ \A t \in TasksOf(r) : t[1] = r /\ t[2] \in Nat \ {0} /\ t[2] <= Length(r)
           /\ Length(r) \in Nat
  <1>1. Length(r) \in 1..MaxTasks
    BY LengthBounded DEF TypeOK, Length
  <1> QED
    BY <1>1, DeclareAssumption DEF TasksOf, Tasks

(* Cleaning keeps a record as it is or takes it; a pending one that is not *)
(* expired stays.                                                          *)
Survives(t) ==
    \/ records'[t] = records[t]
    \/ /\ records'[t].status = "none"
       /\ ~ (records[t].status = "pending" /\ records[t].stamp > horizon)

LEMMA CleaningSurvives ==
    ASSUME records' = R!CleanRecords(records, horizon), NEW t \in Tasks
    PROVE  Survives(t)
  BY DEF R!CleanRecords, R!Absent, Survives

LEMMA RecordsInit == Init => RecordsInv
  <1> SUFFICES ASSUME Init PROVE RecordsInv
    OBVIOUS
  <1>1. \A t \in Tasks : records[t].status = "none"
    BY DEF Init, R!NoRecords, R!Absent
  <1>2. TypeOK
    BY HandlerTypeInit DEF HandlerTypeInv
  <1> QED
    BY <1>1, <1>2, TasksAreTasks DEF Init, RecordsInv, RecordOf, Live, Waiting

(* A step of one request: the records of the others survive it.            *)
LEMMA OthersKeepRecord ==
    ASSUME TypeOK, RecordsInv, NEW r \in Requests, RecordOf(r)',
           horizon' = horizon, horizon <= created', form' = form,
           \A s \in Requests \ {r} : place'[s] = place[s] /\ nextTask'[s] = nextTask[s],
           \A s \in Requests \ {r} : \A t \in TasksOf(s) : Survives(t)
    PROVE  RecordsInv'
  <1>1. ASSUME NEW s \in Requests \ {r} PROVE RecordOf(s)'
    <2>1. TasksOf(s)' = TasksOf(s) /\ Length(s)' = Length(s) /\ (Recorded(s)' <=> Recorded(s))
      BY DEF TasksOf, Length, Recorded
    <2>2. RecordOf(s)
      BY DEF RecordsInv
    <2> QED
      BY <2>1, <2>2 DEF RecordOf, Live, Waiting, Survives
  <1> QED
    BY <1>1 DEF RecordsInv

(* A step that leaves the requests alone. *)
LEMMA SurvivedKeepsRecords ==
    ASSUME TypeOK, RecordsInv, UNCHANGED <<place, form, nextTask, horizon, created>>,
           \A t \in Tasks : Survives(t)
    PROVE  RecordsInv'
  <1>1. ASSUME NEW s \in Requests PROVE RecordOf(s)'
    <2>1. TasksOf(s)' = TasksOf(s) /\ Length(s)' = Length(s) /\ (Recorded(s)' <=> Recorded(s))
      BY DEF TasksOf, Length, Recorded
    <2>2. RecordOf(s) /\ TasksOf(s) \subseteq Tasks
      BY TasksAreTasks DEF RecordsInv
    <2> QED
      BY <2>1, <2>2 DEF RecordOf, Live, Waiting, Survives
  <1> QED
    BY <1>1 DEF RecordsInv

(* The records that a request posts are pending and younger than all that  *)
(* expired; those of others stay.                                          *)
LEMMA PostedRecords ==
    ASSUME TypeOK, RecordsInv, NEW r \in Requests
    PROVE  /\ Recorded(r) => \A t \in TasksOf(r) : /\ Posted(r)[t].status = "pending"
                                                   /\ Posted(r)[t].stamp > horizon
           /\ \A t \in Tasks : t[1] # r \/ ~ Recorded(r) => Posted(r)[t] = records[t]
  <1>1. created \in Nat /\ horizon \in Nat /\ horizon <= created
    BY DEF TypeOK, RecordsInv
  <1>2. /\ TasksOf(r) \subseteq Tasks
        /\ \A t \in TasksOf(r) : t[1] = r /\ t[2] \in Nat \ {0}
    BY TasksAreTasks
  <1>3. ASSUME NEW t \in TasksOf(r), Recorded(r)
        PROVE  Posted(r)[t].status = "pending" /\ Posted(r)[t].stamp > horizon
    <2>1. Posted(r)[t] = [status |-> "pending", stamp |-> created + t[2]]
      BY <1>2, <1>3 DEF Posted, R!PostRecords
    <2> QED
      BY <1>1, <1>2, <2>1
  <1>4. ASSUME NEW t \in Tasks, t[1] # r \/ ~ Recorded(r)
        PROVE  Posted(r)[t] = records[t]
    BY <1>2, <1>4 DEF Posted, R!PostRecords
  <1> QED
    BY <1>3, <1>4

LEMMA StepKeepsRecords ==
    ASSUME TypeOK, HandlerInv, RecordsInv, [Next]_vars
    PROVE  RecordsInv'
  <1> USE DEF TypeOK
  <1>0. \A r \in Requests : /\ TasksOf(r) \subseteq Tasks
                            /\ \A t \in TasksOf(r) : t[1] = r
                            /\ Length(r) \in Nat /\ RecordOf(r) /\ nextTask[r] \in Nat
    BY TasksAreTasks, DeclareAssumption DEF RecordsInv
  <1>00. horizon <= created /\ horizon \in Nat /\ created \in Nat
    BY DEF RecordsInv
  <1>1. ASSUME NEW r \in Requests, Arrive(r) \/ ReadSettings(r) \/ PreparationFails(r)
        PROVE  RecordsInv'
    <2>1. /\ Waiting(r) /\ UNCHANGED <<form, nextTask, horizon, created>>
          /\ \E to \in {"settings", "controls", "rejected"} : place' = [place EXCEPT ![r] = to]
          /\ records' = records \/ records' = R!CleanRecords(records, horizon)
      BY <1>1 DEF Arrive, ReadSettings, PreparationFails, Waiting, tvars
    <2>2. \A t \in Tasks : Survives(t)
      BY <2>1, CleaningSurvives DEF Survives
    <2>3. TasksOf(r)' = TasksOf(r) /\ Length(r)' = Length(r)
      BY <2>1 DEF TasksOf, Length
    <2>4. nextTask'[r] = 1 /\ place'[r] \in {"settings", "controls", "rejected"}
      BY <1>0, <2>1 DEF RecordOf
    <2>5. ASSUME NEW t \in TasksOf(r)
          PROVE  records'[t].status \notin {"complete", "cancelled"}
      <3>1. records[t].status \notin {"complete", "cancelled"}
        BY <1>0, <2>1 DEF RecordOf, Waiting
      <3>2. Survives(t)
        BY <1>0, <2>2
      <3> QED
        BY <3>1, <3>2 DEF Survives
    <2>6. RecordOf(r)'
      BY <2>3, <2>4, <2>5 DEF RecordOf, Live
    <2>7. \A s \in Requests \ {r} : place'[s] = place[s] /\ nextTask'[s] = nextTask[s]
      BY <2>1
    <2>8. \A s \in Requests \ {r} : \A t \in TasksOf(s) : Survives(t)
      BY <1>0, <2>2
    <2>9. horizon' = horizon /\ horizon <= created' /\ form' = form
      BY <1>00, <2>1
    <2> QED
      BY <2>6, <2>7, <2>8, <2>9, OthersKeepRecord
  <1>2. ASSUME NEW r \in Requests, StartNow(r) \/ QueueUp(r)
        PROVE  RecordsInv'
    <2>1. /\ Waiting(r) /\ UNCHANGED <<form, nextTask, horizon>>
          /\ records' = Posted(r) /\ created <= created'
          /\ \E to \in {"running", "queued"} : place' = [place EXCEPT ![r] = to]
      BY <1>0, <1>00, <1>2 DEF StartNow, QueueUp, Prepare, Waiting
    <2>2. created' \in Nat
      BY <1>0, <1>00, <1>2 DEF StartNow, QueueUp, Prepare
    <2>3. /\ TasksOf(r)' = TasksOf(r) /\ Length(r)' = Length(r) /\ (Recorded(r)' <=> Recorded(r))
      BY <2>1 DEF TasksOf, Length, Recorded
    <2>4. \A s \in Requests \ {r} : \A t \in TasksOf(s) : Survives(t)
      <3> SUFFICES ASSUME NEW s \in Requests \ {r}, NEW t \in TasksOf(s) PROVE Survives(t)
        OBVIOUS
      <3>1. t \in Tasks /\ t[1] # r
        BY <1>0
      <3>2. Posted(r)[t] = records[t]
        BY <3>1, PostedRecords
      <3> QED
        BY <2>1, <3>2 DEF Survives
    <2>5. nextTask'[r] = 1 /\ place'[r] \in {"running", "queued"}
      BY <1>0, <2>1 DEF RecordOf
    <2>6. ASSUME NEW t \in TasksOf(r)
          PROVE  /\ records'[t].status \notin {"complete", "cancelled"}
                 /\ Recorded(r) => /\ records'[t].status = "pending"
                                   /\ records'[t].stamp > horizon
      <3>1. CASE Recorded(r)
        BY <2>1, <3>1, PostedRecords
      <3>2. CASE ~ Recorded(r)
        <4>1. records'[t] = records[t]
          BY <1>0, <2>1, <3>2, PostedRecords
        <4>2. records[t].status \notin {"complete", "cancelled"}
          BY <1>0, <2>1 DEF RecordOf, Waiting
        <4> QED
          BY <3>2, <4>1, <4>2
      <3> QED
        BY <3>1, <3>2
    <2>7. RecordOf(r)'
      BY <2>1, <2>3, <2>5, <2>6 DEF RecordOf
    <2>8. \A s \in Requests \ {r} : place'[s] = place[s] /\ nextTask'[s] = nextTask[s]
      BY <2>1
    <2>9. horizon' = horizon /\ horizon <= created' /\ form' = form
      BY <1>00, <2>1, <2>2
    <2> QED
      BY <2>4, <2>7, <2>8, <2>9, OthersKeepRecord
  <1>3. ASSUME NEW r \in Requests, TurnAway(r)
        PROVE  RecordsInv'
    <2>1. /\ Waiting(r) /\ UNCHANGED <<form, nextTask, horizon>> /\ Recorded(r)
          /\ records' = R!CancelRecord(Posted(r), <<r, 1>>)
          /\ created' \in Nat /\ created <= created'
          /\ place' = [place EXCEPT ![r] = "refused"]
      BY <1>0, <1>00, <1>3 DEF TurnAway, Prepare, Waiting, Recorded, Queues
    <2>2. Posted(r) \in R!TaskTables
      BY PreparedTyped, <1>3 DEF TurnAway
    <2>3. \A t \in Tasks : t # <<r, 1>> => records'[t] = Posted(r)[t]
      BY <2>1, <2>2 DEF R!CancelRecord, R!TaskTables
    <2>4. \A t \in Tasks : records'[t].status \in {Posted(r)[t].status, "cancelled"}
      BY <2>1, <2>2 DEF R!CancelRecord, R!TaskTables
    <2>5. /\ TasksOf(r)' = TasksOf(r) /\ Length(r)' = Length(r)
      BY <2>1 DEF TasksOf, Length
    <2>6. \A s \in Requests \ {r} : \A t \in TasksOf(s) : Survives(t)
      <3> SUFFICES ASSUME NEW s \in Requests \ {r}, NEW t \in TasksOf(s) PROVE Survives(t)
        OBVIOUS
      <3>1. t \in Tasks /\ t[1] # r /\ t # <<r, 1>>
        BY <1>0
      <3> QED
        BY <2>3, <3>1, PostedRecords DEF Survives
    <2>7. RecordOf(r)'
      BY <1>0, <2>1, <2>4, <2>5, PostedRecords DEF RecordOf, Waiting, Live
    <2>8. \A s \in Requests \ {r} : place'[s] = place[s] /\ nextTask'[s] = nextTask[s]
      BY <2>1
    <2>9. horizon' = horizon /\ horizon <= created' /\ form' = form
      BY <1>00, <2>1
    <2> QED
      BY <2>6, <2>7, <2>8, <2>9, OthersKeepRecord
  <1>4. ASSUME NEW r \in Requests, BeginTask(r) \/ SkipTask(r) \/ EndTask(r) \/ ProcessingFails(r)
        PROVE  RecordsInv'
    <2>1. /\ place[r] \in {"running", "handler"} /\ UNCHANGED <<form, records, horizon, created>>
          /\ \E to \in {"running", "handler", "failed"} : place' = [place EXCEPT ![r] = to]
          /\ \A s \in Requests \ {r} : nextTask'[s] = nextTask[s]
      BY <1>4 DEF BeginTask, SkipTask, EndTask, ProcessingFails, tvars
    <2>2. /\ TasksOf(r)' = TasksOf(r) /\ (Recorded(r)' <=> Recorded(r))
      BY <2>1 DEF TasksOf, Length, Recorded
    <2>3. RecordOf(r)'
      BY <1>0, <2>1, <2>2 DEF RecordOf, Waiting, Live
    <2> QED
      BY <1>00, <2>1, <2>3, OthersKeepRecord DEF Survives
  <1>5. ASSUME NEW r \in Requests, Finish(r)
        PROVE  RecordsInv'
    <2>1. /\ place[r] = "running" /\ nextTask[r] > Length(r)
          /\ place' = [place EXCEPT ![r] = "done"]
          /\ UNCHANGED <<form, nextTask, horizon, created>>
          /\ records' = records \/ records' = R!PatchRecords(records, TasksOf(r))
      BY <1>5 DEF Finish
    <2>2. \A t \in Tasks : t[1] # r => records'[t] = records[t]
      BY <1>0, <2>1 DEF R!PatchRecords, R!TaskTables
    <2>3. \A t \in TasksOf(r) : records'[t].status \in {records[t].status, "complete"}
      BY <1>0, <2>1 DEF R!PatchRecords, R!TaskTables
    <2>4. /\ TasksOf(r)' = TasksOf(r) /\ Length(r)' = Length(r)
      BY <2>1 DEF TasksOf, Length
    <2>5. \A t \in TasksOf(r) : records'[t].status # "cancelled"
      BY <1>0, <2>1, <2>3 DEF RecordOf
    <2>6. RecordOf(r)'
      BY <2>1, <2>4, <2>5 DEF RecordOf, Waiting, Live
    <2>7. \A s \in Requests \ {r} : \A t \in TasksOf(s) : Survives(t)
      BY <1>0, <2>2 DEF Survives
    <2> QED
      BY <1>00, <2>1, <2>6, <2>7, OthersKeepRecord
  <1>6. CASE ConsumerTakes
    <2>1. PICK r \in Requests : /\ place[r] = "queued"
                               /\ place' = [place EXCEPT ![r] = "running"]
                               /\ UNCHANGED <<form, nextTask, records, horizon, created>>
      BY <1>6, TakenWasQueued DEF ConsumerTakes, tvars
    <2>2. /\ TasksOf(r)' = TasksOf(r) /\ (Recorded(r)' <=> Recorded(r))
      BY <2>1 DEF TasksOf, Length, Recorded
    <2>3. RecordOf(r)'
      BY <1>0, <2>1, <2>2 DEF RecordOf, Waiting, Live
    <2> QED
      BY <1>00, <2>1, <2>3, OthersKeepRecord DEF Survives
  <1>7. ASSUME \/ \E r \in Requests : TimerFires(r)
               \/ ConsumerWaits \/ ConsumerReturns \/ UNCHANGED vars
               \/ \E new \in Stored : SettingsPosted(new)
        PROVE  RecordsInv'
    <2>1. /\ UNCHANGED <<place, form, nextTask, horizon, created>>
          /\ records' = records \/ records' = R!CleanRecords(records, horizon)
      BY <1>7 DEF TimerFires, ConsumerWaits, ConsumerReturns, SettingsPosted, vars, rvars, tvars
    <2>2. \A t \in Tasks : Survives(t)
      BY <2>1, CleaningSurvives DEF Survives
    <2> QED
      BY <2>1, <2>2, SurvivedKeepsRecords
  <1>8. CASE WeekPasses
    <2>1. /\ UNCHANGED <<place, form, nextTask, records, created>>
          /\ horizon' <= created /\ horizon' \in Nat
          /\ \A t \in Tasks : Live(t[1]) /\ records[t].status # "none" => records[t].stamp > horizon'
      BY <1>00, <1>8 DEF WeekPasses, rvars
    <2>2. ASSUME NEW s \in Requests PROVE RecordOf(s)'
      <3>1. TasksOf(s)' = TasksOf(s) /\ Length(s)' = Length(s) /\ (Recorded(s)' <=> Recorded(s))
        BY <2>1 DEF TasksOf, Length, Recorded
      <3>2. ASSUME Live(s), Recorded(s), NEW t \in TasksOf(s)
            PROVE  records[t].status = "pending" /\ records[t].stamp > horizon'
        BY <1>0, <2>1, <3>2 DEF RecordOf
      <3> QED
        BY <1>0, <2>1, <3>1, <3>2 DEF RecordOf, Live, Waiting
    <2> QED
      BY <2>1, <2>2 DEF RecordsInv
  <1> QED
    BY <1>1, <1>2, <1>3, <1>4, <1>5, <1>6, <1>7, <1>8 DEF Next, RequestStep, ConsumerStep

LEMMA RecordsInvariant == Spec => []RecordsInv
  <1>1. TypeOK /\ HandlerInv /\ RecordsInv /\ [Next]_vars => RecordsInv'
    BY StepKeepsRecords
  <1> QED
    BY <1>1, RecordsInit, HandlerTyped, HandlerInvariant, PTL DEF Spec

(* No cleaning that another request causes, and no expiry, takes away or   *)
(* settles the record of a request that is under way (asyncHandler.js).    *)
THEOREM PollableAsLongAsLive == Spec => []PollableWhileLive
  <1>1. RecordsInv => PollableWhileLive
    BY DEF RecordsInv, RecordOf, PollableWhileLive, R!PollResult
  <1> QED
    BY <1>1, RecordsInvariant, PTL

(* A record has results only after every declaration of its request was    *)
(* processed, and is cancelled only if none was or will be.                *)
THEOREM RecordsTellTheOutcome == Spec => []RecordsTellOutcome
  <1>1. TypeOK /\ RecordsInv => RecordsTellOutcome
    <2> SUFFICES ASSUME TypeOK, RecordsInv, NEW r \in Requests, NEW t \in TasksOf(r)
                 PROVE  /\ R!PollResult(records, t) = "results" =>
                              place[r] = "done" /\ nextTask[r] > Length(r)
                        /\ R!PollResult(records, t) = "task cancelled" =>
                              place[r] = "refused" /\ nextTask[r] = 1
      BY DEF RecordsTellOutcome
    <2>1. records[t].status \in R!Statuses
      BY TasksAreTasks DEF TypeOK, R!TaskTables
    <2>2. RecordOf(r)
      BY DEF RecordsInv
    <2> QED
      BY <2>1, <2>2 DEF RecordOf, R!PollResult, R!Statuses
  <1> QED
    BY <1>1, RecordsInvariant, HandlerTyped, PTL
=============================================================================
