--------------------------- MODULE DeclareHandler ---------------------------
(***************************************************************************)
(* The life of a request to /declare inside one AS3 process: continuePost  *)
(* of src/nodejs/restWorker.js, then src/lib/declareHandler.js with the    *)
(* burst queue (BurstQueue) and the table of task records (AsyncRecords).  *)
(*                                                                         *)
(* JavaScript runs one turn of the event loop at a time, so an action is   *)
(* all a request does between two points where it waits for something from *)
(* outside: the settings, the target's tokens and packages, the queue, the *)
(* DeclarationHandler's conversation with the device, or the 45 second     *)
(* timer.  The actions of the requests interleave in every order.          *)
(***************************************************************************)
EXTENDS BurstQueue, FiniteSets

CONSTANTS MaxTasks,     \* bound on the declarations of one request
          MaxRecords,   \* AsyncHandler's MAX_RECORDS
          MaxExpired,   \* bound on the stamps of the records that expire
          Forms,        \* the forms of request the instance looks at
          Stored,       \* the settings that may be stored meanwhile
          MayReject     \* whether DeclarationHandler.process may reject

Tasks == Requests \X (1..MaxTasks)

R == INSTANCE AsyncRecords

(* What of a request decides its way: the method, the action of each of    *)
(* its declarations, the query parameter async ("bad" is a value that is   *)
(* not true or false) and whether it is for one application.               *)
AllForms ==
    [method  : {"Get", "Post"},
     actions : UNION {[1..n -> {"retrieve", "deploy", "patch"}] : n \in 1..MaxTasks},
     async   : {"absent", "true", "bad"},
     perApp  : BOOLEAN]

(* A GET and a request for one application carry one declaration. *)
WellFormed(f) ==
    /\ f.method = "Get" => f.actions = <<"retrieve">>
    /\ f.perApp => Len(f.actions) = 1

ASSUME DeclareAssumption ==
    /\ MaxTasks \in Nat \ {0}
    /\ MaxRecords \in Nat
    /\ MaxExpired \in Nat
    /\ \A f \in Forms : f \in AllForms /\ WellFormed(f)
    /\ Stored \subseteq [burst : BOOLEAN, perApp : BOOLEAN]
    /\ MayReject \in BOOLEAN

VARIABLES place,        \* where each request is
          form,         \* the form it arrived with
          sawBurst,     \* burstHandlingEnabled as the request read it
          goesAsync,    \* context.request.async
          nextTask,     \* index of its next declaration to process
          timer,        \* TRUE while its 45 second timer is set
          timedOut,     \* context.request.timedOut
          answers,      \* the calls of restOperation.complete(), in order
          records,      \* AsyncHandler.records
          created,      \* how many records were ever created
          horizon,      \* records with a stamp up to it are expired
          settings      \* what the settings endpoint stored

rvars == <<place, form, sawBurst, goesAsync, nextTask, timer, timedOut, answers>>
tvars == <<records, created, horizon>>
vars  == <<entries, consumer, inHand, place, form, sawBurst, goesAsync, nextTask,
           timer, timedOut, answers, records, created, horizon, settings>>

Answers == {"accepted",     \* 202 and the names of the tasks
            "result",       \* what the declarations came to
            "badRequest",   \* 400
            "unavailable",  \* 503, the queue is full
            "error"}        \* 500

Places == {"new",        \* not yet sent
           "settings",   \* waits for getAllSettings
           "controls",   \* waits for getInitialControls
           "queued",     \* in the burst queue
           "running",    \* processRequest, between two declarations
           "handler",    \* waits for DeclarationHandler.process
           "done",       \* processRequest fulfilled
           "failed",     \* processRequest rejected
           "refused",    \* the queue was full
           "rejected"}   \* answered before it had records

Length(r)   == Len(form[r].actions)
TasksOf(r)  == {<<r, k>> : k \in 1..Length(r)}
(* shouldTakeAction of asyncHandler.js: a GET leaves the records alone. *)
Recorded(r) == form[r].method # "Get"

(* The burst queue is for requests that change something: a GET, and a    *)
(* request whose first declaration is a retrieve, are processed at once.  *)
Queues(r) ==
    /\ sawBurst[r]
    /\ form[r].method # "Get"
    /\ form[r].actions[1] # "retrieve"

(* parseAsyncParam: async makes no sense for a GET or a retrieve. *)
AsyncInvalid(f) ==
    \/ f.async = "bad"
    \/ f.async # "absent" /\ f.actions[1] = "retrieve"

(* restOperation.complete() *)
Answer(r, a) == answers' = [answers EXCEPT ![r] = Append(@, a)]

Init ==
    /\ QueueInit
    /\ place = [r \in Requests |-> "new"]
    /\ form \in [Requests -> Forms]
    /\ sawBurst = [r \in Requests |-> FALSE]
    /\ goesAsync = [r \in Requests |-> FALSE]
    /\ nextTask = [r \in Requests |-> 1]
    /\ timer = [r \in Requests |-> FALSE]
    /\ timedOut = [r \in Requests |-> FALSE]
    /\ answers = [r \in Requests |-> <<>>]
    /\ records = R!NoRecords
    /\ created = 0
    /\ horizon = 0
    /\ settings \in Stored

-----------------------------------------------------------------------------

(* continuePost cleans the records, whatever the endpoint, unless the      *)
(* request is a GET; process() then looks at the query parameter async.    *)
Arrive(r) ==
    /\ place[r] = "new"
    /\ records' = IF Recorded(r) THEN R!CleanRecords(records, horizon)
                                 ELSE records
    /\ IF AsyncInvalid(form[r])
       THEN /\ place' = [place EXCEPT ![r] = "rejected"]
            /\ Answer(r, "badRequest")
       ELSE /\ place' = [place EXCEPT ![r] = "settings"]
            /\ UNCHANGED answers
    /\ UNCHANGED <<qvars, form, sawBurst, goesAsync, nextTask, timer,
                   timedOut, created, horizon, settings>>

(* getAllSettings resolves; the copy decides, however long the controls    *)
(* take and whatever is stored meanwhile.                                  *)
ReadSettings(r) ==
    /\ place[r] = "settings"
    /\ sawBurst' = [sawBurst EXCEPT ![r] = settings.burst]
    /\ IF form[r].perApp /\ ~ settings.perApp
       THEN /\ place' = [place EXCEPT ![r] = "rejected"]
            /\ Answer(r, "badRequest")
       ELSE /\ place' = [place EXCEPT ![r] = "controls"]
            /\ UNCHANGED answers
    /\ UNCHANGED <<qvars, form, goesAsync, nextTask, timer, timedOut, tvars,
                   settings>>

(* Mutant of PreparationFails: the catch does not complete the request. *)
PreparationFailsSilently(r) ==
    /\ place[r] \in {"settings", "controls"}
    /\ place' = [place EXCEPT ![r] = "rejected"]
    /\ UNCHANGED <<qvars, form, sawBurst, goesAsync, nextTask, timer,
                   timedOut, answers, tvars, settings>>

(* getAllSettings rejects, the data group could not be read, or            *)
(* getInitialControls does: no token, or a target that does not resolve.   *)
PreparationFails(r) ==
    /\ place[r] \in {"settings", "controls"}
    /\ place' = [place EXCEPT ![r] = "rejected"]
    /\ Answer(r, "error")
    /\ UNCHANGED <<qvars, form, sawBurst, goesAsync, nextTask, timer,
                   timedOut, tvars, settings>>

(* shouldGoAsync: asked for, or a target needs packages (un)installed. *)
GoesAsync(r, install) == form[r].async = "true" \/ install

(* Packages matter to a declaration that is not a retrieve. *)
MayInstall(r) == \E k \in 1..Length(r) : form[r].actions[k] # "retrieve"

Posted(r) ==
    IF Recorded(r)
    THEN R!PostRecords(records, TasksOf(r), [t \in Tasks |-> created + t[2]])
    ELSE records

(* getInitialControls resolves: processAsync or processSync creates the    *)
(* records and answers 202 or sets the timer.                              *)
Prepare(r, install) ==
    /\ place[r] = "controls"
    /\ install => MayInstall(r)
    /\ goesAsync' = [goesAsync EXCEPT ![r] = GoesAsync(r, install)]
    /\ created' = IF Recorded(r) THEN created + Length(r) ELSE created
    /\ UNCHANGED <<form, sawBurst, nextTask, timedOut, horizon, settings>>

Promise202(r, install) ==
    IF GoesAsync(r, install) THEN Answer(r, "accepted") ELSE UNCHANGED answers

SetTimer(r, install) ==
    timer' = [timer EXCEPT ![r] = ~ GoesAsync(r, install)]

(* ... and processRequest begins without a detour through the queue, ...   *)
StartNow(r) ==
    \E install \in BOOLEAN :
        /\ Prepare(r, install)
        /\ ~ Queues(r)
        /\ Promise202(r, install)
        /\ SetTimer(r, install)
        /\ records' = Posted(r)
        /\ place' = [place EXCEPT ![r] = "running"]
        /\ UNCHANGED qvars

(* ... or the context is queued and, if the consumer waits, taken, ...     *)
QueueUp(r) ==
    \E install \in BOOLEAN :
        /\ Prepare(r, install)
        /\ Queues(r)
        /\ Enqueue(r)
        /\ Promise202(r, install)
        /\ SetTimer(r, install)
        /\ records' = Posted(r)
        /\ place' = [place EXCEPT ![r] =
                        IF consumer = "waiting" THEN "running" ELSE "queued"]

(* Mutant of TurnAway: the timer is not cleared. *)
TurnAwayWithTimer(r) ==
    \E install \in BOOLEAN :
        /\ Prepare(r, install)
        /\ Queues(r)
        /\ Refuse
        /\ answers' = [answers EXCEPT ![r] =
              IF GoesAsync(r, install) THEN @ \o <<"accepted", "unavailable">>
                                       ELSE Append(@, "unavailable")]
        /\ records' = R!CancelRecord(Posted(r), <<r, 1>>)
        /\ place' = [place EXCEPT ![r] = "refused"]
        /\ SetTimer(r, install)

(* ... or the queue is full: the timer is cleared, the record of the first *)
(* declaration is cancelled and the request is completed with a 503.       *)
TurnAway(r) ==
    \E install \in BOOLEAN :
        /\ Prepare(r, install)
        /\ Queues(r)
        /\ Refuse
        /\ answers' = [answers EXCEPT ![r] =
              IF GoesAsync(r, install) THEN @ \o <<"accepted", "unavailable">>
                                       ELSE Append(@, "unavailable")]
        /\ records' = R!CancelRecord(Posted(r), <<r, 1>>)
        /\ place' = [place EXCEPT ![r] = "refused"]
        /\ UNCHANGED timer

-----------------------------------------------------------------------------

(* The consumer takes the first context and calls processRequest. *)
ConsumerTakes ==
    /\ TakeNext
    /\ place' = [place EXCEPT ![Head(entries)] = "running"]
    /\ UNCHANGED <<form, sawBurst, goesAsync, nextTask, timer, timedOut,
                   answers, tvars, settings>>

ConsumerWaits ==
    /\ WaitForEntry
    /\ UNCHANGED <<rvars, tvars, settings>>

(* Mutant of ConsumerReturns: the callback does not return the promise. *)
ConsumerReturnsEarly ==
    /\ CallbackSettles
    /\ UNCHANGED <<rvars, tvars, settings>>

(* processRequest catches its own errors, so its promise settles when the  *)
(* request is done or has failed.                                          *)
ConsumerReturns ==
    /\ CallbackSettles
    /\ place[inHand] \in {"done", "failed"}
    /\ UNCHANGED <<rvars, tvars, settings>>

(* parsePatchBodies looks for the patch in the request's body, which is    *)
(* an array when the request carries several declarations: it throws.  (So *)
(* it does for an array of one, which is not among the forms.)             *)
ParseThrows(r) ==
    /\ Length(r) > 1
    /\ form[r].actions[nextTask[r]] = "patch"

(* processDeclInArray hands the declaration to a DeclarationHandler ...    *)
BeginTask(r) ==
    /\ place[r] = "running"
    /\ nextTask[r] <= Length(r)
    /\ ~ ParseThrows(r)
    /\ place' = [place EXCEPT ![r] = "handler"]
    /\ UNCHANGED <<qvars, form, sawBurst, goesAsync, nextTask, timer,
                   timedOut, answers, tvars, settings>>

(* ... or answers for it: a duplicate, an invalid declaration or parameter *)
SkipTask(r) ==
    /\ place[r] = "running"
    /\ nextTask[r] <= Length(r)
    /\ nextTask' = [nextTask EXCEPT ![r] = @ + 1]
    /\ UNCHANGED <<qvars, place, form, sawBurst, goesAsync, timer, timedOut,
                   answers, tvars, settings>>

(* The handler's promise is fulfilled, with whatever status. *)
EndTask(r) ==
    /\ place[r] = "handler"
    /\ place' = [place EXCEPT ![r] = "running"]
    /\ nextTask' = [nextTask EXCEPT ![r] = @ + 1]
    /\ UNCHANGED <<qvars, form, sawBurst, goesAsync, timer, timedOut,
                   answers, tvars, settings>>

(* Parsing a declaration throws or the handler's promise is rejected (an   *)
(* error without a status code): the catch of processRequest completes the *)
(* request with a 500 and touches neither the timer nor the records.       *)
ProcessingFails(r) ==
    /\ \/ place[r] = "running" /\ nextTask[r] <= Length(r) /\ ParseThrows(r)
       \/ place[r] = "handler" /\ MayReject
    /\ place' = [place EXCEPT ![r] = "failed"]
    /\ Answer(r, "error")
    /\ UNCHANGED <<qvars, form, sawBurst, goesAsync, nextTask, timer,
                   timedOut, tvars, settings>>

(* Mutant of Finish: one declaration short. *)
FinishEarly(r) ==
    /\ place[r] = "running"
    /\ nextTask[r] >= Length(r)
    /\ records' = IF Recorded(r) THEN R!PatchRecords(records, TasksOf(r))
                                 ELSE records
    /\ timer' = [timer EXCEPT ![r] = FALSE]
    /\ IF goesAsync[r] \/ timedOut[r] THEN UNCHANGED answers
                                      ELSE Answer(r, "result")
    /\ place' = [place EXCEPT ![r] = "done"]
    /\ UNCHANGED <<qvars, form, sawBurst, goesAsync, nextTask, timedOut,
                   created, horizon, settings>>

(* Mutant of Finish: the timer is not cleared. *)
FinishWithTimer(r) ==
    /\ place[r] = "running"
    /\ nextTask[r] > Length(r)
    /\ records' = IF Recorded(r) THEN R!PatchRecords(records, TasksOf(r))
                                 ELSE records
    /\ IF goesAsync[r] \/ timedOut[r] THEN UNCHANGED answers
                                      ELSE Answer(r, "result")
    /\ place' = [place EXCEPT ![r] = "done"]
    /\ UNCHANGED <<qvars, form, sawBurst, goesAsync, nextTask, timer, timedOut,
                   created, horizon, settings>>

(* All declarations are processed: updateAsyncRecords, the timer cleared,  *)
(* and the result sent unless the client already has its 202.              *)
Finish(r) ==
    /\ place[r] = "running"
    /\ nextTask[r] > Length(r)
    /\ records' = IF Recorded(r) THEN R!PatchRecords(records, TasksOf(r))
                                 ELSE records
    /\ timer' = [timer EXCEPT ![r] = FALSE]
    /\ IF goesAsync[r] \/ timedOut[r] THEN UNCHANGED answers
                                      ELSE Answer(r, "result")
    /\ place' = [place EXCEPT ![r] = "done"]
    /\ UNCHANGED <<qvars, form, sawBurst, goesAsync, nextTask, timedOut,
                   created, horizon, settings>>

(* The 45 seconds are over: the request is swapped to asynchronous.        *)
TimerFires(r) ==
    /\ timer[r]
    /\ timer' = [timer EXCEPT ![r] = FALSE]
    /\ timedOut' = [timedOut EXCEPT ![r] = TRUE]
    /\ Answer(r, "accepted")
    /\ UNCHANGED <<qvars, place, form, sawBurst, goesAsync, nextTask, tvars,
                   settings>>

-----------------------------------------------------------------------------

(* A POST to /settings stores new values and, like every POST, cleans. *)
SettingsPosted(new) ==
    /\ settings' = new
    /\ records' = R!CleanRecords(records, horizon)
    /\ UNCHANGED <<qvars, rvars, created, horizon>>

(* The request is in the queue or in processRequest. *)
Live(r) == place[r] \in {"queued", "running", "handler"}

(* A week passes for all records up to a stamp.  No request is in progress *)
(* for a week, so the record of a live one does not expire.                *)
WeekPasses ==
    \E h \in (horizon + 1)..created :
        /\ h <= MaxExpired
        /\ \A t \in Tasks : Live(t[1]) /\ records[t].status # "none"
                                => records[t].stamp > h
        /\ horizon' = h
        /\ UNCHANGED <<qvars, rvars, records, created, settings>>

RequestStep(r) ==
    \/ ReadSettings(r) \/ PreparationFails(r)
    \/ StartNow(r) \/ QueueUp(r) \/ TurnAway(r)
    \/ BeginTask(r) \/ SkipTask(r) \/ EndTask(r)
    \/ ProcessingFails(r) \/ Finish(r) \/ TimerFires(r)

ConsumerStep == ConsumerTakes \/ ConsumerWaits \/ ConsumerReturns

Next ==
    \/ \E r \in Requests : Arrive(r) \/ RequestStep(r)
    \/ ConsumerStep
    \/ \E new \in Stored : SettingsPosted(new)
    \/ WeekPasses

Spec == Init /\ [][Next]_vars

(* The event loop runs what is ready: each request's promise chain, its    *)
(* timer and the consumer's chain.  That the promise chain comes back from *)
(* the device at all rests on the time limits of the HTTP requests.        *)
FairSpec ==
    /\ Spec
    /\ \A r \in Requests : WF_vars(RequestStep(r))
    /\ WF_vars(ConsumerStep)

-----------------------------------------------------------------------------

TypeOK ==
    /\ QueueTypeOK
    /\ place \in [Requests -> Places]
    /\ form \in [Requests -> Forms]
    /\ sawBurst \in [Requests -> BOOLEAN]
    /\ goesAsync \in [Requests -> BOOLEAN]
    /\ nextTask \in [Requests -> 1..(MaxTasks + 1)]
    /\ timer \in [Requests -> BOOLEAN]
    /\ timedOut \in [Requests -> BOOLEAN]
    /\ answers \in [Requests -> Seq(Answers)]
    /\ records \in R!TaskTables
    /\ created \in Nat
    /\ horizon \in Nat
    /\ settings \in Stored

Processing(r) == place[r] \in {"running", "handler"}

(* The queue and the requests agree: a context is in the queue exactly     *)
(* while its request is "queued", and a queueing request is in             *)
(* processRequest only as the item in the consumer's hand                  *)
(* (declareHandler.js, the constructor and process).                       *)
QueueMatchesPlaces ==
    /\ \A r \in Requests : place[r] = "queued" <=> r \in Queued
    /\ \A r \in Requests : Queues(r) /\ Processing(r) => inHand = r
    /\ inHand # None =>
          /\ Queues(inHand)
          /\ Processing(inHand) \/ place[inHand] \in {"done", "failed"}

(* With burst handling on, no two requests that belong in the queue are    *)
(* processed at the same time, whichever way the timers, settings changes  *)
(* and other requests interleave (declareHandler.js:100, queueConsumer.js).*)
OneAtATime ==
    \A r, s \in Requests :
        (Queues(r) /\ Processing(r) /\ Queues(s) /\ Processing(s)) => r = s

(* Whoever polls the task of a request in progress is told "in progress":  *)
(* no cleaning that another request causes, and no expiry, takes the       *)
(* record of a live request away or settles it (asyncHandler.js:144-160).  *)
PollableWhileLive ==
    \A r \in Requests : Recorded(r) /\ Live(r) =>
        \A t \in TasksOf(r) : R!PollResult(records, t) = "in progress"

(* A record tells the outcome of its own request: results only after every *)
(* declaration was processed, "cancelled" only if none was or will be      *)
(* (updateAsyncRecords, reportError).                                      *)
RecordsTellOutcome ==
    \A r \in Requests : \A t \in TasksOf(r) :
        /\ R!PollResult(records, t) = "results" =>
              /\ place[r] = "done"
              /\ nextTask[r] > Length(r)
        /\ R!PollResult(records, t) = "task cancelled" =>
              /\ place[r] = "refused"
              /\ nextTask[r] = 1

(* A request that is processed to its end is answered exactly once, with   *)
(* the 202 if it was asynchronous or the timer came first and with the     *)
(* result otherwise, and nothing later adds a second answer                *)
(* (processRequest and processSync).                                       *)
DoneAnsweredOnce ==
    \A r \in Requests : place[r] = "done" =>
        answers[r] = IF goesAsync[r] \/ timedOut[r] THEN <<"accepted">>
                                                    ELSE <<"result">>

(* A queueing request that was turned away left no timer behind that would *)
(* promise a task after the 503, and no request has an answer and a timer  *)
(* unless its processing failed (the catch of process()).                  *)
NoTimerAfterAnswer ==
    \A r \in Requests : timer[r] /\ answers[r] # <<>> => place[r] = "failed"

(* Every request that arrives is answered, however long the queue is and   *)
(* whatever fails: the timer answers for those that wait (processSync).    *)
EveryoneAnswered ==
    \A r \in Requests : (place[r] # "new") ~> (answers[r] # <<>>)

=============================================================================
