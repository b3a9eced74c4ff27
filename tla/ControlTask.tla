----------------------------- MODULE ControlTask -----------------------------
(***************************************************************************)
(* The asynchronous tasks that AS3 has the device run: the CLI script of a *)
(* tenant (Update.runScript), the save of the configuration                *)
(* (persistConfig), the launch of a config-sync (configSync), all of them  *)
(* a POST that creates the task and a PUT that starts it, and the job that *)
(* deploys a tenant through a BIG-IQ (bigiq.js), which the POST starts.    *)
(* A task other than a config-sync is polled until it has ended.           *)
(*                                                                         *)
(* The device runs the tasks, forgets those that have ended and answers a  *)
(* request, or fails to, as it likes.                                      *)
(***************************************************************************)
EXTENDS HttpRequest, Sequences

CONSTANTS Retries,   \* polls after the first: 60 of a script, 120 of a save
          JobWait    \* interval, maxInterval and timeout of bigiq.js

ASSUME TaskAssumption ==
    /\ Retries \in Nat
    /\ JobWait.interval \in Nat \ {0} /\ JobWait.maxInterval \in Nat /\ JobWait.timeout \in Nat

VARIABLES run,        \* the task as AS3 sees it
          tasks,      \* the states of the tasks on the device
          forgotten   \* those whose record the device has dropped

vars == <<httpVars, run, tasks, forgotten>>

Kinds      == {"script", "save", "sync", "job"}
TaskStates == {"CREATED", "VALIDATING", "COMPLETED", "FAILED"}
Outcomes   == {"none", "done", "warning", "failed", "timedOut"}

Init ==
    /\ HttpInit
    /\ \E kind \in Kinds :
          run = [kind     |-> kind,
                 step     |-> "idle",
                 id       |-> 0,                  \* the task, 0 before it is known
                 retries  |-> Retries,            \* remainingRetries of the poll
                 frames   |-> <<>>,               \* those of the polls that wait for it
                 polls    |-> 0,                  \* answers to polls
                 interval |-> JobWait.interval,
                 waited   |-> 0,                  \* wait.timeout, counted up
                 outcome  |-> "none"]
    /\ tasks = <<>>
    /\ forgotten = {}

Unserved == UNCHANGED <<tasks, forgotten>>

-----------------------------------------------------------------------------
(* The device *)

(* A reply that the code asks for by its text: TimeoutException, 400, 504; *)
(* "Connection refused" of the server of the device; anything else.        *)
Troubles == {"transient", "refused", "other"}
Trouble(of) == [is |-> "error", of |-> of]

First == http.host = "first" /\ http.phase = "sent"

Create ==
    /\ First /\ http.what = "create" /\ http.method = "POST"
    /\ tasks' = Append(tasks, IF run.kind = "job" THEN "VALIDATING" ELSE "CREATED")
    /\ \/ Serve([is |-> "task", id |-> Len(tasks')])
       \/ Serve(Trouble("transient"))
    /\ UNCHANGED <<run, forgotten>>

Launch ==
    /\ First /\ http.what = "start" /\ http.method = "PUT"
    /\ tasks' = [tasks EXCEPT ![run.id] = IF @ = "CREATED" THEN "VALIDATING" ELSE @]
    /\ \/ Serve([is |-> "task", id |-> run.id])
       \/ Serve(Trouble("transient"))
    /\ UNCHANGED <<run, forgotten>>

Report ==
    /\ First /\ http.what = "poll"
    /\ Serve(IF run.id \in forgotten THEN Trouble("notFound")
             ELSE [is |-> "state", state |-> tasks[run.id]])
    /\ UNCHANGED run /\ Unserved

(* An error of the device, or of the host that the request was redirected  *)
(* to.  So ends what a redirect made a GET: its reply has no task.         *)
Refuse ==
    /\ \E of \in Troubles : Serve(Trouble(of))
    /\ UNCHANGED run /\ Unserved

End ==
    /\ \E i \in DOMAIN tasks, state \in {"COMPLETED", "FAILED"} :
          tasks[i] = "VALIDATING" /\ tasks' = [tasks EXCEPT ![i] = state]
    /\ UNCHANGED <<httpVars, run, forgotten>>

Forget ==
    /\ \E i \in DOMAIN tasks \ forgotten :
          tasks[i] \in {"COMPLETED", "FAILED"} /\ forgotten' = forgotten \cup {i}
    /\ UNCHANGED <<httpVars, run, tasks>>

Device == Create \/ Launch \/ Report \/ Refuse \/ End \/ Forget
Network == (Send \/ Deliver \/ NetworkError \/ Redirected \/ Busy) /\ UNCHANGED run /\ Unserved

-----------------------------------------------------------------------------
(* AS3 *)

Resolved == http.phase = "resolved"
Rejected == http.phase = "rejected"

Finish(outcome) ==
    /\ run' = [run EXCEPT !.step = "end", !.outcome = outcome]
    /\ http' = Idle
    /\ UNCHANGED detours

Ask(what, method) == Request(what, method) /\ UNCHANGED detours

Begin ==
    /\ run.step = "idle"
    /\ run' = [run EXCEPT !.step = "create"]
    /\ Ask("create", "POST")
    /\ Unserved

Created ==
    /\ run.step = "create" /\ Resolved
    /\ run' = [run EXCEPT !.id = http.result.id, !.step = IF run.kind = "job" THEN "poll" ELSE "start"]
    /\ IF run.kind = "job" THEN Ask("poll", "GET") ELSE Ask("start", "PUT")
    /\ Unserved

Started ==
    /\ run.step = "start" /\ Resolved
    /\ IF run.kind = "sync"
       THEN Finish("done")
       ELSE Ask("poll", "GET") /\ run' = [run EXCEPT !.step = "poll"]
    /\ Unserved

(* Mutant of Abandoned: a task that was not started is created anew. *)
CreatedAnew ==
    /\ run.step \in {"create", "start"} /\ Rejected
    /\ IF run.step = "start"
       THEN Ask("create", "POST") /\ run' = [run EXCEPT !.step = "create"]
       ELSE Finish("failed")
    /\ Unserved

Abandoned ==
    /\ run.step \in {"create", "start"} /\ Rejected
    /\ Finish("failed")
    /\ Unserved

PollAgain(retries, frames) ==
    /\ run' = [run EXCEPT !.retries = retries, !.frames = frames, !.polls = @ + 1]
    /\ Ask("poll", "GET")

(* Errors after which a poll is repeated.                                  *)
IsAllowedError(of) == of = "transient" \/ (of = "refused" /\ run.kind = "save")

Patience == Append(run.frames, run.retries)

Patient == {i \in DOMAIN Patience : Patience[i] > 0}

(* Mutant of Raise: the poll is repeated with the retries it had. *)
RaiseForEver(of) ==
    IF IsAllowedError(of) /\ Patient # {}
    THEN LET i == CHOOSE j \in Patient : \A k \in Patient : k <= j
         IN  PollAgain(Patience[i], SubSeq(Patience, 1, i - 1))
    ELSE Finish(IF of = "notFound" /\ run.kind = "save" THEN "warning" ELSE "failed")

(* An error goes through the catch of the poll and of every poll that      *)
(* waits for it: the first with retries left polls again.                  *)
Raise(of) ==
    IF IsAllowedError(of) /\ Patient # {}
    THEN LET i == CHOOSE j \in Patient : \A k \in Patient : k <= j
         IN  PollAgain(Patience[i] - 1, SubSeq(Patience, 1, i - 1))
    ELSE Finish(IF of = "notFound" /\ run.kind = "save" THEN "warning" ELSE "failed")

(* Mutant of Polled: only VALIDATING is looked at. *)
PolledCarelessly ==
    /\ run.step = "poll" /\ run.kind # "job" /\ Resolved
    /\ IF http.result.state # "VALIDATING" THEN Finish("done")
       ELSE IF run.retries > 0 THEN PollAgain(run.retries - 1, Patience)
       ELSE Raise("slow")
    /\ Unserved

(* waitForCompletion                                                       *)
Polled ==
    /\ run.step = "poll" /\ run.kind # "job" /\ Resolved
    /\ CASE http.result.state = "VALIDATING" ->
                IF run.retries > 0 THEN PollAgain(run.retries - 1, Patience) ELSE Raise("slow")
         [] http.result.state = "FAILED" -> Raise("failed")
         [] OTHER -> Finish("done")
    /\ Unserved

PollFailed ==
    /\ run.step = "poll" /\ run.kind # "job" /\ Rejected
    /\ Raise(http.result.of)
    /\ Unserved

JobWaited ==
    /\ Ask("poll", "GET")
    /\ run' = [run EXCEPT !.waited = @ + run.interval,
                          !.interval = IF 2 * @ > JobWait.maxInterval THEN JobWait.maxInterval ELSE 2 * @]

(* waitForCompletion of a job: an answer after the timeout counts for      *)
(* nothing, and no error is caught.                                        *)
JobPolled ==
    /\ run.step = "poll" /\ run.kind = "job" /\ (Resolved \/ Rejected)
    /\ CASE Rejected -> Finish("failed")
         [] Resolved /\ run.waited > JobWait.timeout -> Finish("timedOut")
         [] OTHER -> CASE http.result.state = "COMPLETED" -> Finish("done")
                       [] http.result.state = "FAILED"    -> Finish("failed")
                       [] OTHER                           -> JobWaited
    /\ Unserved

AS3 == Begin \/ Created \/ Started \/ Abandoned \/ Polled \/ PollFailed \/ JobPolled

Ended == run.step = "end" /\ UNCHANGED vars

Next == AS3 \/ Network \/ Device \/ Ended

(* AS3 takes its steps and a request is answered, fails or times out.      *)
(* Nothing makes the device end a task.                                    *)
Fairness == WF_vars(AS3 \/ Network \/ Create \/ Launch \/ Report \/ Refuse)

Spec == Init /\ [][Next]_vars /\ Fairness

-----------------------------------------------------------------------------

(* Success is reported only of a task that the device completed, whatever  *)
(* was lost, repeated or forgotten on the way: the declaration of a tenant *)
(* is stored because of it.                                                *)
DoneMeansCompleted ==
    (run.outcome = "done" /\ run.kind # "sync") => tasks[run.id] = "COMPLETED"

(* A POST whose reply was lost is sent again and leaves a second task, but *)
(* no more than one task is ever started: a tenant's script, whose content *)
(* the next tenant overwrites, does not run twice.                         *)
OnlyOneStarted ==
    run.kind # "job" => \A i, j \in DOMAIN tasks :
                           (tasks[i] # "CREATED" /\ tasks[j] # "CREATED") => i = j

(* The polls end, though not after Retries + 1 of them: a poll that fails  *)
(* is repeated by the poll that waits for it too.                          *)
PollsAreBounded == run.polls < 2 ^ (Retries + 1)

(* Whoever waits for the task is told of its end, of an error or of the    *)
(* end of the retries, even if the device never ends the task.             *)
TaskEnds == <>(run.step = "end")
=============================================================================
