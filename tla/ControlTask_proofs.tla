-------------------------- MODULE ControlTask_proofs --------------------------
(***************************************************************************)
(* What AS3 may believe of a task on the device, and how often it asks,    *)
(* for every number of retries, redirects, 503s and network errors.        *)
(***************************************************************************)
EXTENDS ControlTask, FiniteSetTheorems, SequenceTheorems, TLAPS

HttpFields == {"phase", "what", "method", "redirects", "netErrors", "followed", "host",
               "tokens", "result"}
RunFields  == {"kind", "step", "id", "retries", "frames", "polls", "interval", "waited",
               "outcome"}
Asking     == {"create", "start", "poll"}

(* A reply that is not an error.                                           *)
Good(result) == result.is # "error"

Answered == http.phase \in {"served", "resolved"} /\ Good(http.result)

TaskTypeInv ==
    /\ DOMAIN http = HttpFields /\ DOMAIN run = RunFields
    /\ http.phase \in Phases /\ http.host \in Hosts /\ http.tokens \in BOOLEAN
    /\ run.kind \in Kinds /\ run.step \in Asking \cup {"idle", "end"}
    /\ tasks \in Seq(TaskStates)

(* The request is the one of the step, a rejection excepted every end of   *)
(* it is good, and the tokens are those of the first host.                 *)
AskedInv ==
    /\ run.step \in Asking => http.what = run.step
    /\ run.step \notin Asking => http.phase = "idle"
    /\ http.phase = "resolved" => Good(http.result)
    /\ TokensStayWithHost

(* What the reply of each step tells about the tasks, from the moment at   *)
(* which the device makes it, whatever the device does meanwhile.          *)
ReplyInv ==
    /\ (Answered /\ run.step = "create") => http.result.id \in DOMAIN tasks
    /\ (Answered /\ run.step = "start")  => tasks[run.id] # "CREATED"
    /\ (Answered /\ run.step = "poll")   =>
          /\ http.result.state \in TaskStates \ {"CREATED"}
          /\ http.result.state = "COMPLETED" => tasks[run.id] = "COMPLETED"

(* Of the tasks that requests sent twice have left, only the one that AS3  *)
(* knows is started.                                                       *)
StartInv ==
    /\ run.step \in {"start", "poll"} => run.id \in DOMAIN tasks
    /\ run.step = "start" => run.kind # "job"
    /\ run.step = "poll" => tasks[run.id] # "CREATED"
    /\ run.kind = "job" => \A i \in DOMAIN tasks : tasks[i] # "CREATED"
    /\ run.kind # "job" =>
          \A i \in DOMAIN tasks :
             tasks[i] # "CREATED" => i = run.id /\ run.step \notin {"idle", "create"}
    /\ run.outcome = "done" => /\ run.step = "end"
                               /\ run.kind # "sync" => /\ run.id \in DOMAIN tasks
                                                       /\ tasks[run.id] = "COMPLETED"

TaskInv == TaskTypeInv /\ AskedInv /\ ReplyInv /\ StartInv

LEMMA TaskInit == Init => TaskInv
  <1> SUFFICES ASSUME Init PROVE TaskInv
    OBVIOUS
  <1>1. /\ DOMAIN run = RunFields /\ run.kind \in Kinds
        /\ run.step = "idle" /\ run.outcome = "none"
    BY DEF Init, RunFields
  <1>2. /\ DOMAIN http = HttpFields /\ http.phase = "idle" /\ http.host = "first"
        /\ http.tokens = TRUE
    BY DEF Init, HttpInit, Idle, HttpFields
  <1>3. tasks \in Seq(TaskStates) /\ DOMAIN tasks = {}
    BY DEF Init
  <1> QED
    BY <1>1, <1>2, <1>3 DEF TaskInv, TaskTypeInv, AskedInv, ReplyInv, StartInv, Phases, Hosts,
                            Asking, TokensStayWithHost, Answered

-----------------------------------------------------------------------------
(* The network and the device *)

(* What a step of the network or the device does to the request.           *)
LEMMA NetworkStep ==
    ASSUME TaskInv, Network
    PROVE  TaskInv'
  <1> USE DEF TaskInv, TaskTypeInv, AskedInv, ReplyInv, StartInv, Answered, Good,
              TokensStayWithHost
  <1>1. UNCHANGED <<run, tasks>> /\ run.step \in Asking
    BY DEF Network, Unserved, Send, Deliver, NetworkError, Redirected, Busy
  <1>2. /\ DOMAIN http' = HttpFields
        /\ http'.phase \in Phases /\ http'.host \in Hosts /\ http'.tokens \in BOOLEAN
        /\ http'.what = http.what
        /\ http'.tokens => http'.host = "first"
        /\ http'.phase = "resolved" => http'.result.is # "error"
        /\ http'.phase \in {"served", "resolved"} =>
              http'.result = http.result /\ http.phase \in {"served", "resolved"}
    <2> USE DEF HttpFields, Phases, Hosts
    <2>1. CASE Send
      BY <2>1 DEF Send
    <2>2. CASE Deliver
      BY <2>2 DEF Deliver
    <2>3. CASE NetworkError
      BY <2>3 DEF NetworkError
    <2>4. CASE Redirected
      BY <2>4 DEF Redirected, Follow
    <2>5. CASE Busy
      BY <2>5 DEF Busy, Follow
    <2> QED
      BY <2>1, <2>2, <2>3, <2>4, <2>5 DEF Network
  <1> QED
    BY <1>1, <1>2

(* A request that is served keeps its place, and has the reply.            *)
LEMMA Served ==
    ASSUME TaskInv, http.phase = "sent", NEW reply, Serve(reply)
    PROVE  /\ DOMAIN http' = HttpFields
           /\ http'.phase = "served" /\ http'.result = reply
           /\ UNCHANGED <<http.what, http.host, http.tokens>>
  BY DEF TaskInv, TaskTypeInv, Serve, HttpFields

LEMMA TaskAppended ==
    ASSUME NEW s \in Seq(TaskStates), NEW state \in TaskStates
    PROVE  /\ Append(s, state) \in Seq(TaskStates)
           /\ DOMAIN s \subseteq DOMAIN Append(s, state)
           /\ Len(Append(s, state)) \in DOMAIN Append(s, state)
           /\ \A i \in DOMAIN s : Append(s, state)[i] = s[i]
           /\ \A i \in DOMAIN Append(s, state) : i \notin DOMAIN s => Append(s, state)[i] = state
  <1>1. /\ Append(s, state) \in Seq(TaskStates)
        /\ Len(Append(s, state)) = Len(s) + 1
        /\ \A i \in 1..Len(s) : Append(s, state)[i] = s[i]
        /\ Append(s, state)[Len(s) + 1] = state
    BY AppendProperties
  <1>2. DOMAIN s = 1..Len(s) /\ DOMAIN Append(s, state) = 1..(Len(s) + 1) /\ Len(s) \in Nat
    BY <1>1
  <1> QED
    BY <1>1, <1>2

LEMMA DeviceStep ==
    ASSUME TaskInv, Device
    PROVE  TaskInv'
  <1> USE DEF TaskInv
  <1>1. ASSUME NEW reply, Serve(reply), http.phase = "sent", UNCHANGED run
        PROVE  /\ AskedInv'
               /\ DOMAIN http' = HttpFields /\ http'.phase \in Phases
               /\ http'.host \in Hosts /\ http'.tokens \in BOOLEAN
               /\ run.step \in Asking
    BY <1>1, Served DEF AskedInv, TaskTypeInv, TokensStayWithHost, Phases
  <1>2. CASE Create
    <2> DEFINE state == IF run.kind = "job" THEN "VALIDATING" ELSE "CREATED"
    <2>1. /\ http.phase = "sent" /\ http.what = "create" /\ UNCHANGED run
          /\ tasks' = Append(tasks, state)
          /\ \/ Serve([is |-> "task", id |-> Len(tasks')])
             \/ Serve(Trouble("transient"))
      BY <1>2 DEF Create, First
    <2>2. state \in TaskStates
      BY DEF TaskStates
    <2>3. run.step = "create"
      BY <2>1 DEF AskedInv, TaskTypeInv, Asking
    <2> HIDE DEF state
    <2>4. /\ tasks' \in Seq(TaskStates)
          /\ DOMAIN tasks \subseteq DOMAIN tasks'
          /\ Len(tasks') \in DOMAIN tasks'
          /\ \A i \in DOMAIN tasks : tasks'[i] = tasks[i]
          /\ \A i \in DOMAIN tasks' : i \notin DOMAIN tasks => tasks'[i] = state
      BY <2>1, <2>2, TaskAppended DEF TaskTypeInv
    <2>5. AskedInv' /\ TaskTypeInv'
      BY <1>1, <2>1, <2>4 DEF TaskTypeInv
    <2>6. ReplyInv'
      BY <2>1, <2>3, <2>4, Served DEF ReplyInv, Answered, Good, Trouble
    <2>7. StartInv'
      BY <2>1, <2>3, <2>4 DEF StartInv, state
    <2> QED
      BY <2>5, <2>6, <2>7
  <1>3. CASE Launch
    <2>1. /\ http.phase = "sent" /\ http.what = "start" /\ UNCHANGED run
          /\ tasks' = [tasks EXCEPT ![run.id] = IF @ = "CREATED" THEN "VALIDATING" ELSE @]
          /\ \/ Serve([is |-> "task", id |-> run.id])
             \/ Serve(Trouble("transient"))
      BY <1>3 DEF Launch, First
    <2>2. run.step = "start" /\ run.id \in DOMAIN tasks /\ run.kind # "job"
      BY <2>1 DEF AskedInv, StartInv, TaskTypeInv, Asking
    <2>3. /\ tasks' \in Seq(TaskStates) /\ DOMAIN tasks' = DOMAIN tasks
          /\ tasks'[run.id] # "CREATED"
          /\ \A i \in DOMAIN tasks : i # run.id => tasks'[i] = tasks[i]
      BY <2>1, <2>2 DEF TaskTypeInv, TaskStates
    <2>4. AskedInv' /\ TaskTypeInv'
      BY <1>1, <2>1, <2>3 DEF TaskTypeInv
    <2>5. ReplyInv'
      BY <2>1, <2>2, <2>3 DEF ReplyInv
    <2>6. StartInv'
      BY <2>1, <2>2, <2>3 DEF StartInv
    <2> QED
      BY <2>4, <2>5, <2>6
  <1>4. CASE Report
    <2> DEFINE reply == IF run.id \in forgotten THEN Trouble("notFound")
                        ELSE [is |-> "state", state |-> tasks[run.id]]
    <2>1. /\ http.phase = "sent" /\ http.what = "poll" /\ UNCHANGED <<run, tasks>>
          /\ Serve(reply)
      BY <1>4 DEF Report, First, Unserved
    <2>2. run.step = "poll" /\ run.id \in DOMAIN tasks /\ tasks[run.id] # "CREATED"
      BY <2>1 DEF AskedInv, StartInv, TaskTypeInv, Asking
    <2>3. tasks[run.id] \in TaskStates
      BY <2>2 DEF TaskTypeInv
    <2>4. AskedInv' /\ TaskTypeInv'
      BY <1>1, <2>1 DEF TaskTypeInv
    <2>5. http'.result = reply
      BY <2>1, Served
    <2>6. ReplyInv'
      BY <2>1, <2>2, <2>3, <2>5 DEF ReplyInv, Answered, Good, Trouble
    <2>7. StartInv'
      BY <2>1 DEF StartInv
    <2> QED
      BY <2>4, <2>6, <2>7
  <1>5. CASE Refuse
    <2>1. PICK of \in Troubles : Serve(Trouble(of))
      BY <1>5 DEF Refuse
    <2>2. http.phase = "sent" /\ UNCHANGED <<run, tasks>>
      BY <1>5, <2>1 DEF Refuse, Serve, Unserved
    <2>3. http'.result.is = "error"
      BY <2>1, <2>2, Served DEF Trouble
    <2>4. AskedInv' /\ TaskTypeInv'
      BY <1>1, <2>1, <2>2 DEF TaskTypeInv
    <2> QED
      BY <2>2, <2>3, <2>4 DEF ReplyInv, StartInv, Answered, Good
  <1>6. CASE End
    <2>1. PICK i \in DOMAIN tasks, state \in {"COMPLETED", "FAILED"} :
             tasks[i] = "VALIDATING" /\ tasks' = [tasks EXCEPT ![i] = state]
      BY <1>6 DEF End
    <2>2. /\ tasks' \in Seq(TaskStates) /\ DOMAIN tasks' = DOMAIN tasks
          /\ \A j \in DOMAIN tasks : tasks'[j] = "CREATED" <=> tasks[j] = "CREATED"
          /\ \A j \in DOMAIN tasks : tasks[j] = "COMPLETED" => tasks'[j] = "COMPLETED"
      BY <2>1 DEF TaskTypeInv, TaskStates
    <2>3. UNCHANGED <<http, run>>
      BY <1>6 DEF End, httpVars
    <2>4. AskedInv' /\ TaskTypeInv'
      BY <2>2, <2>3 DEF AskedInv, TaskTypeInv, TokensStayWithHost
    <2>5. StartInv'
      BY <2>2, <2>3 DEF StartInv
    <2>6. ReplyInv'
      <3>1. run.step \in {"start", "poll"} => run.id \in DOMAIN tasks
        BY DEF StartInv
      <3> QED
        BY <2>2, <2>3, <3>1 DEF ReplyInv, Answered, Good
    <2> QED
      BY <2>4, <2>5, <2>6
  <1>7. CASE Forget
    BY <1>7 DEF Forget, httpVars, TaskTypeInv, AskedInv, ReplyInv, StartInv, Answered, Good,
                TokensStayWithHost
  <1> QED
    BY <1>2, <1>3, <1>4, <1>5, <1>6, <1>7 DEF Device

-----------------------------------------------------------------------------
(* AS3 *)

LEMMA RequestIs ==
    ASSUME NEW what, NEW method, Ask(what, method)
    PROVE  /\ DOMAIN http' = HttpFields
           /\ http'.phase = "send" /\ http'.what = what
           /\ http'.host = "first" /\ http'.tokens = TRUE
  BY DEF Ask, Request, Idle, HttpFields

LEMMA IdleIs ==
    /\ DOMAIN Idle = HttpFields
    /\ Idle.phase = "idle" /\ Idle.host = "first" /\ Idle.tokens = TRUE
  BY DEF Idle, HttpFields

(* A task that is given up, or is done as far as AS3 may tell.             *)
LEMMA FinishStep ==
    ASSUME TaskInv, run.step \in Asking, NEW outcome \in Outcomes \ {"none"}, Finish(outcome),
           UNCHANGED tasks,
           outcome = "done" /\ run.kind # "sync" =>
              run.id \in DOMAIN tasks /\ tasks[run.id] = "COMPLETED"
    PROVE  TaskInv'
  <1> USE DEF TaskInv, TaskTypeInv, StartInv
  <1>1. /\ DOMAIN run' = RunFields /\ UNCHANGED <<run.kind, run.id>>
        /\ run'.step = "end" /\ run'.outcome = outcome
    BY DEF Finish, RunFields
  <1>2. http' = Idle
    BY DEF Finish
  <1>3. TaskTypeInv' /\ AskedInv' /\ ReplyInv'
    BY <1>1, <1>2, IdleIs DEF AskedInv, ReplyInv, Answered, TokensStayWithHost, Asking, Phases,
                              Hosts
  <1>4. StartInv'
    <2>1. ASSUME run.kind # "job", NEW i \in DOMAIN tasks, tasks[i] # "CREATED"
          PROVE  i = run.id
      BY <2>1
    <2> QED
      BY <1>1, <2>1
  <1> QED
    BY <1>3, <1>4

(* A task that is asked for once more, or for its next step.               *)
LEMMA AskStep ==
    ASSUME TaskInv, NEW what \in Asking, NEW method, Ask(what, method), UNCHANGED tasks,
           DOMAIN run' = RunFields, UNCHANGED <<run.kind, run.outcome>>,
           run.step # "end", run'.step = what,
           what # "create" => run'.id \in DOMAIN tasks,
           what = "start" => run.kind # "job",
           what = "poll" => tasks[run'.id] # "CREATED",
           run.kind # "job" => \A i \in DOMAIN tasks :
                                  tasks[i] # "CREATED" => i = run'.id /\ what # "create"
    PROVE  TaskInv'
  <1> USE DEF TaskInv, TaskTypeInv, StartInv
  <1>1. /\ DOMAIN http' = HttpFields
        /\ http'.phase = "send" /\ http'.what = what
        /\ http'.host = "first" /\ http'.tokens = TRUE
    BY RequestIs
  <1>2. TaskTypeInv' /\ AskedInv' /\ ReplyInv'
    BY <1>1 DEF AskedInv, ReplyInv, Answered, TokensStayWithHost, Asking, Phases, Hosts
  <1>3. StartInv'
    BY DEF Asking
  <1> QED
    BY <1>2, <1>3

(* The error of a poll polls again or gives up.                            *)
LEMMA RaiseStep ==
    ASSUME TaskInv, run.step = "poll", NEW of, Raise(of), UNCHANGED tasks
    PROVE  TaskInv'
  <1>1. ASSUME NEW retries, NEW frames, PollAgain(retries, frames)
        PROVE  TaskInv'
    <2>1. /\ DOMAIN run' = RunFields
          /\ UNCHANGED <<run.kind, run.outcome, run.id, run.step>>
      BY <1>1 DEF PollAgain, TaskInv, TaskTypeInv, RunFields
    <2>2. Ask("poll", "GET")
      BY <1>1 DEF PollAgain
    <2>3. run.id \in DOMAIN tasks /\ tasks[run.id] # "CREATED"
      BY DEF TaskInv, StartInv
    <2>4. run.kind # "job" => \A i \in DOMAIN tasks : tasks[i] # "CREATED" => i = run.id
      BY DEF TaskInv, StartInv
    <2> QED
      BY <2>1, <2>2, <2>3, <2>4, AskStep DEF Asking
  <1>2. ASSUME NEW outcome \in {"warning", "failed"}, Finish(outcome)
        PROVE  TaskInv'
    BY <1>2, FinishStep DEF Outcomes, Asking
  <1>3. \/ \E retries, frames : PollAgain(retries, frames)
        \/ \E outcome \in {"warning", "failed"} : Finish(outcome)
    BY DEF Raise
  <1> QED
    BY <1>1, <1>2, <1>3

LEMMA ResolvedIsGood ==
    ASSUME TaskInv, Resolved
    PROVE  Answered
  BY DEF TaskInv, AskedInv, Resolved, Answered

LEMMA AS3Step ==
    ASSUME TaskInv, AS3
    PROVE  TaskInv'
  <1>1. UNCHANGED tasks
    BY DEF AS3, Begin, Created, Started, Abandoned, Polled, PollFailed, JobPolled, Unserved
  <1>2. run.kind # "job" =>
           \A i \in DOMAIN tasks :
              tasks[i] # "CREATED" => i = run.id /\ run.step \notin {"idle", "create"}
    BY DEF TaskInv, StartInv
  <1>3. CASE Begin
    <2>1. /\ DOMAIN run' = RunFields /\ UNCHANGED <<run.kind, run.outcome>>
          /\ run.step = "idle" /\ run'.step = "create" /\ Ask("create", "POST")
      BY <1>3 DEF Begin, TaskInv, TaskTypeInv, RunFields
    <2> QED
      BY <1>1, <1>2, <2>1, AskStep DEF Asking
  <1>4. CASE Created
    <2> DEFINE next == IF run.kind = "job" THEN "poll" ELSE "start"
    <2>1. /\ DOMAIN run' = RunFields /\ UNCHANGED <<run.kind, run.outcome>>
          /\ run.step = "create" /\ run'.step = next /\ run'.id = http.result.id
      BY <1>4 DEF Created, TaskInv, TaskTypeInv, RunFields
    <2>2. \E method : Ask(next, method)
      BY <1>4 DEF Created
    <2>3. run'.id \in DOMAIN tasks
      BY <1>4, <2>1, ResolvedIsGood DEF Created, TaskInv, ReplyInv
    <2>4. next = "poll" => tasks[run'.id] # "CREATED"
      BY <2>3 DEF TaskInv, StartInv
    <2>5. next \in Asking /\ next # "create" /\ (next = "start" => run.kind # "job")
      BY DEF Asking
    <2> HIDE DEF next
    <2> QED
      BY <1>1, <1>2, <2>1, <2>2, <2>3, <2>4, <2>5, AskStep
  <1>5. CASE Started
    <2>1. run.step = "start" /\ run.id \in DOMAIN tasks /\ tasks[run.id] # "CREATED"
      BY <1>5, ResolvedIsGood DEF Started, TaskInv, ReplyInv, StartInv
    <2>2. CASE run.kind = "sync"
      BY <1>1, <1>5, <2>1, <2>2, FinishStep DEF Started, Asking, Outcomes
    <2>3. CASE run.kind # "sync"
      <3>1. /\ DOMAIN run' = RunFields /\ UNCHANGED <<run.kind, run.outcome, run.id>>
            /\ run'.step = "poll" /\ Ask("poll", "GET")
        BY <1>5, <2>3 DEF Started, TaskInv, TaskTypeInv, RunFields
      <3> QED
        BY <1>1, <1>2, <2>1, <3>1, AskStep DEF Asking
    <2> QED
      BY <2>2, <2>3
  <1>6. CASE Abandoned
    BY <1>1, <1>6, FinishStep DEF Abandoned, Asking, Outcomes
  <1>7. ASSUME run.step = "poll", Resolved
        PROVE  /\ http.result.state \in TaskStates \ {"CREATED"}
               /\ http.result.state = "COMPLETED" =>
                     run.id \in DOMAIN tasks /\ tasks[run.id] = "COMPLETED"
    BY <1>7, ResolvedIsGood DEF TaskInv, ReplyInv, StartInv
  <1>8. ASSUME run.step = "poll", Ask("poll", "GET"), DOMAIN run' = RunFields,
               UNCHANGED <<run.kind, run.outcome, run.id, run.step>>
        PROVE  TaskInv'
    <2>1. run.id \in DOMAIN tasks /\ tasks[run.id] # "CREATED"
      BY <1>8 DEF TaskInv, StartInv
    <2> QED
      BY <1>1, <1>2, <1>8, <2>1, AskStep DEF Asking
  <1>9. CASE Polled
    <2>1. run.step = "poll" /\ Resolved
      BY <1>9 DEF Polled
    <2>2. CASE http.result.state = "VALIDATING"
      <3>1. CASE PollAgain(run.retries - 1, Patience)
        <4>1. /\ Ask("poll", "GET") /\ DOMAIN run' = RunFields
              /\ UNCHANGED <<run.kind, run.outcome, run.id, run.step>>
          BY <3>1 DEF PollAgain, TaskInv, TaskTypeInv, RunFields
        <4> QED
          BY <1>8, <2>1, <4>1
      <3>2. CASE Raise("slow")
        BY <1>1, <2>1, <3>2, RaiseStep
      <3> QED
        BY <1>9, <2>2, <3>1, <3>2 DEF Polled
    <2>3. CASE http.result.state = "FAILED"
      BY <1>1, <1>9, <2>1, <2>3, RaiseStep DEF Polled
    <2>4. CASE http.result.state = "COMPLETED"
      <3>1. Finish("done")
        BY <1>9, <2>4 DEF Polled
      <3> QED
        BY <1>1, <1>7, <2>1, <2>4, <3>1, FinishStep DEF Asking, Outcomes
    <2> QED
      BY <1>7, <2>1, <2>2, <2>3, <2>4 DEF TaskStates
  <1>10. CASE PollFailed
    BY <1>1, <1>10, RaiseStep DEF PollFailed
  <1>11. CASE JobPolled
    <2>1. run.step = "poll"
      BY <1>11 DEF JobPolled
    <2>2. \/ Finish("failed") \/ Finish("timedOut")
          \/ Resolved /\ http.result.state = "COMPLETED" /\ Finish("done")
          \/ JobWaited
      BY <1>11 DEF JobPolled, Resolved, Rejected
    <2>3. CASE Finish("failed") \/ Finish("timedOut")
      BY <1>1, <2>1, <2>3, FinishStep DEF Asking, Outcomes
    <2>4. CASE Resolved /\ http.result.state = "COMPLETED" /\ Finish("done")
      BY <1>1, <1>7, <2>1, <2>4, FinishStep DEF Asking, Outcomes
    <2>5. CASE JobWaited
      <3>1. /\ Ask("poll", "GET") /\ DOMAIN run' = RunFields
            /\ UNCHANGED <<run.kind, run.outcome, run.id, run.step>>
        BY <2>5 DEF JobWaited, TaskInv, TaskTypeInv, RunFields
      <3> QED
        BY <1>8, <2>1, <3>1
    <2> QED
      BY <2>2, <2>3, <2>4, <2>5
  <1> QED
    BY <1>3, <1>4, <1>5, <1>6, <1>9, <1>10, <1>11 DEF AS3

LEMMA TaskInvariant == Spec => []TaskInv
  <1>1. ASSUME TaskInv, [Next]_vars PROVE TaskInv'
    <2>1. CASE UNCHANGED vars
      BY <1>1, <2>1 DEF vars, httpVars, TaskInv, TaskTypeInv, AskedInv, ReplyInv, StartInv,
                        Answered, TokensStayWithHost
    <2> QED
      BY <1>1, <2>1, AS3Step, NetworkStep, DeviceStep DEF Next, Ended
  <1> QED
    BY <1>1, TaskInit, PTL DEF Spec

(* update.js: runScript, declarationHandler.js: persistConfig and          *)
(* bigiq.js: deployTenant.  A task that AS3 takes for done is one that the *)
(* device completed.                                                       *)
THEOREM DoneTasksWereCompleted == Spec => []DoneMeansCompleted
  <1>1. TaskInv => DoneMeansCompleted
    BY DEF TaskInv, StartInv, DoneMeansCompleted
  <1> QED
    BY <1>1, TaskInvariant, PTL

(* Of all the tasks that repeated POSTs create, one at most is started.    *)
THEOREM OneTaskRuns == Spec => []OnlyOneStarted
  <1>1. TaskInv => OnlyOneStarted
    BY DEF TaskInv, StartInv, OnlyOneStarted
  <1> QED
    BY <1>1, TaskInvariant, PTL

(* util.js: httpRequest.  However often a request is redirected, the       *)
(* tokens of the device go to no other host.                               *)
THEOREM TokensGoNowhereElse == Spec => []TokensStayWithHost
  BY TaskInvariant, PTL DEF TaskInv, AskedInv

-----------------------------------------------------------------------------
(* The number of polls *)

(* One element more doubles the subsets.                                   *)
LEMMA Doubled ==
    ASSUME NEW n \in Nat
    PROVE  2 ^ n \in Nat \ {0} /\ 2 ^ (n + 1) = 2 * 2 ^ n
  <1> DEFINE Low == SUBSET (1..n)
             High == {s \cup {n + 1} : s \in Low}
  <1>1. ASSUME NEW m \in Nat
        PROVE  IsFiniteSet(SUBSET (1..m)) /\ Cardinality(SUBSET (1..m)) = 2 ^ m
    <2>1. IsFiniteSet(1..m) /\ Cardinality(1..m) = m
      BY FS_Interval
    <2> QED
      BY <2>1, FS_SUBSET
  <1>2. SUBSET (1..(n + 1)) = Low \cup High
    <2>1. ASSUME NEW s \in SUBSET (1..(n + 1))
          PROVE  s \in Low \cup High
      <3>1. s \ {n + 1} \in Low
        BY <2>1
      <3>2. CASE n + 1 \in s
        <4>1. s = (s \ {n + 1}) \cup {n + 1}
          BY <3>2
        <4> QED
          BY <3>1, <4>1
      <3>3. CASE n + 1 \notin s
        BY <2>1, <3>3
      <3> QED
        BY <3>2, <3>3
    <2>2. 1..n \subseteq 1..(n + 1) /\ n + 1 \in 1..(n + 1)
      OBVIOUS
    <2>3. Low \subseteq SUBSET (1..(n + 1)) /\ High \subseteq SUBSET (1..(n + 1))
      BY <2>2, Zenon
    <2> HIDE DEF Low, High
    <2> QED
      BY <2>1, <2>3
  <1>3. Low \cap High = {}
    <2>1. \A s \in Low : n + 1 \notin s
      OBVIOUS
    <2>2. \A s \in High : n + 1 \in s
      OBVIOUS
    <2> QED
      BY <2>1, <2>2
  <1>4. IsFiniteSet(High) /\ Cardinality(High) = Cardinality(Low)
    <2> DEFINE f == [s \in Low |-> s \cup {n + 1}]
    <2>1. \A s, t \in Low : s \cup {n + 1} = t \cup {n + 1} => s = t
      <3>1. \A s \in Low : s = (s \cup {n + 1}) \ {n + 1}
        OBVIOUS
      <3> QED
        BY <3>1
    <2>2. f \in Bijection(Low, High)
      <3>1. f \in [Low -> High] /\ \A s \in Low : f[s] = s \cup {n + 1}
        OBVIOUS
      <3>2. \A s, t \in Low : f[s] = f[t] => s = t
        BY <2>1, <3>1, Zenon
      <3>3. \A x \in High : \E s \in Low : f[s] = x
        BY <3>1, Zenon
      <3> HIDE DEF f, Low, High
      <3> QED
        BY <3>1, <3>2, <3>3, Zenon DEF Bijection, Injection, Surjection, IsInjective
    <2>3. ExistsBijection(Low, High)
      BY <2>2, Zenon DEF ExistsBijection
    <2> QED
      BY <1>1, <2>3, FS_Bijection
  <1>5. IsFiniteSet(Low) /\ Cardinality(Low) = 2 ^ n /\ Cardinality(Low) \in Nat
    BY <1>1, FS_CardinalityType
  <1>6. Cardinality(Low) # 0
    BY <1>5, FS_EmptySet
  <1>7. Cardinality(Low \cup High) = 2 * Cardinality(Low)
    <2>1. Cardinality({}) = 0
      BY FS_EmptySet
    <2> HIDE DEF Low, High
    <2>2. Cardinality(Low \cup High)
             = Cardinality(Low) + Cardinality(High) - Cardinality(Low \cap High)
      BY <1>4, <1>5, FS_Union, Zenon
    <2>3. Cardinality(Low \cup High) = Cardinality(Low) + Cardinality(Low) - 0
      BY <1>3, <1>4, <2>1, <2>2, Zenon
    <2>4. \A c \in Nat : c + c - 0 = 2 * c
      OBVIOUS
    <2> QED
      BY <1>5, <2>3, <2>4, Zenon
  <1>8. Cardinality(Low \cup High) = 2 ^ (n + 1)
    <2>1. n + 1 \in Nat
      OBVIOUS
    <2> QED
      BY <1>1, <1>2, <2>1, Zenon
  <1> QED
    BY <1>5, <1>6, <1>7, <1>8

(* What the polls that wait may still cause: w[i] bounds the polls that    *)
(* the first i of them start again, each with one retry less than it had.  *)
Weighs(w, frames) ==
    /\ w \in [0..Len(frames) -> Nat]
    /\ \A i \in 1..Len(frames) : w[i - 1] + 2 ^ frames[i] <= w[i] + 1
    /\ \A i, j \in 0..Len(frames) : i <= j => w[i] <= w[j]

(* The poll under way may start 2 ^ (retries + 1) - 2 others.              *)
PollsInv ==
    /\ run.retries \in Nat /\ run.frames \in Seq(Nat) /\ run.polls \in Nat
    /\ \E w : /\ Weighs(w, run.frames)
              /\ run.polls + w[Len(run.frames)] + 2 ^ (run.retries + 1) <= 2 ^ (Retries + 1)

(* A poll that is answered waits for the next one, with a retry less.      *)
LEMMA PollWaits ==
    ASSUME NEW w, NEW frames \in Seq(Nat), Weighs(w, frames), NEW n \in Nat
    PROVE  \E v : /\ Weighs(v, Append(frames, n + 1))
                  /\ v[Len(frames) + 1] + 1 = w[Len(frames)] + 2 ^ (n + 1)
  <1> DEFINE k == Len(frames)
             last == w[k] + (2 ^ (n + 1) - 1)
             v == [i \in 0..(k + 1) |-> IF i = k + 1 THEN last ELSE w[i]]
             more == Append(frames, n + 1)
  <1>1. k \in Nat /\ w \in [0..k -> Nat]
    BY DEF Weighs
  <1>2. 2 ^ (n + 1) \in Nat \ {0}
    BY Doubled
  <1>3. last \in Nat /\ w[k] <= last /\ last + 1 = w[k] + 2 ^ (n + 1)
    <2> DEFINE p == 2 ^ (n + 1)
    <2>1. p \in Nat \ {0} /\ w[k] \in Nat
      BY <1>1, <1>2
    <2> HIDE DEF p
    <2>2. w[k] + (p - 1) \in Nat /\ w[k] <= w[k] + (p - 1) /\ w[k] + (p - 1) + 1 = w[k] + p
      BY <2>1
    <2> QED
      BY <2>2 DEF p
  <1>4. /\ Len(more) = k + 1 /\ more[k + 1] = n + 1
        /\ \A i \in 1..k : more[i] = frames[i]
    BY <1>1
  <1>5. \A i \in 0..k : v[i] = w[i] /\ w[i] \in Nat
    BY <1>1
  <1>6. v[k + 1] = last
    BY <1>1
  <1>7. v \in [0..(k + 1) -> Nat]
    BY <1>1, <1>3
  <1> HIDE DEF k, last, v, more
  <1>8. ASSUME NEW i \in 1..(k + 1)
        PROVE  v[i - 1] + 2 ^ more[i] <= v[i] + 1
    <2>1. CASE i = k + 1
      <3>1. v[i - 1] = w[k] /\ more[i] = n + 1 /\ v[i] = last
        BY <1>1, <1>4, <1>5, <1>6, <2>1
      <3> QED
        BY <1>1, <1>2, <1>3, <3>1
    <2>2. CASE i \in 1..k
      <3>1. v[i - 1] = w[i - 1] /\ v[i] = w[i] /\ more[i] = frames[i]
        BY <1>1, <1>4, <1>5, <2>2
      <3>2. w[i - 1] + 2 ^ frames[i] <= w[i] + 1
        BY <2>2 DEF Weighs, k
      <3> QED
        BY <3>1, <3>2
    <2> QED
      BY <1>1, <2>1, <2>2
  <1>9. ASSUME NEW i \in 0..(k + 1), NEW j \in 0..(k + 1), i <= j
        PROVE  v[i] <= v[j]
    <2>0. \A a, b \in 0..k : a <= b => w[a] <= w[b]
      BY DEF Weighs, k
    <2>1. CASE i = k + 1
      BY <1>1, <1>3, <1>6, <1>9, <2>1
    <2>2. CASE j = k + 1 /\ i \in 0..k
      <3>1. w[i] <= w[k] /\ w[k] \in Nat /\ w[i] \in Nat
        BY <1>1, <1>5, <2>0, <2>2
      <3>2. v[i] = w[i] /\ v[j] = last
        BY <1>5, <1>6, <2>2
      <3>3. \A a, b, c \in Nat : a <= b /\ b <= c => a <= c
        OBVIOUS
      <3> QED
        BY <1>3, <3>1, <3>2, <3>3, Zenon
    <2>3. CASE i \in 0..k /\ j \in 0..k
      BY <1>5, <1>9, <2>0, <2>3
    <2> QED
      BY <1>1, <2>1, <2>2, <2>3
  <1>10. Weighs(v, more)
    BY <1>4, <1>7, <1>8, <1>9 DEF Weighs
  <1> QED
    BY <1>3, <1>6, <1>10 DEF k, more

(* The first elements of a sequence.                                       *)
LEMMA PrefixIs ==
    ASSUME NEW s \in Seq(Nat), NEW i \in 1..Len(s)
    PROVE  /\ SubSeq(s, 1, i - 1) \in Seq(Nat) /\ Len(SubSeq(s, 1, i - 1)) = i - 1
           /\ \A j \in 1..(i - 1) : SubSeq(s, 1, i - 1)[j] = s[j]
  <1>1. Len(s) \in Nat /\ i \in Nat /\ 1 <= i /\ i <= Len(s)
    OBVIOUS
  <1>2. \A j \in 1..(i - 1) : j \in 1..Len(s)
    BY <1>1
  <1> QED
    BY <1>1, <1>2, SubSeqProperties

(* What waits for a poll that gives up, before the one that polls again.   *)
LEMMA PollsBefore ==
    ASSUME NEW w, NEW frames \in Seq(Nat), Weighs(w, frames), NEW i \in 1..Len(frames)
    PROVE  /\ SubSeq(frames, 1, i - 1) \in Seq(Nat) /\ Len(SubSeq(frames, 1, i - 1)) = i - 1
           /\ \E v : Weighs(v, SubSeq(frames, 1, i - 1)) /\ v[i - 1] = w[i - 1]
           /\ w[i] \in Nat /\ w[i - 1] \in Nat /\ w[Len(frames)] \in Nat
           /\ w[i] <= w[Len(frames)]
           /\ w[i - 1] + 2 ^ frames[i] <= w[i] + 1
  <1> DEFINE k == Len(frames)
             first == SubSeq(frames, 1, i - 1)
             v == [j \in 0..(i - 1) |-> w[j]]
  <1>1. k \in Nat /\ w \in [0..k -> Nat] /\ i \in Nat /\ 1 <= i /\ i <= k
    BY DEF Weighs
  <1>2. /\ first \in Seq(Nat) /\ Len(first) = i - 1
        /\ \A j \in 1..(i - 1) : first[j] = frames[j]
    BY PrefixIs
  <1>3. /\ w[i] \in Nat /\ w[i - 1] \in Nat /\ w[k] \in Nat /\ w[i] <= w[k]
        /\ w[i - 1] + 2 ^ frames[i] <= w[i] + 1
    <2>1. i \in 0..k /\ i - 1 \in 0..k /\ k \in 0..k
      BY <1>1
    <2>2. w[i] \in Nat /\ w[i - 1] \in Nat /\ w[k] \in Nat
      BY <1>1, <2>1
    <2>3. w[i] <= w[k]
      BY <1>1, <2>1 DEF Weighs
    <2>4. w[i - 1] + 2 ^ frames[i] <= w[i] + 1
      BY DEF Weighs
    <2> QED
      BY <2>2, <2>3, <2>4
  <1>4. \A j \in 0..(i - 1) : v[j] = w[j] /\ w[j] \in Nat
    BY <1>1
  <1>5. v \in [0..(i - 1) -> Nat] /\ v[i - 1] = w[i - 1]
    BY <1>1, <1>4
  <1> HIDE DEF first, v
  <1>6. Weighs(v, first)
    <2>1. ASSUME NEW j \in 1..(i - 1)
          PROVE  v[j - 1] + 2 ^ first[j] <= v[j] + 1
      <3>1. j \in 1..k /\ j - 1 \in 0..(i - 1) /\ j \in 0..(i - 1)
        BY <1>1
      <3>2. w[j - 1] + 2 ^ frames[j] <= w[j] + 1
        BY <3>1 DEF Weighs
      <3> QED
        BY <1>2, <1>4, <3>1, <3>2
    <2>2. ASSUME NEW a \in 0..(i - 1), NEW b \in 0..(i - 1), a <= b
          PROVE  v[a] <= v[b]
      BY <1>1, <1>4, <2>2 DEF Weighs
    <2> QED
      BY <1>2, <1>5, <2>1, <2>2 DEF Weighs
  <1> QED
    BY <1>2, <1>3, <1>5, <1>6 DEF first

(* Numbers below a bound have a greatest one.                              *)
LEMMA MaxExists ==
    ASSUME NEW n \in Nat, NEW S \in SUBSET (1..n), S # {}
    PROVE  \E j \in S : \A k \in S : k <= j
  <1> DEFINE above == {k..n : k \in S}
  <1>1. IsWellFoundedOn(StrictSubsetOrdering(0..n), SUBSET (0..n))
    <2>1. IsFiniteSet(0..n)
      BY FS_Interval
    <2> QED
      BY <2>1, FS_StrictSubsetOrderingWellFounded, FS_FiniteSubsetsOfFinite
  <1>2. above \subseteq SUBSET (0..n) /\ above # {}
    <2>1. \A k \in S : k..n \in SUBSET (0..n)
      OBVIOUS
    <2> QED
      BY <2>1, Zenon
  <1>3. \E x \in above : \A y \in above : ~ (<<y, x>> \in StrictSubsetOrdering(0..n))
    <2> HIDE DEF above
    <2> QED
      BY <1>1, <1>2, WFMin, Zenon
  <1>4. PICK j \in S : \A k \in S : ~ (<<k..n, j..n>> \in StrictSubsetOrdering(0..n))
    BY <1>3
  <1>5. ASSUME NEW k \in S, ~ (k <= j)
        PROVE  FALSE
    <2>1. k..n \subseteq j..n /\ j \in j..n /\ j \notin k..n
      BY <1>5
    <2>2. k..n \subseteq 0..n /\ j..n \subseteq 0..n
      OBVIOUS
    <2> QED
      BY <1>4, <2>1, <2>2 DEF StrictSubsetOrdering
  <1> QED
    BY <1>5

(* The first poll may be repeated by itself and by none that waits.        *)
LEMMA PollsInit == Init => PollsInv
  <1> SUFFICES ASSUME Init PROVE PollsInv
    OBVIOUS
  <1>1. run.retries = Retries /\ run.frames = <<>> /\ run.polls = 0
    BY DEF Init
  <1>2. Retries \in Nat /\ 2 ^ (Retries + 1) \in Nat
    BY TaskAssumption, Doubled
  <1> DEFINE w == [i \in 0..0 |-> 0]
  <1>3. Weighs(w, <<>>) /\ w[0] = 0
    BY DEF Weighs
  <1>4. 0 + w[0] + 2 ^ (Retries + 1) <= 2 ^ (Retries + 1)
    BY <1>2, <1>3
  <1> HIDE DEF w
  <1> QED
    BY <1>1, <1>2, <1>3, <1>4 DEF PollsInv

(* What polling again makes of the run.                                    *)
LEMMA AgainIs ==
    ASSUME TaskTypeInv, NEW retries, NEW frames, PollAgain(retries, frames)
    PROVE  /\ run'.retries = retries /\ run'.frames = frames
           /\ run'.polls = run.polls + 1
  BY DEF PollAgain, TaskTypeInv, RunFields

(* A task that is not ended is polled by a poll that has this one wait.    *)
LEMMA WaitingPolls ==
    ASSUME TaskTypeInv, PollsInv, run.retries > 0, PollAgain(run.retries - 1, Patience)
    PROVE  PollsInv'
  <1> DEFINE n == run.retries - 1
             frames == run.frames
  <1>1. /\ run'.retries = n /\ run'.frames = Append(frames, n + 1)
        /\ run'.polls = run.polls + 1
    <2>1. run.retries = n + 1
      BY DEF PollsInv
    <2>2. run'.retries = n /\ run'.frames = Patience /\ run'.polls = run.polls + 1
      BY AgainIs, Zenon
    <2> QED
      BY <2>1, <2>2, Zenon DEF Patience
  <1>2. n \in Nat /\ frames \in Seq(Nat) /\ run.polls \in Nat /\ run.retries = n + 1
    BY DEF PollsInv
  <1>3. PICK w : /\ Weighs(w, frames)
                 /\ run.polls + w[Len(frames)] + 2 ^ (run.retries + 1) <= 2 ^ (Retries + 1)
    BY DEF PollsInv
  <1> HIDE DEF n, frames
  <1>4. PICK v : /\ Weighs(v, Append(frames, n + 1))
                 /\ v[Len(frames) + 1] + 1 = w[Len(frames)] + 2 ^ (n + 1)
    BY <1>2, <1>3, PollWaits
  <1>5. Append(frames, n + 1) \in Seq(Nat) /\ Len(Append(frames, n + 1)) = Len(frames) + 1
        /\ Len(frames) \in Nat
    BY <1>2
  <1>6. /\ w[Len(frames)] \in Nat /\ v[Len(frames) + 1] \in Nat
    <2>1. w \in [0..Len(frames) -> Nat] /\ v \in [0..(Len(frames) + 1) -> Nat]
      BY <1>3, <1>4, <1>5, Zenon DEF Weighs
    <2>2. Len(frames) \in 0..Len(frames) /\ Len(frames) + 1 \in 0..(Len(frames) + 1)
      BY <1>5
    <2> QED
      BY <2>1, <2>2, Zenon
  <1>7. /\ 2 ^ (n + 1) \in Nat /\ 2 ^ ((n + 1) + 1) = 2 * 2 ^ (n + 1)
    BY <1>2, Doubled
  <1>8. (run.polls + 1) + v[Len(frames) + 1] + 2 ^ (n + 1) <= 2 ^ (Retries + 1)
    <2> DEFINE p == run.polls
               a == w[Len(frames)]
               b == v[Len(frames) + 1]
               q == 2 ^ (n + 1)
               m == 2 ^ (Retries + 1)
    <2>2. 2 ^ (Retries + 1) \in Nat
      BY TaskAssumption, Doubled
    <2>3. run.polls + w[Len(frames)] + 2 * 2 ^ (n + 1) <= 2 ^ (Retries + 1)
      BY <1>2, <1>3, <1>7
    <2>4. p \in Nat /\ a \in Nat /\ b \in Nat /\ q \in Nat /\ m \in Nat
      BY <1>2, <1>6, <1>7, <2>2, Zenon
    <2>5. b + 1 = a + q /\ p + a + 2 * q <= m
      BY <1>4, <2>3, Zenon
    <2> HIDE DEF p, a, b, q, m
    <2>6. (p + 1) + b + q <= m
      BY <2>4, <2>5
    <2> QED
      BY <2>6 DEF p, b, q, m
  <1>9. run.polls + 1 \in Nat
    BY <1>2
  <1> QED
    BY <1>1, <1>2, <1>4, <1>5, <1>8, <1>9, Zenon DEF PollsInv

(* An error goes to a poll that waits, whose next poll takes the place of  *)
(* all that waited for it.                                                 *)
LEMMA RaisedPolls ==
    ASSUME TaskTypeInv, PollsInv, NEW i \in Patient,
           PollAgain(Patience[i] - 1, SubSeq(Patience, 1, i - 1))
    PROVE  PollsInv'
  <1> DEFINE frames == run.frames
             k == Len(frames)
             m == Patience[i]
             first == SubSeq(Patience, 1, i - 1)
  <1>1. frames \in Seq(Nat) /\ run.retries \in Nat /\ run.polls \in Nat /\ k \in Nat
    BY DEF PollsInv
  <1>2. /\ Patience \in Seq(Nat) /\ Len(Patience) = k + 1 /\ Patience[k + 1] = run.retries
        /\ \A j \in 1..k : Patience[j] = frames[j]
    BY <1>1 DEF Patience
  <1>3. i \in 1..(k + 1) /\ m \in Nat /\ m > 0
    <2>1. i \in DOMAIN Patience /\ Patience[i] > 0
      BY Zenon DEF Patient
    <2>2. DOMAIN Patience = 1..Len(Patience) /\ \A j \in 1..Len(Patience) : Patience[j] \in Nat
      <3>1. \A s \in Seq(Nat) : DOMAIN s = 1..Len(s) /\ \A j \in 1..Len(s) : s[j] \in Nat
        OBVIOUS
      <3> QED
        BY <1>2, <3>1, Zenon
    <2> QED
      BY <1>2, <2>1, <2>2, Zenon
  <1>4. run'.retries = m - 1 /\ run'.frames = first /\ run'.polls = run.polls + 1
    BY AgainIs
  <1>5. PICK w : /\ Weighs(w, frames)
                 /\ run.polls + w[k] + 2 ^ (run.retries + 1) <= 2 ^ (Retries + 1)
    BY DEF PollsInv
  <1>6. w[k] \in Nat
    BY <1>1, <1>5 DEF Weighs
  <1>7. /\ 2 ^ m \in Nat \ {0} /\ 2 ^ (Retries + 1) \in Nat
        /\ 2 ^ run.retries \in Nat \ {0} /\ 2 ^ (run.retries + 1) = 2 * 2 ^ run.retries
    <2>1. Retries + 1 \in Nat
      BY TaskAssumption
    <2> QED
      BY <1>1, <1>3, <2>1, Doubled, Zenon
  <1>8. ASSUME NEW v, Weighs(v, first), first \in Seq(Nat), Len(first) = i - 1,
               (run.polls + 1) + v[i - 1] + 2 ^ m <= 2 ^ (Retries + 1)
        PROVE  PollsInv'
    <2> HIDE DEF m, first
    <2>1. m - 1 \in Nat /\ (m - 1) + 1 = m /\ run.polls + 1 \in Nat
      BY <1>1, <1>3
    <2> QED
      BY <1>4, <1>8, <2>1, Zenon DEF PollsInv
  <1>9. CASE i = k + 1
    <2>1. first = frames /\ m = run.retries /\ i - 1 = k
      <3>1. SubSeq(Append(frames, run.retries), 1, k) = frames
        BY <1>1
      <3> QED
        BY <1>1, <1>2, <1>9, <3>1 DEF Patience
    <2>2. \A p, a, q, b \in Nat : q # 0 /\ p + a + 2 * q <= b => (p + 1) + a + q <= b
      OBVIOUS
    <2>3. run.polls + w[k] + 2 * 2 ^ run.retries <= 2 ^ (Retries + 1)
      BY <1>5, <1>7
    <2> HIDE DEF k, m, first, frames
    <2>4. (run.polls + 1) + w[k] + 2 ^ run.retries <= 2 ^ (Retries + 1)
      BY <1>1, <1>6, <1>7, <2>2, <2>3
    <2>5. (run.polls + 1) + w[i - 1] + 2 ^ m <= 2 ^ (Retries + 1)
      BY <2>1, <2>4
    <2>6. Len(first) = i - 1
      BY <2>1 DEF k
    <2> QED
      BY <1>1, <1>5, <1>8, <2>1, <2>5, <2>6
  <1>10. CASE i \in 1..k
    <2>1. m = frames[i]
      BY <1>2, <1>10
    <2>2. first = SubSeq(frames, 1, i - 1)
      <3>1. \A j \in 1..(i - 1) : Patience[j] = frames[j]
        BY <1>1, <1>2, <1>10
      <3>2. i \in 1..Len(Patience)
        <4> HIDE DEF k
        <4>1. i \in 1..(k + 1)
          BY <1>1, <1>10
        <4> QED
          BY <1>2, <4>1, Zenon
      <3>3. /\ first \in Seq(Nat) /\ Len(first) = i - 1
            /\ \A j \in 1..(i - 1) : first[j] = Patience[j]
        BY <1>2, <3>2, PrefixIs, Zenon
      <3>4. /\ SubSeq(frames, 1, i - 1) \in Seq(Nat) /\ Len(SubSeq(frames, 1, i - 1)) = i - 1
            /\ \A j \in 1..(i - 1) : SubSeq(frames, 1, i - 1)[j] = frames[j]
        BY <1>1, <1>10, PrefixIs, Zenon
      <3> HIDE DEF first, frames
      <3> QED
        BY <3>1, <3>3, <3>4, SeqEqual
    <2> HIDE DEF first, m, k, frames
    <2>3. PICK v : Weighs(v, first) /\ v[i - 1] = w[i - 1]
      BY <1>1, <1>5, <1>10, <2>2, PollsBefore DEF k
    <2>4. /\ first \in Seq(Nat) /\ Len(first) = i - 1
          /\ w[i] \in Nat /\ w[i - 1] \in Nat
          /\ w[i] <= w[k] /\ w[i - 1] + 2 ^ m <= w[i] + 1
      BY <1>1, <1>5, <1>10, <2>1, <2>2, PollsBefore DEF k
    <2> DEFINE p == run.polls
               a == w[i - 1]
               b == w[i]
               c == w[k]
               q == 2 ^ m
               s == 2 ^ run.retries
               t == 2 ^ (Retries + 1)
    <2>6. run.polls + w[k] + 2 * 2 ^ run.retries <= 2 ^ (Retries + 1)
      BY <1>5, <1>7
    <2>7. (run.polls + 1) + w[i - 1] + 2 ^ m <= 2 ^ (Retries + 1)
      <3>1. p \in Nat /\ a \in Nat /\ b \in Nat /\ c \in Nat /\ q \in Nat /\ s \in Nat \ {0}
            /\ t \in Nat
        BY <1>1, <1>6, <1>7, <2>4, Zenon
      <3>2. b <= c /\ a + q <= b + 1 /\ p + c + 2 * s <= t
        BY <2>4, <2>6, Zenon
      <3> HIDE DEF p, a, b, c, q, s, t
      <3>3. (p + 1) + a + q <= t
        BY <3>1, <3>2
      <3> QED
        BY <3>3 DEF p, a, q, t
    <2> QED
      BY <1>8, <2>3, <2>4, <2>7
  <1>11. i = k + 1 \/ i \in 1..k
    <2> HIDE DEF k
    <2> QED
      BY <1>1, <1>3
  <1> QED
    BY <1>9, <1>10, <1>11

(* Whatever else happens leaves the polls alone.                           *)
LEMMA OtherPolls ==
    ASSUME PollsInv, UNCHANGED <<run.retries, run.frames, run.polls>>
    PROVE  PollsInv'
  BY DEF PollsInv

(* An error polls again or is the last.                                    *)
LEMMA RaisePolls ==
    ASSUME TaskTypeInv, PollsInv, NEW of, Raise(of)
    PROVE  PollsInv'
  <1>1. CASE IsAllowedError(of) /\ Patient # {}
    <2> DEFINE i == CHOOSE j \in Patient : \A k \in Patient : k <= j
    <2>1. \E j \in Patient : \A k \in Patient : k <= j
      <3>1. Patience \in Seq(Nat) /\ Patient \subseteq 1..Len(Patience) /\ Len(Patience) \in Nat
        BY DEF PollsInv, Patience, Patient
      <3> QED
        BY <1>1, <3>1, MaxExists
    <2>2. i \in Patient
      BY <2>1, Zenon
    <2>3. PollAgain(Patience[i] - 1, SubSeq(Patience, 1, i - 1))
      BY <1>1, Zenon DEF Raise
    <2> HIDE DEF i
    <2> QED
      BY <2>2, <2>3, RaisedPolls
  <1>2. CASE ~ (IsAllowedError(of) /\ Patient # {})
    <2>1. UNCHANGED <<run.retries, run.frames, run.polls>>
      BY <1>2 DEF Raise, Finish, TaskTypeInv, RunFields
    <2> QED
      BY <2>1, OtherPolls
  <1> QED
    BY <1>1, <1>2

(* Only the polls and their errors count.                                  *)
LEMMA PollsStep ==
    ASSUME TaskTypeInv, PollsInv, [Next]_vars
    PROVE  PollsInv'
  <1>1. ASSUME NEW outcome, Finish(outcome)
        PROVE  UNCHANGED <<run.retries, run.frames, run.polls>>
    BY <1>1 DEF Finish, TaskTypeInv, RunFields
  <1>2. CASE Begin \/ Created \/ Started \/ Abandoned \/ JobPolled
    <2>1. UNCHANGED <<run.retries, run.frames, run.polls>>
      <3>1. CASE Begin
        BY <3>1 DEF Begin, TaskTypeInv, RunFields
      <3>2. CASE Created
        BY <3>2 DEF Created, TaskTypeInv, RunFields
      <3>3. CASE Started
        BY <1>1, <3>3 DEF Started, TaskTypeInv, RunFields
      <3>4. CASE Abandoned
        BY <1>1, <3>4 DEF Abandoned
      <3>5. CASE JobPolled
        <4>1. JobWaited \/ \E outcome : Finish(outcome)
          BY <3>5 DEF JobPolled
        <4>2. CASE JobWaited
          BY <4>2 DEF JobWaited, TaskTypeInv, RunFields
        <4> QED
          BY <1>1, <4>1, <4>2
      <3> QED
        BY <1>2, <3>1, <3>2, <3>3, <3>4, <3>5
    <2> QED
      BY <2>1, OtherPolls
  <1>3. CASE Polled \/ PollFailed
    <2>1. \/ run.retries > 0 /\ PollAgain(run.retries - 1, Patience)
          \/ \E of : Raise(of)
          \/ Finish("done")
      BY <1>3 DEF Polled, PollFailed
    <2> QED
      BY <1>1, <2>1, WaitingPolls, RaisePolls, OtherPolls
  <1>4. CASE Network \/ Device \/ Ended \/ UNCHANGED vars
    <2>1. UNCHANGED run
      BY <1>4 DEF Network, Device, Create, Launch, Report, Refuse, End, Forget, Ended, vars
    <2> QED
      BY <2>1, OtherPolls
  <1> QED
    BY <1>2, <1>3, <1>4 DEF Next, AS3

(* update.js: runScript and waitForCompletion, declarationHandler.js:      *)
(* persistConfig.  However the errors and the answers of the polls come,   *)
(* every error that a waiting poll repeats included, there are fewer polls *)
(* than 2 ^ (Retries + 1).                                                 *)
THEOREM PollsStayBounded == Spec => []PollsAreBounded
  <1>1. PollsInv => PollsAreBounded
    <2> SUFFICES ASSUME PollsInv PROVE PollsAreBounded
      OBVIOUS
    <2>1. PICK w : /\ Weighs(w, run.frames)
                   /\ run.polls + w[Len(run.frames)] + 2 ^ (run.retries + 1) <= 2 ^ (Retries + 1)
      BY DEF PollsInv
    <2>2. run.polls \in Nat /\ run.retries + 1 \in Nat /\ Len(run.frames) \in Nat
      BY DEF PollsInv
    <2>3. w[Len(run.frames)] \in Nat
      <3>1. Len(run.frames) \in 0..Len(run.frames)
        BY <2>2
      <3> QED
        BY <2>1, <3>1 DEF Weighs
    <2>4. 2 ^ (run.retries + 1) \in Nat \ {0} /\ 2 ^ (Retries + 1) \in Nat
      BY <2>2, TaskAssumption, Doubled
    <2> DEFINE p == run.polls
               a == w[Len(run.frames)]
               q == 2 ^ (run.retries + 1)
               m == 2 ^ (Retries + 1)
    <2>5. p \in Nat /\ a \in Nat /\ q \in Nat \ {0} /\ m \in Nat /\ p + a + q <= m
      BY <2>1, <2>2, <2>3, <2>4, Zenon
    <2> HIDE DEF p, a, q, m
    <2>6. p < m
      BY <2>5
    <2> QED
      BY <2>6 DEF p, m, PollsAreBounded
  <1>2. TaskInv => TaskTypeInv
    BY DEF TaskInv
  <1> QED
    BY <1>1, <1>2, TaskInvariant, PollsInit, PollsStep, PTL DEF Spec
=============================================================================
