---------------------- MODULE DeclarationDevice_proofs ----------------------
(***************************************************************************)
(* What declarationHandler.js and audit.js make of the device, for any     *)
(* number of requests, tenants, objects, declarations and faults.          *)
(*                                                                         *)
(* FlowInv follows a deployment through its steps.  While nobody audits,   *)
(* the device has what is stored (StoredInv), so what is read under the    *)
(* lock is what is on the device: what the audit begins with (TargetInv).  *)
(* From then on a tenant that is done is as declared and one that is not   *)
(* is as it was (AuditInv), and if the declaration leaves no reference     *)
(* dangling then the device goes through contents that never have one      *)
(* (MovingInv), whatever the order of the tenants between the two passes   *)
(* of Common.  What is stored in the end is the device again (ReleaseInv). *)
(* HoldInv, that whoever does this has the lock, keeps the others out.     *)
(*                                                                         *)
(* The last two parts are refinements.  The holder is an owner of          *)
(* LockService, which GlobalLock implements.  And what is stored is        *)
(* serial, as in DeclarationStore: whoever stores has computed it from the *)
(* declaration stored just before (AskInv), which stayed the last one      *)
(* because nobody else had the lock.                                       *)
(*                                                                         *)
(* Only some of this needs hosts with the same time (Synchronous) and      *)
(* first passes of Common that end (FirstPassEnds, or Whole of one         *)
(* request), and says so.                                                  *)
(***************************************************************************)
EXTENDS DeclarationFlow_proofs

(* The first pass of Common ends: no fault and no optimisticLockKey ends   *)
(* its audit before firstPassNoDelete is reset.                            *)
Ends(form) == "unreadCommon" \notin Faults /\ Common \notin DOMAIN form.expect

FirstPassEnds == \A r \in Requests : \A f \in Forms[r] : Ends(f)

(* What is stored can be relied on.                                        *)
Regular == Synchronous /\ FirstPassEnds

(* Nothing has failed before the audit.                                    *)
WaitInv ==
    \A r \in Requests :
        job[r].step \in {"new", "list", "fetch", "lock", "prepare"} =>
            job[r].failed = {} /\ ~ job[r].spoilt

(* Who is between the lock and its release holds the lock.                 *)
HoldInv ==
    /\ \A r \in Requests : job[r].step \in {"prepare", "audit", "release"} => holder = r
    /\ \A r \in late : holder = r /\ job[r].step = "done"
    /\ WaitInv

(* A content that has what another one has, and nothing if that is empty.  *)
Has(content, part) ==
    /\ \A n \in Names : part[n] \in {0, content[n]}
    /\ part = Nothing => content = Nothing

Matches(t, content) == IF t = Common THEN Has(device[t], content) ELSE device[t] = content

(* Between two deployments the device has what is stored.                  *)
StoredInv ==
    (\A r \in Requests : job[r].step # "audit") =>
        \A t \in Tenants \ unsure : Matches(t, Last[t])

(* What a PATCH deploys is in its paths, but for the Common that it found. *)
PatchBase(r) ==
    \/ job[r].base = job[r].form.decl
    \/ \E i \in DOMAIN log :
          /\ job[r].picked = i + 1
          /\ job[r].base = Over(job[r].form.decl,
                                Filtered(Some(log[i].decl), DOMAIN job[r].form.decl))

PatchInv ==
    \A r \in Requests :
        job[r].form.action = "patch" =>
            /\ job[r].step \in {"list", "fetch"} => job[r].base = job[r].form.decl
            /\ job[r].step \in {"lock", "prepare"} => PatchBase(r)

Good(r, t) == ~ job[r].form.dryRun /\ t \in DOMAIN job[r].target \ (job[r].failed \cup Left(r))

(* What is deployed, and what for.                                         *)
TargetInv(r) ==
    /\ \A t \in DOMAIN job[r].target : job[r].target[t] = Over(job[r].base, Empty)[t]
    /\ DOMAIN job[r].base \subseteq DOMAIN job[r].target
    /\ job[r].mode = "complete" => Named(job[r].prev) \subseteq DOMAIN job[r].target
    /\ Synchronous => job[r].prev = Last \/ unsure = Tenants
    /\ /\ Synchronous
       /\ job[r].form.action = "patch" /\ job[r].fresh /\ job[r].mode = "selective"
       => /\ DOMAIN job[r].target \subseteq DOMAIN job[r].form.decl \cup {Common}
          /\ Common \in DOMAIN job[r].target \ DOMAIN job[r].form.decl =>
                 job[r].target[Common] = Last[Common]

(* No error has ended the first pass of Common.                            *)
Whole(r) == Ends(job[r].form) \/ Common \notin job[r].failed

(* The tenants that are done are on the device, the others as they were.   *)
WholeInv(r) ==
    /\ Plan(job[r].todo, job[r].adding)
    /\ \A t \in Left(r) \cap job[r].failed : t = Common /\ t \in unsure
    /\ \A t \in Tenants :
          Good(r, t) => device[t] = job[r].target[t] \/ (job[r].spoilt /\ t \in unsure)
    /\ Regular =>
          \A t \in Tenants :
              t \in unsure \/ Good(r, t) \/
                 IF t = Common
                 THEN /\ \A n \in Names : job[r].prev[t][n] \in {0, device[t][n]}
                      /\ job[r].prev[t] = Nothing =>
                            \/ device[t] = Nothing
                            \/ /\ t \in DOMAIN job[r].target \ job[r].failed
                               /\ ~ job[r].form.dryRun /\ device[t] = job[r].target[t]
                 ELSE device[t] = job[r].prev[t]

AuditInv(r) ==
    /\ Left(r) \subseteq DOMAIN job[r].target
    /\ job[r].failed \subseteq DOMAIN job[r].target
    /\ \A t \in Tenants : t \in unsure \/ t \in DOMAIN job[r].target \/ device[t] = job[r].before[t]
    /\ Whole(r) => WholeInv(r)

(* The request asks for a device without dangling references.              *)
Consistent(r) ==
    /\ ~ job[r].spoilt
    /\ DOMAIN job[r].form.expect = {}
    /\ Closed(Over(job[r].target, job[r].before))

(* The content of a tenant in the course of the audit.                     *)
Moving(r, t) ==
    IF t \notin DOMAIN job[r].target \/ (t \in Left(r) /\ (t = Common => job[r].adding))
    THEN job[r].before[t]
    ELSE IF t \in Left(r) THEN Applied(TRUE, job[r].before[t], job[r].target[t])
    ELSE job[r].target[t]

MovingInv(r) ==
    Consistent(r) =>
        /\ job[r].failed = {}
        /\ ~ job[r].form.dryRun => \A t \in Tenants : device[t] = Moving(r, t)

(* What is on the device when the declaration is stored.                   *)
ReleaseInv(r) ==
    /\ Whole(r) /\ ~ job[r].form.dryRun =>
           \A t \in DOMAIN job[r].target \ (job[r].failed \cup unsure) :
               device[t] = job[r].target[t]
    /\ Consistent(r) => job[r].failed = {}
    /\ Regular /\ job[r].mode = "complete" /\ job[r].failed = {} /\ ~ job[r].form.dryRun =>
           \A t \in Tenants \ unsure : device[t] = Over(job[r].base, Empty)[t]
    /\ /\ Synchronous /\ job[r].form.action = "patch" /\ ~ job[r].form.dryRun
       /\ job[r].fresh /\ job[r].mode = "selective"
       => \A t \in Tenants \ (DOMAIN job[r].form.decl \cup job[r].failed \cup unsure) :
              job[r].before[t] = Before[t] => device[t] = job[r].before[t]

FlowInv ==
    /\ Closed(device) /\ HoldInv
    /\ Synchronous => PatchInv
    /\ Regular => StoredInv
    /\ \A r \in Requests :
          /\ job[r].step = "audit" => TargetInv(r) /\ AuditInv(r) /\ MovingInv(r)
          /\ job[r].step = "release" => ReleaseInv(r)

-----------------------------------------------------------------------------
(* The lock and what a PATCH deploys *)

(* The assumptions are about constants.                                    *)
LEMMA Constants ==
    /\ Synchronous' = Synchronous /\ Regular' = Regular
    /\ \A form : Ends(form)' = Ends(form)
  BY DEF Synchronous, Regular, FirstPassEnds, Ends

(* If the first passes end, no error has ended one.                        *)
LEMMA EndsIsWhole ==
    ASSUME FirstPassEnds, FlowTypeInv, NEW r \in Requests, job[r].step # "new"
    PROVE  Whole(r)
  BY DEF FirstPassEnds, Whole, FlowTypeInv, JobsInv

(* What a request keeps that goes to another step.                         *)
Keeps(a, j) ==
    /\ a.form = j.form /\ a.picked = j.picked /\ a.mode = j.mode /\ a.base = j.base
    /\ a.prev = j.prev /\ a.target = j.target /\ a.todo = j.todo /\ a.adding = j.adding
    /\ a.failed = j.failed /\ a.fresh = j.fresh /\ a.before = j.before /\ a.spoilt = j.spoilt

(* A request that goes to another step keeps the rest.                     *)
LEMMA Moves ==
    ASSUME FlowTypeInv, NEW r \in Requests, NEW step, NEW reply,
           \/ Become(r, [job[r] EXCEPT !.step = step])
           \/ Become(r, [job[r] EXCEPT !.step = step, !.reply = reply])
    PROVE  /\ job'[r].step = step /\ Keeps(job'[r], job[r])
           /\ \A q \in Requests \ {r} : job'[q] = job[q]
  <1>1. DOMAIN job[r] = JobFields /\ job \in [Requests -> Jobs]
    BY JobDomain DEF FlowTypeInv, JobsInv
  <1> DEFINE a == [job[r] EXCEPT !.step = step]
             b == [job[r] EXCEPT !.step = step, !.reply = reply]
  <1>2. a.step = step /\ b.step = step /\ Keeps(a, job[r]) /\ Keeps(b, job[r])
    BY <1>1 DEF Keeps, JobFields
  <1> HIDE DEF a, b
  <1>3. job' = [job EXCEPT ![r] = a] \/ job' = [job EXCEPT ![r] = b]
    BY DEF Become, a, b
  <1> QED
    BY <1>1, <1>2, <1>3

(* Where the actions of a request lead.                                    *)
LEMMA Ways ==
    ASSUME FlowTypeInv, NEW r \in Requests
    PROVE  /\ Lock(r) => job'[r].step = "prepare" /\ Keeps(job'[r], job[r])
           /\ Refused(r) \/ Rejected(r) \/ Unstored(r) \/ Output(r) =>
                  job'[r].step = "done" /\ Keeps(job'[r], job[r])
           /\ Store(r) => job'[r].step = "release" /\ Keeps(job'[r], job[r])
           /\ Release(r) => job'[r].step = "output" /\ Keeps(job'[r], job[r])
           /\ Crash(r) => job'[r].step = "crashed" /\ Keeps(job'[r], job[r])
           /\ Lock(r) \/ Refused(r) \/ Rejected(r) \/ Unstored(r) \/ Output(r) \/ Store(r)
                 \/ Release(r) \/ Crash(r) =>
                  \A q \in Requests \ {r} : job'[q] = job[q]
  <1>1. ASSUME Lock(r)
        PROVE  /\ job'[r].step = "prepare" /\ Keeps(job'[r], job[r])
               /\ \A q \in Requests \ {r} : job'[q] = job[q]
    <2>1. Become(r, [job[r] EXCEPT !.step = "prepare"])
      BY <1>1 DEF Lock
    <2> QED
      BY <2>1, Moves, Zenon
  <1>2. ASSUME Refused(r) \/ Rejected(r) \/ Unstored(r)
        PROVE  /\ job'[r].step = "done" /\ Keeps(job'[r], job[r])
               /\ \A q \in Requests \ {r} : job'[q] = job[q]
    <2>1. Become(r, [job[r] EXCEPT !.step = "done", !.reply = "error"])
      BY <1>2, Zenon DEF Refused, Rejected, Unstored, Fail
    <2> QED
      BY <2>1, Moves, Zenon
  <1>3. ASSUME Output(r)
        PROVE  /\ job'[r].step = "done" /\ Keeps(job'[r], job[r])
               /\ \A q \in Requests \ {r} : job'[q] = job[q]
    <2>1. PICK reply \in {Reply(r), "error"} :
              Become(r, [job[r] EXCEPT !.step = "done", !.reply = reply])
      BY <1>3, Zenon DEF Output
    <2> QED
      BY <2>1, Moves, Zenon
  <1>4. ASSUME Store(r)
        PROVE  /\ job'[r].step = "release" /\ Keeps(job'[r], job[r])
               /\ \A q \in Requests \ {r} : job'[q] = job[q]
    <2>1. Become(r, [job[r] EXCEPT !.step = "release"])
      BY <1>4 DEF Store
    <2> QED
      BY <2>1, Moves, Zenon
  <1>5. ASSUME Release(r)
        PROVE  /\ job'[r].step = "output" /\ Keeps(job'[r], job[r])
               /\ \A q \in Requests \ {r} : job'[q] = job[q]
    <2>1. Become(r, [job[r] EXCEPT !.step = "output"])
      BY <1>5 DEF Release
    <2> QED
      BY <2>1, Moves, Zenon
  <1>6. ASSUME Crash(r)
        PROVE  /\ job'[r].step = "crashed" /\ Keeps(job'[r], job[r])
               /\ \A q \in Requests \ {r} : job'[q] = job[q]
    <2>1. Become(r, [job[r] EXCEPT !.step = "crashed"])
      BY <1>6 DEF Crash
    <2> QED
      BY <2>1, Moves, Zenon
  <1> QED
    BY <1>1, <1>2, <1>3, <1>4, <1>5, <1>6, Zenon

(* A request on its way to the lock.                                       *)
LEMMA Arrives ==
    ASSUME FlowTypeInv, NEW r \in Requests, Begin(r) \/ List(r) \/ Fetch(r)
    PROVE  /\ job[r].step \in {"new", "list", "fetch"}
           /\ job'[r].step \in {"list", "fetch", "lock", "done"}
           /\ job'[r].failed = job[r].failed /\ job'[r].spoilt = job[r].spoilt
           /\ \A q \in Requests \ {r} : job'[q] = job[q]
           /\ PatchInv /\ HistoryInv => PatchInv'
  <1>1. job[r] \in Jobs /\ DOMAIN job[r] = JobFields /\ job \in [Requests -> Jobs]
    BY JobDomain DEF FlowTypeInv, JobsInv
  <1>2. UNCHANGED log
    BY Zenon DEF Begin, List, Fetch
  <1>3. ASSUME NEW new, Become(r, new), new.step \in {"list", "fetch", "lock", "done"},
               new.failed = job[r].failed, new.spoilt = job[r].spoilt,
               PatchInv /\ HistoryInv /\ new.form.action = "patch" =>
                   \/ new.step \in {"list", "fetch"} /\ new.base = new.form.decl
                   \/ /\ new.step = "lock"
                      /\ \/ new.base = new.form.decl
                         \/ \E i \in DOMAIN log :
                               /\ new.picked = i + 1
                               /\ new.base = Over(new.form.decl,
                                                  Filtered(Some(log[i].decl), DOMAIN new.form.decl))
                   \/ new.step = "done"
        PROVE  /\ job'[r].step \in {"list", "fetch", "lock", "done"}
               /\ job'[r].failed = job[r].failed /\ job'[r].spoilt = job[r].spoilt
               /\ \A q \in Requests \ {r} : job'[q] = job[q]
               /\ PatchInv /\ HistoryInv => PatchInv'
    <2>1. job'[r] = new /\ \A q \in Requests \ {r} : job'[q] = job[q]
      BY <1>1, <1>3 DEF Become
    <2>2. ASSUME PatchInv, NEW q \in Requests \ {r}, job'[q].form.action = "patch"
          PROVE  /\ job'[q].step \in {"list", "fetch"} => job'[q].base = job'[q].form.decl
                 /\ job'[q].step \in {"lock", "prepare"} => PatchBase(q)'
      BY <1>2, <2>1, <2>2 DEF PatchInv, PatchBase
    <2>3. ASSUME PatchInv, HistoryInv, job'[r].form.action = "patch"
          PROVE  /\ job'[r].step \in {"list", "fetch"} => job'[r].base = job'[r].form.decl
                 /\ job'[r].step \in {"lock", "prepare"} => PatchBase(r)'
      BY <1>2, <1>3, <2>1, <2>3 DEF PatchBase
    <2> QED
      BY <1>3, <2>1, <2>2, <2>3 DEF PatchInv
  <1>4. CASE Begin(r)
    <2>1. PICK f \in Forms[r] :
              Become(r, [job[r] EXCEPT !.form = f, !.base = f.decl, !.mode = f.mode,
                                       !.step = IF Reads(f) THEN "list" ELSE "lock"])
      BY <1>4, Zenon DEF Begin
    <2> DEFINE step == IF Reads(f) THEN "list" ELSE "lock"
               new == [job[r] EXCEPT !.form = f, !.base = f.decl, !.mode = f.mode, !.step = step]
    <2>2. step \in {"list", "lock"}
      OBVIOUS
    <2> HIDE DEF step
    <2>3. /\ new.form = f /\ new.base = f.decl /\ new.step = step
          /\ new.failed = job[r].failed /\ new.spoilt = job[r].spoilt
      BY <1>1 DEF JobFields
    <2>4. Become(r, new)
      BY <2>1 DEF step
    <2> HIDE DEF new
    <2>5. job[r].step = "new"
      BY <1>4, Zenon DEF Begin
    <2> QED
      BY <1>3, <2>2, <2>3, <2>4, <2>5
  <1>5. CASE List(r)
    <2> DEFINE age == AgeToRead(job[r].form)
               stamp == OfAge(history, age).stamp
               a == [job[r] EXCEPT !.step = "fetch", !.picked = stamp]
               b == [job[r] EXCEPT !.step = "lock", !.mode = "selective"]
               c == [job[r] EXCEPT !.step = "done", !.reply = "NO_CONTENT"]
    <2>1. job[r].step = "list" /\ (Become(r, a) \/ Become(r, b) \/ Become(r, c))
      BY <1>5, Zenon DEF List
    <2> HIDE DEF stamp
    <2>2. /\ a.step = "fetch" /\ a.form = job[r].form /\ a.base = job[r].base
          /\ b.step = "lock" /\ b.form = job[r].form /\ b.base = job[r].base
          /\ c.step = "done"
          /\ \A j \in {a, b, c} : j.failed = job[r].failed /\ j.spoilt = job[r].spoilt
      BY <1>1 DEF JobFields
    <2>3. PatchInv /\ job[r].form.action = "patch" => job[r].base = job[r].form.decl
      BY <2>1 DEF PatchInv
    <2> HIDE DEF a, b, c
    <2> QED
      BY <1>3, <2>1, <2>2, <2>3
  <1>6. CASE Fetch(r)
    <2>1. job[r].step = "fetch"
      BY <1>6, Zenon DEF Fetch
    <2> DEFINE e == [job[r] EXCEPT !.step = "done", !.reply = "error"]
               o == [job[r] EXCEPT !.step = "done", !.reply = "OK"]
               form == job[r].form
               l(x) == [job[r] EXCEPT !.step = "lock", !.mode = x.mode,
                                      !.base = Over(form.decl, Filtered(Some(x.decl), DOMAIN form.decl))]
    <2>2. Become(r, e) \/ Become(r, o) \/ \E x \in Found(r) : Become(r, l(x))
      BY <1>6, Zenon DEF Fetch
    <2>3. /\ e.step = "done" /\ o.step = "done"
          /\ \A j \in {e, o} : j.failed = job[r].failed /\ j.spoilt = job[r].spoilt
      BY <1>1 DEF JobFields
    <2>4. CASE Become(r, e) \/ Become(r, o)
      <3> HIDE DEF e, o
      <3> QED
        BY <1>3, <2>1, <2>3, <2>4
    <2>5. ASSUME NEW x \in Found(r), Become(r, l(x))
          PROVE  /\ job'[r].step \in {"list", "fetch", "lock", "done"}
                 /\ job'[r].failed = job[r].failed /\ job'[r].spoilt = job[r].spoilt
                 /\ \A q \in Requests \ {r} : job'[q] = job[q]
                 /\ PatchInv /\ HistoryInv => PatchInv'
      <3> DEFINE base == Over(form.decl, Filtered(Some(x.decl), DOMAIN form.decl))
                 new == [job[r] EXCEPT !.step = "lock", !.mode = x.mode, !.base = base]
      <3>1. Become(r, new)
        BY <2>5
      <3> HIDE DEF base
      <3>2. /\ new.step = "lock" /\ new.base = base /\ new.form = job[r].form
            /\ new.picked = job[r].picked
            /\ new.failed = job[r].failed /\ new.spoilt = job[r].spoilt
        BY <1>1 DEF JobFields
      <3> HIDE DEF new
      <3>3. ASSUME HistoryInv
            PROVE  \E i \in DOMAIN log :
                      /\ new.picked = i + 1
                      /\ new.base = Over(new.form.decl,
                                         Filtered(Some(log[i].decl), DOMAIN new.form.decl))
        <4>1. PICK i \in 1..Len(log) : x = Deployed(log, i)
          <5>1. x \in history
            BY DEF Found
          <5> QED
            BY <3>3, <5>1, HistoryIsLogged DEF FlowTypeInv
        <4>2. i \in DOMAIN log /\ job[r].picked = i + 1 /\ x.decl = log[i].decl
          BY <4>1, LogTyped DEF Found, Deployed, FlowTypeInv
        <4> QED
          BY <3>2, <4>2 DEF base
      <3> QED
        BY <1>3, <3>1, <3>2, <3>3
    <2>6. job[r].step \in {"new", "list", "fetch"}
      BY <2>1
    <2> QED
      BY <2>2, <2>4, <2>5, <2>6, Zenon
  <1> QED
    BY <1>4, <1>5, <1>6

(* What the audit starts with.                                             *)
LEMMA TargetFields ==
    ASSUME FlowTypeInv, NEW r \in Requests, NEW base, NEW mode, NEW kept, NEW prev
    PROVE  LET wanted == Over(base, Unwanted(mode, base, prev))
               common == CommonFor(job[r].form.action, wanted)
               target == Over(wanted, common)
               new    == Target(r, base, mode, kept, prev)
           IN  /\ new.form = job[r].form /\ new.base = Over(base, common) /\ new.mode = mode
               /\ new.kept = kept /\ new.prev = prev /\ new.target = target
               /\ new.todo = TenantList(DOMAIN target)
               /\ new.adding = (Common \in DOMAIN target)
               /\ new.failed = job[r].failed /\ new.spoilt = job[r].spoilt
               /\ new.before = device /\ new.step = "audit"
               /\ new.fresh = (history # {} => job[r].picked = Newest.stamp)
  <1> DEFINE wanted == Over(base, Unwanted(mode, base, prev))
             common == CommonFor(job[r].form.action, wanted)
             target == Over(wanted, common)
             new == Target(r, base, mode, kept, prev)
             stored == Over(base, common)
             todo   == TenantList(DOMAIN target)
             adding == Common \in DOMAIN target
             fresh  == history # {} => job[r].picked = Newest.stamp
  <1>1. DOMAIN job[r] = JobFields
    BY JobDomain DEF FlowTypeInv, JobsInv
  <1>2. new = [job[r] EXCEPT !.base = stored, !.mode = mode, !.kept = kept,
                      !.prev = prev, !.target = target, !.todo = todo,
                      !.adding = adding, !.before = device, !.fresh = fresh,
                      !.step = "audit"]
    BY DEF Target
  <1> HIDE DEF new, stored, todo, adding, fresh, target, common, wanted
  <1>3. /\ new.form = job[r].form /\ new.base = stored /\ new.mode = mode
        /\ new.kept = kept /\ new.prev = prev /\ new.target = target
        /\ new.todo = todo /\ new.adding = adding
        /\ new.failed = job[r].failed /\ new.spoilt = job[r].spoilt
        /\ new.before = device /\ new.step = "audit" /\ new.fresh = fresh
    BY <1>1, <1>2 DEF JobFields
  <1> QED
    BY <1>3 DEF new, stored, todo, adding, fresh, target, common, wanted

(* Nothing fails before the audit.                                         *)
LEMMA WaitStep ==
    ASSUME FlowTypeInv, WaitInv, [Next]_vars
    PROVE  WaitInv'
  <1> DEFINE Waits(j) == j.step \in {"new", "list", "fetch", "lock", "prepare"}
  <1>1. ASSUME \A q \in Requests :
                   Waits(job'[q]) => \/ job'[q] = job[q]
                                     \/ /\ Waits(job[q]) /\ job'[q].failed = job[q].failed
                                        /\ job'[q].spoilt = job[q].spoilt
        PROVE  WaitInv'
    BY <1>1 DEF WaitInv
  <1>2. ASSUME NEW r \in Requests, Begin(r) \/ List(r) \/ Fetch(r)
        PROVE  WaitInv'
    <2>1. /\ job[r].step \in {"new", "list", "fetch"}
          /\ job'[r].failed = job[r].failed /\ job'[r].spoilt = job[r].spoilt
          /\ \A q \in Requests \ {r} : job'[q] = job[q]
      BY <1>2, Arrives
    <2> QED
      BY <1>1, <2>1
  <1>3. ASSUME NEW r \in Requests, Lock(r)
        PROVE  WaitInv'
    <2>1. /\ job[r].step = "lock" /\ Keeps(job'[r], job[r])
          /\ \A q \in Requests \ {r} : job'[q] = job[q]
      BY <1>3, Ways DEF Lock
    <2> QED
      BY <1>1, <2>1 DEF Keeps
  <1>4. ASSUME NEW r \in Requests,
               \/ Refused(r) \/ Rejected(r) \/ Unstored(r) \/ Output(r) \/ Store(r)
               \/ Release(r) \/ Crash(r)
        PROVE  WaitInv'
    <2>1. /\ job'[r].step \in {"done", "release", "output", "crashed"}
          /\ \A q \in Requests \ {r} : job'[q] = job[q]
      BY <1>4, Ways
    <2> QED
      BY <1>1, <2>1
  <1>5. ASSUME NEW r \in Requests, NEW new, Become(r, new), new.step = "audit"
        PROVE  WaitInv'
    <2>1. job'[r] = new /\ \A q \in Requests \ {r} : job'[q] = job[q]
      BY <1>5 DEF Become, FlowTypeInv, JobsInv
    <2> QED
      BY <1>1, <1>5, <2>1
  <1>6. ASSUME NEW r \in Requests, Prepare(r)
        PROVE  WaitInv'
    <2>1. \E base, mode, kept, prev : Become(r, Target(r, base, mode, kept, prev))
      BY <1>6, Zenon DEF Prepare, PrepareWith
    <2> QED
      BY <1>5, <2>1, TargetFields
  <1>7. ASSUME NEW r \in Requests, Audit(r)
        PROVE  WaitInv'
    <2>1. PICK t \in Tenants : \/ Mismatched(r, t) \/ Unread(r, t) \/ Unchanged(r, t)
                               \/ Updated(r, t) \/ Lost(r, t) \/ Slow(r, t)
      BY <1>7 DEF Audit
    <2>2. Audits(r, t) /\ job[r].step = "audit"
      BY <2>1, Zenon DEF Mismatched, Unread, Unchanged, Updated, Lost, Slow, Differs, Audits
    <2>3. ASSUME NEW new, SameBut(new, job[r]), Become(r, new)
          PROVE  WaitInv'
      BY <1>5, <2>2, <2>3 DEF SameBut
    <2>4. CASE Mismatched(r, t)
      BY <2>2, <2>3, <2>4, AuditedTyped DEF Mismatched
    <2>5. CASE Unread(r, t)
      BY <2>2, <2>3, <2>5, AuditedTyped DEF Unread
    <2>6. CASE Unchanged(r, t)
      BY <2>2, <2>3, <2>6, AuditedTyped DEF Unchanged
    <2>7. CASE Updated(r, t)
      BY <2>2, <2>3, <2>7, AuditedTyped DEF Updated
    <2>8. CASE Lost(r, t)
      BY <2>2, <2>3, <2>8, AuditedTyped DEF Lost
    <2>9. CASE Slow(r, t)
      BY <2>2, <2>3, <2>9, AuditedTyped DEF Slow
    <2> QED
      BY <2>1, <2>4, <2>5, <2>6, <2>7, <2>8, <2>9
  <1>8. CASE ScriptEnds
    <2>1. ASSUME NEW q \in Requests, Waits(job'[q])
          PROVE  /\ Waits(job[q]) /\ job'[q].failed = job[q].failed
                 /\ job'[q].spoilt = job[q].spoilt
      <3>1. /\ job'[q].step = job[q].step /\ job'[q].failed = job[q].failed
            /\ job'[q].spoilt = (job[q].spoilt \/ job[q].step = "audit")
        BY <1>8, ScriptTyped DEF SameBut
      <3>2. job[q].spoilt \in BOOLEAN
        BY JobTyped DEF FlowTypeInv, JobsInv
      <3> QED
        BY <2>1, <3>1, <3>2
    <2> QED
      BY <1>1, <2>1
  <1>9. CASE UNCHANGED job
    BY <1>9 DEF WaitInv
  <1> QED
    BY <1>2, <1>3, <1>4, <1>6, <1>7, <1>8, <1>9
       DEF Next, Proceed, LateRelease, TakenOver, Finished, vars

(* The lock is taken and given back by who holds it.                       *)
LEMMA HoldStep ==
    ASSUME FlowTypeInv, HoldInv, LeftInv, [Next]_vars
    PROVE  HoldInv'
  <1> DEFINE Held(j) == j.step \in {"prepare", "audit", "release"}
  <1>1. Nobody \notin Requests
    BY FlowAssumption
  <1>0. WaitInv'
    BY WaitStep DEF HoldInv
  <1>2. /\ \A q \in Requests : Held(job[q]) => holder = q
        /\ \A q \in late : q \in Requests /\ holder = q /\ job[q].step = "done"
    BY DEF HoldInv, FlowTypeInv
  <1>3. ASSUME \A q \in Requests : Held(job'[q]) => holder' = q,
               \A q \in late' : holder' = q /\ job'[q].step = "done"
        PROVE  HoldInv'
    BY <1>0, <1>3 DEF HoldInv
  <1> HIDE DEF Held
  <1>4. ASSUME NEW r \in Requests, \A q \in Requests \ {r} : job'[q] = job[q],
               Held(job'[r]) => holder = r,
               job[r].step # "done", holder' = holder, late' = late
        PROVE  HoldInv'
    BY <1>2, <1>3, <1>4
  <1>5. ASSUME NEW r \in Requests, Begin(r) \/ List(r) \/ Fetch(r)
        PROVE  HoldInv'
    <2>1. /\ job[r].step # "done" /\ ~ Held(job'[r])
          /\ \A q \in Requests \ {r} : job'[q] = job[q]
      BY <1>5, Arrives DEF Held
    <2>2. holder' = holder /\ late' = late
      BY <1>5, Zenon DEF Begin, List, Fetch
    <2> QED
      BY <1>4, <2>1, <2>2
  <1>6. ASSUME NEW r \in Requests, Lock(r)
        PROVE  HoldInv'
    <2>1. holder = Nobody /\ holder' = r /\ late' = late
      BY <1>6 DEF Lock
    <2>2. \A q \in Requests \ {r} : job'[q] = job[q]
      BY <1>6, Ways
    <2> QED
      BY <1>1, <1>2, <1>3, <2>1, <2>2
  <1>7. ASSUME NEW r \in Requests, Refused(r) \/ Output(r) \/ Crash(r)
        PROVE  HoldInv'
    <2>1. ~ Held(job'[r]) /\ \A q \in Requests \ {r} : job'[q] = job[q]
      BY <1>7, Ways DEF Held
    <2>2. job[r].step # "done" /\ holder' = holder /\ late' = late
      BY <1>7 DEF Refused, Output, Crash
    <2> QED
      BY <1>4, <2>1, <2>2
  <1>8. ASSUME NEW r \in Requests, Rejected(r) \/ Unstored(r)
        PROVE  HoldInv'
    <2>1. job'[r].step = "done" /\ \A q \in Requests \ {r} : job'[q] = job[q]
      BY <1>8, Ways
    <2>2. Held(job[r]) /\ job[r].step # "done" /\ holder' = holder /\ late' = late \cup {r}
      BY <1>8 DEF Rejected, Unstored, AuditIsOver, Fail, Held
    <2>3. ~ Held(job'[r])
      BY <2>1 DEF Held
    <2> QED
      BY <1>2, <1>3, <2>1, <2>2, <2>3
  <1>9. ASSUME NEW r \in Requests, Store(r)
        PROVE  HoldInv'
    <2>1. /\ Held(job[r]) /\ job[r].step # "done" /\ holder' = holder /\ late' = late
          /\ \A q \in Requests \ {r} : job'[q] = job[q]
      BY <1>9, Ways DEF Store, AuditIsOver, Held
    <2> QED
      BY <1>2, <1>4, <2>1
  <1>10. ASSUME NEW r \in Requests, Release(r)
         PROVE  HoldInv'
    <2>1. Held(job[r]) /\ job[r].step # "done" /\ holder' = Nobody /\ late' = late
      BY <1>10 DEF Release, Held
    <2>2. ~ Held(job'[r]) /\ \A q \in Requests \ {r} : job'[q] = job[q]
      BY <1>10, Ways DEF Held
    <2> QED
      BY <1>2, <1>3, <2>1, <2>2
  <1>11. ASSUME NEW r \in Requests, LateRelease(r)
         PROVE  HoldInv'
    <2>1. r \in late /\ holder' = Nobody /\ late' = late \ {r} /\ job' = job
      BY <1>11 DEF LateRelease
    <2>2. job[r].step = "done" /\ ~ Held(job[r])
      BY <1>2, <2>1 DEF Held
    <2> QED
      BY <1>2, <1>3, <2>1, <2>2
  <1>12. ASSUME NEW r \in Requests, Prepare(r)
         PROVE  HoldInv'
    <2>1. Held(job[r]) /\ job[r].step # "done" /\ holder' = holder /\ late' = late
      BY <1>12 DEF Prepare, Held
    <2>2. \E new : Become(r, new)
      BY <1>12, Zenon DEF Prepare, PrepareWith
    <2>3. \A q \in Requests \ {r} : job'[q] = job[q]
      BY <2>2 DEF Become, FlowTypeInv, JobsInv
    <2> QED
      BY <1>2, <1>4, <2>1, <2>3
  <1>13. ASSUME NEW r \in Requests, Audit(r)
         PROVE  HoldInv'
    <2>1. PICK t \in Tenants : \/ Mismatched(r, t) \/ Unread(r, t) \/ Unchanged(r, t)
                               \/ Updated(r, t) \/ Lost(r, t) \/ Slow(r, t)
      BY <1>13 DEF Audit
    <2>2. Audits(r, t) /\ holder' = holder /\ late' = late
      BY <2>1, Zenon DEF Mismatched, Unread, Unchanged, Updated, Lost, Slow, Differs
    <2>3. \E new : Become(r, new)
      BY <2>1, Zenon DEF Mismatched, Unread, Unchanged, Updated, Lost, Slow
    <2>4. \A q \in Requests \ {r} : job'[q] = job[q]
      BY <2>3 DEF Become, FlowTypeInv, JobsInv
    <2>5. Held(job[r]) /\ job[r].step # "done"
      BY <2>2 DEF Audits, Held
    <2> QED
      BY <1>2, <1>4, <2>2, <2>4, <2>5
  <1>14. CASE ScriptEnds
    <2>1. \A q \in Requests : job'[q].step = job[q].step
      BY <1>14, ScriptTyped DEF SameBut
    <2>2. holder' = holder /\ late' = late
      BY <1>14 DEF ScriptEnds
    <2> QED
      BY <1>2, <1>3, <2>1, <2>2 DEF Held
  <1>15. CASE TakenOver
    <2>1. holder \in Requests /\ job[holder].step = "crashed" /\ holder' = Nobody /\ job' = job
          /\ late' = late
      BY <1>15 DEF TakenOver, FlowTypeInv
    <2>2. ~ Held(job[holder])
      BY <2>1 DEF Held
    <2> QED
      BY <1>2, <1>3, <2>1, <2>2
  <1>16. CASE Finished \/ UNCHANGED vars
    BY <1>2, <1>3, <1>16 DEF Finished, vars
  <1> QED
    BY <1>5, <1>6, <1>7, <1>8, <1>9, <1>10, <1>11, <1>12, <1>13, <1>14, <1>15, <1>16
       DEF Next, Proceed

-----------------------------------------------------------------------------
(* Steps that neither deploy nor store *)

(* What a PATCH found stays in the log.                                    *)
LEMMA PatchKept ==
    ASSUME PatchInv, \A i \in DOMAIN log : i \in DOMAIN log' /\ log'[i] = log[i],
           \A q \in Requests :
               \/ job'[q].step \notin {"list", "fetch", "lock", "prepare"}
               \/ /\ job'[q].form = job[q].form /\ job'[q].base = job[q].base
                  /\ job'[q].picked = job[q].picked
                  /\ \/ job'[q].step = job[q].step
                     \/ job'[q].step = "prepare" /\ job[q].step = "lock"
    PROVE  PatchInv'
  <1> SUFFICES ASSUME NEW q \in Requests, job'[q].form.action = "patch",
                      job'[q].step \in {"list", "fetch", "lock", "prepare"}
               PROVE  /\ job'[q].step \in {"list", "fetch"} => job'[q].base = job'[q].form.decl
                      /\ job'[q].step \in {"lock", "prepare"} => PatchBase(q)'
    BY DEF PatchInv
  <1>1. /\ job'[q].form = job[q].form /\ job'[q].base = job[q].base
        /\ job'[q].picked = job[q].picked
        /\ \/ job'[q].step = job[q].step
           \/ job'[q].step = "prepare" /\ job[q].step = "lock"
    OBVIOUS
  <1>2. PatchBase(q) => PatchBase(q)'
    BY <1>1 DEF PatchBase
  <1> QED
    BY <1>1, <1>2 DEF PatchInv

(* A deployment that nothing disturbs is as it was.                        *)
LEMMA DeploymentKept ==
    ASSUME FlowTypeInv, FlowTypeInv', UNCHANGED <<device, log>>, unsure \subseteq unsure',
           NEW r \in Requests, job'[r] = job[r]
    PROVE  /\ TargetInv(r) => TargetInv(r)'
           /\ AuditInv(r) => AuditInv(r)'
           /\ MovingInv(r) => MovingInv(r)'
           /\ ReleaseInv(r) => ReleaseInv(r)'
  <1>1. unsure' \subseteq Tenants
    BY DEF FlowTypeInv
  <1>2. Left(r)' = Left(r) /\ Consistent(r)' = Consistent(r) /\ Whole(r)' = Whole(r)
    BY Constants DEF Left, Consistent, Whole
  <1>3. Last' = Last /\ Before' = Before
    BY DEF Last, Before
  <1>4. TargetInv(r) => TargetInv(r)'
    BY <1>1, <1>3, Constants DEF TargetInv
  <1>5. \A t \in Tenants : Good(r, t)' = Good(r, t)
    BY <1>2 DEF Good
  <1>6. AuditInv(r) => AuditInv(r)'
    BY <1>2, <1>5, Constants DEF AuditInv, WholeInv
  <1>7. \A t \in Tenants : Moving(r, t)' = Moving(r, t)
    BY <1>2 DEF Moving
  <1>8. MovingInv(r) => MovingInv(r)'
    BY <1>2, <1>7 DEF MovingInv
  <1>9. ReleaseInv(r) => ReleaseInv(r)'
    BY <1>2, <1>3, Constants DEF ReleaseInv
  <1> QED
    BY <1>4, <1>6, <1>8, <1>9

(* A step that touches neither device nor log nor deployment keeps         *)
(* FlowInv.                                                                *)
LEMMA QuietStep ==
    ASSUME FlowTypeInv, FlowTypeInv', FlowInv, HoldInv',
           Synchronous => PatchInv', Regular => StoredInv',
           UNCHANGED <<device, log>>, unsure \subseteq unsure',
           \A q \in Requests : job'[q].step \in {"audit", "release"} => job'[q] = job[q]
    PROVE  FlowInv'
  <1>1. Closed(device)'
    BY DEF FlowInv, Closed, Uses
  <1>2. ASSUME NEW q \in Requests, job'[q].step = "audit"
        PROVE  TargetInv(q)' /\ AuditInv(q)' /\ MovingInv(q)'
    <2>1. job'[q] = job[q] /\ job[q].step = "audit"
      BY <1>2
    <2> QED
      BY <2>1, DeploymentKept DEF FlowInv
  <1>3. ASSUME NEW q \in Requests, job'[q].step = "release"
        PROVE  ReleaseInv(q)'
    <2>1. job'[q] = job[q] /\ job[q].step = "release"
      BY <1>3
    <2> QED
      BY <2>1, DeploymentKept DEF FlowInv
  <1> QED
    BY <1>1, <1>2, <1>3, Constants DEF FlowInv

(* The device has what is stored as long as neither changes.               *)
LEMMA StoredKept ==
    ASSUME StoredInv, UNCHANGED <<device, log>>, unsure \subseteq unsure',
           (\A q \in Requests : job'[q].step # "audit") => \A q \in Requests : job[q].step # "audit"
    PROVE  StoredInv'
  BY DEF StoredInv, Last, Matches, Has

(* A deployment that is given up leaves the other tenants as they are      *)
(* stored.                                                                 *)
LEMMA GivenUp ==
    ASSUME Regular, FlowTypeInv, FlowInv, NEW r \in Requests, job[r].step = "audit",
           UNCHANGED <<device, log>>, unsure' = unsure \cup DOMAIN job[r].target
    PROVE  StoredInv'
  <1>1. TargetInv(r) /\ AuditInv(r) /\ Whole(r) /\ Synchronous
    BY EndsIsWhole DEF FlowInv, Regular
  <1> SUFFICES ASSUME NEW t \in Tenants \ unsure'
               PROVE  Matches(t, Last[t])'
    BY DEF StoredInv
  <1>2. t \notin unsure /\ t \notin DOMAIN job[r].target /\ ~ Good(r, t)
    BY DEF Good
  <1>3. job[r].prev = Last
    BY <1>1, <1>2 DEF TargetInv
  <1>4. Matches(t, Last[t])
    BY <1>1, <1>2, <1>3 DEF AuditInv, WholeInv, Matches, Has
  <1> QED
    BY <1>4 DEF Matches, Has, Last

(* The steps before the audit, after storing and out of it are quiet.      *)
LEMMA QuietActions ==
    ASSUME FlowTypeInv, FlowTypeInv', Synchronous => HistoryInv, FlowInv, HoldInv',
           NEW r \in Requests,
           \/ Begin(r) \/ List(r) \/ Fetch(r) \/ Lock(r) \/ Refused(r) \/ Rejected(r)
           \/ Unstored(r) \/ Release(r) \/ Output(r) \/ Crash(r)
    PROVE  FlowInv'
  <1>1. /\ HoldInv /\ (Regular => StoredInv) /\ (Synchronous => PatchInv)
        /\ \A i \in DOMAIN log : log[i] = log[i]
    BY DEF FlowInv
  <1>2. ASSUME \A q \in Requests \ {r} : job'[q] = job[q],
               job'[r].step \notin {"audit", "release"},
               UNCHANGED <<device, log>>, unsure \subseteq unsure', Synchronous => PatchInv',
               job[r].step = "audit" => unsure' = unsure \cup DOMAIN job[r].target
        PROVE  FlowInv'
    <2>1. \A q \in Requests : job'[q].step \in {"audit", "release"} => job'[q] = job[q]
      BY <1>2
    <2>2. Regular => StoredInv'
      <3>1. CASE job[r].step = "audit"
        BY <1>2, <3>1, GivenUp
      <3>2. CASE job[r].step # "audit"
        <4>1. (\A q \in Requests : job'[q].step # "audit") =>
                  \A q \in Requests : job[q].step # "audit"
          BY <1>2, <3>2
        <4> QED
          BY <1>1, <1>2, <4>1, StoredKept
      <3> QED
        BY <3>1, <3>2
    <2> QED
      BY <1>2, <2>1, <2>2, QuietStep
  <1>3. CASE Begin(r) \/ List(r) \/ Fetch(r)
    <2>1. UNCHANGED <<device, log, unsure>>
      BY <1>3, Zenon DEF Begin, List, Fetch
    <2>2. /\ job[r].step \in {"new", "list", "fetch"}
          /\ job'[r].step \in {"list", "fetch", "lock", "done"}
          /\ \A q \in Requests \ {r} : job'[q] = job[q]
          /\ Synchronous => PatchInv'
      BY <1>1, <1>3, Arrives
    <2> QED
      BY <1>2, <2>1, <2>2
  <1>4. ASSUME UNCHANGED log, \A q \in Requests \ {r} : job'[q] = job[q],
               \/ job'[r].step \notin {"list", "fetch", "lock", "prepare"}
               \/ /\ Keeps(job'[r], job[r])
                  /\ job'[r].step = "prepare" /\ job[r].step = "lock"
        PROVE  Synchronous => PatchInv'
    <2>1. ASSUME NEW q \in Requests
          PROVE  \/ job'[q].step \notin {"list", "fetch", "lock", "prepare"}
                 \/ /\ job'[q].form = job[q].form /\ job'[q].base = job[q].base
                    /\ job'[q].picked = job[q].picked
                    /\ \/ job'[q].step = job[q].step
                       \/ job'[q].step = "prepare" /\ job[q].step = "lock"
      BY <1>4 DEF Keeps
    <2> QED
      BY <1>1, <1>4, <2>1, PatchKept
  <1>5. CASE Lock(r)
    <2>1. /\ UNCHANGED <<device, log, unsure>> /\ job[r].step = "lock"
      BY <1>5 DEF Lock
    <2>2. /\ job'[r].step = "prepare" /\ Keeps(job'[r], job[r])
          /\ \A q \in Requests \ {r} : job'[q] = job[q]
      BY <1>5, Ways
    <2> QED
      BY <1>2, <1>4, <2>1, <2>2
  <1>6. CASE Refused(r) \/ Rejected(r) \/ Release(r) \/ Output(r)
    <2>1. UNCHANGED <<device, log, unsure>> /\ job[r].step # "audit"
      BY <1>6 DEF Refused, Rejected, Release, Output
    <2>2. /\ job'[r].step \in {"done", "output"}
          /\ \A q \in Requests \ {r} : job'[q] = job[q]
      BY <1>6, Ways
    <2> QED
      BY <1>2, <1>4, <2>1, <2>2
  <1>7. CASE Unstored(r)
    <2>1. UNCHANGED <<device, log>> /\ unsure' = unsure \cup DOMAIN job[r].target
      BY <1>7 DEF Unstored
    <2>2. /\ job'[r].step = "done" /\ \A q \in Requests \ {r} : job'[q] = job[q]
      BY <1>7, Ways
    <2> QED
      BY <1>2, <1>4, <2>1, <2>2
  <1>8. CASE Crash(r)
    <2>1. /\ UNCHANGED <<device, log>>
          /\ unsure' = IF job[r].step = "audit" THEN unsure \cup DOMAIN job[r].target ELSE unsure
      BY <1>8 DEF Crash
    <2>2. /\ job'[r].step = "crashed" /\ \A q \in Requests \ {r} : job'[q] = job[q]
      BY <1>8, Ways
    <2> QED
      BY <1>2, <1>4, <2>1, <2>2
  <1> QED
    BY <1>3, <1>5, <1>6, <1>7, <1>8

(* So are the steps that change nothing of a deployment.                   *)
LEMMA QuietOthers ==
    ASSUME FlowTypeInv, FlowTypeInv', FlowInv, HoldInv',
           UNCHANGED <<device, log, job, unsure>>
    PROVE  FlowInv'
  <1>1. Synchronous => PatchInv'
    BY PatchKept DEF FlowInv
  <1>2. Regular => StoredInv'
    BY StoredKept DEF FlowInv
  <1> QED
    BY <1>1, <1>2, QuietStep

(* A script that ends late sets its tenant apart.                          *)
LEMMA ScriptStep ==
    ASSUME FlowTypeInv, FlowTypeInv', FlowInv, HoldInv', ScriptEnds
    PROVE  FlowInv'
  <1>1. PICK s \in scripts :
            /\ LET after == [device EXCEPT ![s.tenant] = s.content]
               IN  device' = IF Closed(after) THEN after ELSE device
            /\ unsure' = unsure \cup {s.tenant}
    BY Zenon DEF ScriptEnds
  <1>2. Closed(device) /\ (Regular => StoredInv) /\ (Synchronous => PatchInv)
    BY DEF FlowInv
  <1>3. /\ log' = log /\ s.tenant \in unsure' /\ unsure \subseteq unsure'
        /\ \A t \in Tenants \ {s.tenant} : device'[t] = device[t]
        /\ Closed(device')
    BY <1>1, <1>2 DEF ScriptEnds, FlowTypeInv
  <1>4. Last' = Last /\ Before' = Before
    BY <1>3 DEF Last, Before
  <1>5. unsure' \subseteq Tenants
    BY DEF FlowTypeInv
  <1>6. \A r \in Requests : /\ SameBut(job'[r], job[r])
                            /\ job'[r].todo = job[r].todo /\ job'[r].adding = job[r].adding
                            /\ job'[r].failed = job[r].failed
                            /\ job'[r].spoilt = (job[r].spoilt \/ job[r].step = "audit")
    BY ScriptTyped
  <1>7. Regular => StoredInv'
    <2>1. SUFFICES ASSUME Regular, \A r \in Requests : job'[r].step # "audit",
                          NEW t \in Tenants \ unsure'
                   PROVE  Matches(t, Last[t])'
      BY Zenon DEF StoredInv
    <2>2. \A r \in Requests : job[r].step # "audit"
      BY <1>6, <2>1 DEF SameBut
    <2>3. t \notin unsure /\ device'[t] = device[t]
      BY <1>3, <2>1
    <2>4. Matches(t, Last[t])
      BY <1>2, <2>1, <2>2, <2>3 DEF StoredInv
    <2> QED
      BY <1>4, <2>3, <2>4 DEF Matches, Has
  <1>8. Synchronous => PatchInv'
    <2>1. ASSUME NEW q \in Requests
          PROVE  /\ job'[q].form = job[q].form /\ job'[q].base = job[q].base
                 /\ job'[q].picked = job[q].picked /\ job'[q].step = job[q].step
      BY <1>6 DEF SameBut
    <2> QED
      BY <1>2, <1>3, <2>1, PatchKept
  <1>9. ASSUME NEW r \in Requests, job'[r].step = "audit"
        PROVE  TargetInv(r)' /\ AuditInv(r)' /\ MovingInv(r)'
    <2>1. /\ SameBut(job'[r], job[r]) /\ job[r].step = "audit"
          /\ job'[r].todo = job[r].todo /\ job'[r].adding = job[r].adding
          /\ job'[r].failed = job[r].failed /\ job'[r].spoilt = TRUE
      BY <1>6, <1>9 DEF SameBut
    <2>2. TargetInv(r) /\ AuditInv(r)
      BY <2>1 DEF FlowInv
    <2>3. TargetInv(r)'
      BY <1>3, <1>4, <1>5, <2>1, <2>2, Constants DEF TargetInv, SameBut
    <2>4. Left(r)' = Left(r) /\ Whole(r)' = Whole(r)
      BY <2>1, Constants DEF Left, Whole, SameBut
    <2>5. \A t \in Tenants : Good(r, t)' = Good(r, t)
      BY <2>1, <2>4 DEF Good, SameBut
    <2>6. ASSUME NEW t \in Tenants
          PROVE  t \in unsure' \/ (t \notin unsure /\ device'[t] = device[t])
      BY <1>3
    <2>7. AuditInv(r)'
      <3>1. /\ Left(r)' \subseteq DOMAIN job'[r].target
            /\ job'[r].failed \subseteq DOMAIN job'[r].target
            /\ \A t \in Tenants : \/ t \in unsure' \/ t \in DOMAIN job'[r].target
                                  \/ device'[t] = job'[r].before[t]
        BY <1>3, <2>1, <2>2, <2>4, <2>6 DEF AuditInv, SameBut
      <3>2. ASSUME Whole(r)
            PROVE  WholeInv(r)'
        <4>1. /\ Plan(job'[r].todo, job'[r].adding)
              /\ \A t \in Left(r)' \cap job'[r].failed : t = Common /\ t \in unsure'
          BY <1>3, <2>1, <2>2, <2>4, <3>2 DEF AuditInv, WholeInv
        <4>2. ASSUME NEW t \in Tenants
              PROVE  /\ Good(r, t)' => \/ device'[t] = job'[r].target[t]
                                       \/ (job'[r].spoilt /\ t \in unsure')
                     /\ Regular =>
                           t \in unsure' \/ Good(r, t)' \/
                           IF t = Common
                           THEN /\ \A n \in Names : job'[r].prev[t][n] \in {0, device'[t][n]}
                                /\ job'[r].prev[t] = Nothing =>
                                      \/ device'[t] = Nothing
                                      \/ /\ t \in DOMAIN job'[r].target \ job'[r].failed
                                         /\ ~ job'[r].form.dryRun
                                         /\ device'[t] = job'[r].target[t]
                           ELSE device'[t] = job'[r].prev[t]
          <5>1. CASE t \in unsure'
            BY <2>1, <5>1
          <5>2. CASE t \notin unsure'
            <6>1. t \notin unsure /\ device'[t] = device[t]
              BY <2>6, <5>2
            <6> QED
              BY <2>1, <2>2, <2>5, <3>2, <5>2, <6>1 DEF AuditInv, WholeInv, SameBut
          <5> QED
            BY <5>1, <5>2
        <4> QED
          BY <4>1, <4>2, Constants DEF WholeInv
      <3> QED
        BY <2>4, <3>1, <3>2 DEF AuditInv
    <2>8. MovingInv(r)'
      BY <2>1 DEF MovingInv, Consistent
    <2> QED
      BY <2>3, <2>7, <2>8
  <1>10. ASSUME NEW r \in Requests, job'[r].step = "release"
         PROVE  ReleaseInv(r)'
    <2>1. /\ SameBut(job'[r], job[r]) /\ job[r].step = "release"
          /\ job'[r].failed = job[r].failed /\ job'[r].spoilt = job[r].spoilt
      <3>1. /\ SameBut(job'[r], job[r]) /\ job[r].step = "release"
            /\ job'[r].failed = job[r].failed
            /\ job'[r].spoilt = (job[r].spoilt \/ job[r].step = "audit")
        BY <1>6, <1>10 DEF SameBut
      <3>2. job[r].spoilt \in BOOLEAN
        BY JobTyped DEF FlowTypeInv, JobsInv
      <3> QED
        BY <3>1, <3>2
    <2>2. ReleaseInv(r)
      BY <2>1 DEF FlowInv
    <2>3. Consistent(r)' = Consistent(r) /\ Whole(r)' = Whole(r)
      BY <2>1, Constants DEF Consistent, Whole, SameBut
    <2>4. \A t \in Tenants \ unsure' : t \notin unsure /\ device'[t] = device[t]
      BY <1>3
    <2>5. DOMAIN job[r].target \subseteq Tenants
      BY PartsAre DEF FlowTypeInv, JobsInv, Jobs, IsPart
    <2> QED
      BY <1>4, <2>1, <2>2, <2>3, <2>4, <2>5, Constants DEF ReleaseInv, SameBut
  <1> QED
    BY <1>3, <1>7, <1>8, <1>9, <1>10, Constants DEF FlowInv, Closed, Uses

-----------------------------------------------------------------------------
(* The beginning of an audit *)

(* What is prepared, from what was stored last or from nothing.            *)
LEMMA PrepareTarget ==
    ASSUME FlowTypeInv, HistoryTypeInv, NEW r \in Requests, Prepare(r)
    PROVE  \E prev \in [Tenants -> Contents], base \in Parts, mode \in Modes, kept \in Modes :
              /\ Become(r, Target(r, base, mode, kept, prev))
              /\ (prev = Prev /\ unsure' = unsure) \/ unsure' = Tenants
              /\ job[r].form.action = "patch" => base = job[r].base
  <1>1. log \in Seq(Entries) /\ job[r] \in Jobs /\ job[r].form \in Forms[r]
    BY DEF Prepare, FlowTypeInv, JobsInv
  <1>2. PICK prev \in {Prev, Empty} :
            /\ PrepareWith(r, prev)
            /\ (prev = Prev /\ unsure' = unsure) \/ unsure' = Tenants
    BY DEF Prepare
  <1>3. prev \in [Tenants -> Contents]
    BY <1>2, PrevTyped, PartsAre
  <1>4. CASE job[r].form.action = "redeploy"
    <2> DEFINE age == RedeployAge(job[r].form)
               old == OfAge(history, age)
               mode == IF job[r].mode = "original" THEN old.mode ELSE job[r].mode
    <2>1. HasAge(history, age) /\ Become(r, Target(r, Some(old.decl), mode, old.mode, prev))
      BY <1>2, <1>4 DEF PrepareWith
    <2>2. age \in Nat
      BY <1>1, FormsTyped DEF RedeployAge
    <2>3. old \in history
      BY <1>1, <2>1, <2>2, AgeIsTaken
    <2>4. old.decl \in Parts /\ old.mode \in Modes
      BY <2>3, PartsAre DEF HistoryTypeInv
    <2>5. mode \in Modes
      BY <1>1, <2>4, JobTyped
    <2>6. Some(old.decl) \in Parts
      BY <2>4, SomeIsPart
    <2> HIDE DEF old, mode
    <2> QED
      BY <1>2, <1>3, <1>4, <2>1, <2>4, <2>5, <2>6
  <1>5. CASE job[r].form.action # "redeploy"
    <2>1. Become(r, Target(r, job[r].base, job[r].mode, job[r].mode, prev))
      BY <1>2, <1>5 DEF PrepareWith
    <2>2. job[r].base \in Parts /\ job[r].mode \in Modes
      BY <1>1, JobTyped
    <2> QED
      BY <1>2, <1>3, <2>1, <2>2
  <1> QED
    BY <1>4, <1>5

(* What a deployment consists of.                                          *)
LEMMA TargetIs ==
    ASSUME FlowTypeInv, HistoryTypeInv, NEW base \in Parts, NEW mode \in Modes,
           NEW prev \in [Tenants -> Contents], NEW action
    PROVE  LET wanted == Over(base, Unwanted(mode, base, prev))
               common == CommonFor(action, wanted)
               target == Over(wanted, common)
               stored == Over(base, common)
           IN  /\ target \in Parts /\ stored \in Parts
               /\ DOMAIN target \subseteq Tenants
               /\ DOMAIN stored \subseteq DOMAIN target
               /\ \A t \in DOMAIN target : target[t] = Over(stored, Empty)[t]
               /\ mode = "complete" => Named(prev) \subseteq DOMAIN target
               /\ mode # "complete" => DOMAIN target \subseteq DOMAIN base \cup {Common}
               /\ \A t \in DOMAIN target : /\ t \in DOMAIN base => target[t] = base[t]
                                           /\ t \notin DOMAIN base /\ mode # "complete" =>
                                                  target[t] = Prev[Common]
  <1> DEFINE unwanted == Unwanted(mode, base, prev)
             wanted == Over(base, unwanted)
             common == CommonFor(action, wanted)
             target == Over(wanted, common)
             stored == Over(base, common)
  <1>1. log \in Seq(Entries) /\ prev \in Parts /\ Empty \in Parts
    BY PartsAre DEF FlowTypeInv
  <1>2. /\ unwanted \in Parts
        /\ mode = "complete" => DOMAIN unwanted = Named(prev) \ DOMAIN base
        /\ mode # "complete" => DOMAIN unwanted = {}
        /\ \A t \in DOMAIN unwanted : t \notin DOMAIN base /\ unwanted[t] = Nothing
    BY <1>1, UnwantedIsPart
  <1> HIDE DEF unwanted
  <1>3. /\ wanted \in Parts
        /\ DOMAIN wanted = DOMAIN base \cup DOMAIN unwanted
        /\ \A t \in DOMAIN base : wanted[t] = base[t]
        /\ \A t \in DOMAIN unwanted \ DOMAIN base : wanted[t] = unwanted[t]
    BY <1>2, OverIsPart
  <1> HIDE DEF wanted
  <1>4. /\ common \in Parts
        /\ DOMAIN common \subseteq {Common} \ DOMAIN wanted
        /\ \A t \in DOMAIN common : common[t] = Prev[Common]
    BY <1>1, CommonIsPart
  <1> HIDE DEF common
  <1>5. /\ target \in Parts
        /\ DOMAIN target = DOMAIN wanted \cup DOMAIN common
        /\ \A t \in DOMAIN wanted : target[t] = wanted[t]
        /\ \A t \in DOMAIN common \ DOMAIN wanted : target[t] = common[t]
    BY <1>3, <1>4, OverIsPart
  <1>6. /\ stored \in Parts
        /\ DOMAIN stored = DOMAIN base \cup DOMAIN common
        /\ \A t \in DOMAIN base : stored[t] = base[t]
        /\ \A t \in DOMAIN common \ DOMAIN base : stored[t] = common[t]
    BY <1>4, OverIsPart
  <1> HIDE DEF target, stored
  <1>7. /\ \A t \in DOMAIN stored : Over(stored, Empty)[t] = stored[t]
        /\ \A t \in DOMAIN Empty \ DOMAIN stored : Over(stored, Empty)[t] = Empty[t]
    BY <1>1, <1>6, OverIsPart
  <1>8. DOMAIN target \subseteq Tenants
    BY <1>5, PartsAre DEF IsPart
  <1>9. ASSUME NEW t \in DOMAIN target
        PROVE  target[t] = Over(stored, Empty)[t]
    <2>1. CASE t \in DOMAIN base
      BY <1>3, <1>5, <1>6, <1>7, <2>1
    <2>2. CASE t \in DOMAIN unwanted
      <3>1. t \notin DOMAIN stored /\ target[t] = Nothing
        BY <1>2, <1>3, <1>4, <1>5, <1>6, <2>2
      <3>2. t \in DOMAIN Empty /\ Empty[t] = Nothing
        BY <1>8 DEF Empty
      <3> QED
        BY <1>7, <3>1, <3>2
    <2>3. CASE t \in DOMAIN common
      BY <1>3, <1>4, <1>5, <1>6, <1>7, <2>3
    <2> QED
      BY <1>3, <1>5, <2>1, <2>2, <2>3
  <1>10. mode = "complete" => Named(prev) \subseteq DOMAIN target
    BY <1>2, <1>3, <1>5
  <1>11. mode # "complete" => DOMAIN target \subseteq DOMAIN base \cup {Common}
    BY <1>2, <1>3, <1>4, <1>5
  <1>12. \A t \in DOMAIN target : /\ t \in DOMAIN base => target[t] = base[t]
                                  /\ t \notin DOMAIN base /\ mode # "complete" =>
                                         target[t] = Prev[Common]
    BY <1>2, <1>3, <1>4, <1>5
  <1>13. DOMAIN stored \subseteq DOMAIN target
    BY <1>3, <1>5, <1>6
  <1> QED
    BY <1>5, <1>6, <1>8, <1>9, <1>10, <1>11, <1>12, <1>13
       DEF unwanted, wanted, common, target, stored

(* What a fresh PATCH deploys.                                             *)
LEMMA PatchTarget ==
    ASSUME FlowTypeInv, HistoryInv, NEW r \in Requests, PatchBase(r),
           job[r].form \in Forms[r], history # {} => job[r].picked = Newest.stamp
    PROVE  /\ DOMAIN job[r].base \subseteq DOMAIN job[r].form.decl \cup {Common}
           /\ \A t \in DOMAIN job[r].base \ DOMAIN job[r].form.decl : job[r].base[t] = Last[Common]
  <1>1. CASE job[r].base = job[r].form.decl
    BY <1>1
  <1>2. ASSUME NEW i \in DOMAIN log, job[r].picked = i + 1,
               job[r].base = Over(job[r].form.decl,
                                  Filtered(Some(log[i].decl), DOMAIN job[r].form.decl))
        PROVE  /\ DOMAIN job[r].base \subseteq DOMAIN job[r].form.decl \cup {Common}
               /\ \A t \in DOMAIN job[r].base \ DOMAIN job[r].form.decl :
                     job[r].base[t] = Last[Common]
    <2> DEFINE decl == job[r].form.decl
               found == Filtered(Some(log[i].decl), DOMAIN decl)
    <2>1. /\ log \in Seq(Entries) /\ log # <<>> /\ i \in 1..Len(log) /\ Len(log) \in Nat
          /\ log[i].decl \in Parts
      BY <1>2, LogTyped, PartsAre DEF FlowTypeInv
    <2>2. i = Len(log)
      <3>1. Newest = Deployed(log, Len(log)) /\ history # {}
        BY <2>1, PrevIsLast
      <3>2. Newest.stamp = Len(log) + 1
        BY <3>1 DEF Deployed
      <3> QED
        BY <1>2, <2>1, <3>1, <3>2
    <2>3. log[i].decl = Last
      BY <2>1, <2>2 DEF Last
    <2>4. decl \in Parts /\ DOMAIN decl \in SUBSET Tenants
      BY FormsTyped, PartsAre DEF IsPart
    <2>5. found \in Parts
      BY <2>1, <2>4, SomeIsPart
    <2>6. /\ DOMAIN found \subseteq DOMAIN decl \cup {Common}
          /\ \A t \in DOMAIN found : found[t] = Last[t]
      BY <2>3 DEF Filtered, Some, Named
    <2> HIDE DEF found
    <2>7. /\ DOMAIN job[r].base = DOMAIN decl \cup DOMAIN found
          /\ \A t \in DOMAIN found \ DOMAIN decl : job[r].base[t] = found[t]
      <3>1. job[r].base = Over(decl, found)
        BY <1>2 DEF found
      <3> HIDE DEF decl
      <3>2. /\ DOMAIN Over(decl, found) = DOMAIN decl \cup DOMAIN found
            /\ \A t \in DOMAIN found \ DOMAIN decl : Over(decl, found)[t] = found[t]
        BY <2>4, <2>5, OverIsPart
      <3> QED
        BY <3>1, <3>2
    <2> QED
      BY <2>6, <2>7
  <1> QED
    BY <1>1, <1>2 DEF PatchBase

(* An audit begins with every tenant as it was.                            *)
LEMMA PrepareStep ==
    ASSUME FlowTypeInv, FlowTypeInv', HistoryTypeInv, Synchronous => HistoryInv,
           FlowInv, HoldInv', NEW r \in Requests, Prepare(r)
    PROVE  FlowInv'
  <1>1. PICK prev \in [Tenants -> Contents], base \in Parts, mode \in Modes, kept \in Modes :
            /\ Become(r, Target(r, base, mode, kept, prev))
            /\ (prev = Prev /\ unsure' = unsure) \/ unsure' = Tenants
            /\ job[r].form.action = "patch" => base = job[r].base
    BY PrepareTarget
  <1> DEFINE wanted == Over(base, Unwanted(mode, base, prev))
             common == CommonFor(job[r].form.action, wanted)
             target == Over(wanted, common)
             stored == Over(base, common)
             new    == Target(r, base, mode, kept, prev)
  <1>2. /\ job[r].step = "prepare" /\ device' = device /\ log' = log
        /\ job[r].form \in Forms[r] /\ unsure \subseteq Tenants
    BY DEF Prepare, FlowTypeInv, JobsInv
  <1>3. /\ job'[r] = new /\ \A q \in Requests \ {r} : job'[q] = job[q]
    BY <1>1 DEF Become, FlowTypeInv, JobsInv
  <1>4. /\ new.form = job[r].form /\ new.base = stored /\ new.mode = mode
        /\ new.prev = prev /\ new.target = target
        /\ new.todo = TenantList(DOMAIN target)
        /\ new.adding = (Common \in DOMAIN target)
        /\ new.failed = job[r].failed /\ new.spoilt = job[r].spoilt
        /\ new.before = device /\ new.step = "audit"
        /\ new.fresh = (history # {} => job[r].picked = Newest.stamp)
    BY TargetFields
  <1>5. job[r].failed = {}
    BY <1>2 DEF FlowInv, HoldInv, WaitInv
  <1>6. /\ target \in Parts /\ stored \in Parts
        /\ DOMAIN target \in SUBSET Tenants
        /\ DOMAIN stored \subseteq DOMAIN target
        /\ \A t \in DOMAIN target : target[t] = Over(stored, Empty)[t]
        /\ mode = "complete" => Named(prev) \subseteq DOMAIN target
        /\ mode # "complete" => DOMAIN target \subseteq DOMAIN base \cup {Common}
        /\ \A t \in DOMAIN target : /\ t \in DOMAIN base => target[t] = base[t]
                                    /\ t \notin DOMAIN base /\ mode # "complete" =>
                                           target[t] = Prev[Common]
    BY TargetIs
  <1> HIDE DEF wanted, common, target, stored, new
  <1>7. \A q \in Requests \ {r} : job[q].step \notin {"prepare", "audit", "release"}
    BY <1>2 DEF FlowInv, HoldInv
  <1>8. \A q \in Requests : job[q].step # "audit"
    BY <1>2, <1>7
  <1>9. Regular => \A t \in Tenants \ unsure : Matches(t, Last[t])
    BY <1>8 DEF FlowInv, StoredInv
  <1>10. Last' = Last /\ (Synchronous => Prev = Last)
    BY <1>2, PrevIsLast DEF Last, FlowTypeInv
  <1>11. TargetInv(r)'
    <2>1. Synchronous => prev = Last' \/ unsure' = Tenants
      BY <1>1, <1>10
    <2>2. ASSUME Synchronous, job[r].form.action = "patch", mode = "selective",
                 history # {} => job[r].picked = Newest.stamp
          PROVE  /\ DOMAIN target \subseteq DOMAIN job[r].form.decl \cup {Common}
                 /\ Common \in DOMAIN target \ DOMAIN job[r].form.decl =>
                        target[Common] = Last[Common]
      <3>1. PatchBase(r)
        BY <1>2, <2>2 DEF FlowInv, PatchInv
      <3>2. base = job[r].base
        BY <1>1, <2>2
      <3>3. /\ DOMAIN base \subseteq DOMAIN job[r].form.decl \cup {Common}
            /\ \A t \in DOMAIN base \ DOMAIN job[r].form.decl : base[t] = Last[Common]
        BY <1>2, <2>2, <3>1, <3>2, PatchTarget
      <3> QED
        BY <1>6, <1>10, <2>2, <3>3
    <2> QED
      BY <1>3, <1>4, <1>6, <1>10, <2>1, <2>2, Constants DEF TargetInv
  <1>12. /\ job'[r].todo = TenantList(DOMAIN target)
         /\ job'[r].adding = (Common \in DOMAIN target)
         /\ Left(r)' = DOMAIN target
         /\ Plan(job'[r].todo, job'[r].adding)
    <2>1. /\ ToDo(TenantList(DOMAIN target)) = DOMAIN target
          /\ Plan(TenantList(DOMAIN target), Common \in DOMAIN target)
      BY <1>6, ListIsPlan
    <2>2. /\ job'[r].todo = TenantList(DOMAIN target)
          /\ job'[r].adding = (Common \in DOMAIN target)
      BY <1>3, <1>4
    <2> QED
      BY <2>1, <2>2, Zenon DEF Left
  <1>13. AuditInv(r)'
    <2>1. /\ Left(r)' \subseteq DOMAIN job'[r].target /\ job'[r].failed = {}
      BY <1>3, <1>4, <1>5, <1>12
    <2>2. ASSUME NEW t \in Tenants
          PROVE  ~ Good(r, t)'
      BY <1>3, <1>4, <1>12 DEF Good
    <2>3. ASSUME Regular, NEW t \in Tenants, t \notin unsure'
          PROVE  IF t = Common
                 THEN /\ \A n \in Names : job'[r].prev[t][n] \in {0, device'[t][n]}
                      /\ job'[r].prev[t] = Nothing => device'[t] = Nothing
                 ELSE device'[t] = job'[r].prev[t]
      <3>1. prev = Last /\ t \notin unsure
        BY <1>1, <1>10, <2>3 DEF Regular
      <3>2. Matches(t, Last[t])
        BY <1>9, <2>3, <3>1
      <3> QED
        BY <1>2, <1>3, <1>4, <3>1, <3>2 DEF Matches, Has
    <2>4. \A t \in Tenants : device'[t] = job'[r].before[t]
      BY <1>2, <1>3, <1>4
    <2> QED
      BY <1>12, <2>1, <2>2, <2>3, <2>4, Constants DEF AuditInv, WholeInv
  <1>14. MovingInv(r)'
    <2>1. \A t \in Tenants : Moving(r, t)' = device'[t]
      BY <1>2, <1>3, <1>4, <1>12 DEF Moving
    <2> QED
      BY <1>3, <1>4, <1>5, <2>1 DEF MovingInv
  <1>15. StoredInv'
    BY <1>3, <1>4 DEF StoredInv
  <1>16. Synchronous => PatchInv'
    <2>1. \A q \in Requests : job'[q].step = "audit" \/ job'[q] = job[q]
      BY <1>3, <1>4
    <2> QED
      BY <1>2, <2>1, PatchKept DEF FlowInv
  <1>17. \A q \in Requests : /\ job'[q].step # "release"
                             /\ job'[q].step = "audit" => q = r
    BY <1>3, <1>4, <1>7
  <1>18. Closed(device)'
    BY <1>2 DEF FlowInv, Closed, Uses
  <1> QED
    BY <1>11, <1>13, <1>14, <1>15, <1>16, <1>17, <1>18, Constants DEF FlowInv

-----------------------------------------------------------------------------
(* The audit of a tenant *)

(* What is known when a tenant is audited.                                 *)
LEMMA AuditFacts ==
    ASSUME FlowTypeInv, FlowInv, NEW r \in Requests, NEW t \in Tenants, Audits(r, t)
    PROVE  /\ job[r] \in Jobs /\ job[r].form \in Forms[r] /\ job[r].step = "audit"
           /\ TargetInv(r) /\ AuditInv(r) /\ MovingInv(r)
           /\ t \in Left(r) /\ t \in DOMAIN job[r].target /\ DOMAIN job[r].target \subseteq Tenants
           /\ Left(r) \subseteq DOMAIN job[r].target
           /\ DOMAIN job[r].prev = Tenants /\ DOMAIN job[r].before = Tenants
           /\ \A x \in Tenants : /\ device[x] \in Contents /\ job[r].before[x] \in Contents
                                 /\ job[r].prev[x] \in Contents
           /\ \A x \in DOMAIN job[r].target : job[r].target[x] \in Contents
           /\ ToDo(Tail(job[r].todo)) \subseteq Left(r)
           /\ Consistent(r) => Whole(r)
           /\ \A q \in Requests \ {r} : job[q].step \notin {"prepare", "audit", "release"}
  <1>1. job[r].step = "audit" /\ job[r].todo # <<>> /\ t = Head(job[r].todo)
    BY DEF Audits
  <1>2. job[r] \in Jobs /\ job[r].form \in Forms[r] /\ DOMAIN job[r].prev = Tenants
        /\ DOMAIN job[r].before = Tenants
    BY <1>1 DEF FlowTypeInv, JobsInv
  <1>3. TargetInv(r) /\ AuditInv(r) /\ MovingInv(r)
    BY <1>1 DEF FlowInv
  <1>4. job[r].todo \in Seq(Tenants) /\ Left(r) \subseteq DOMAIN job[r].target
    BY <1>2, <1>3, JobTyped DEF AuditInv
  <1>5. /\ t \in Left(r) /\ ToDo(Tail(job[r].todo)) \subseteq Left(r)
        /\ Consistent(r) => Whole(r)
    <2>1. ASSUME NEW s \in Seq(Tenants), s # <<>>
          PROVE  Head(s) \in ToDo(s) /\ ToDo(Tail(s)) \subseteq ToDo(s)
      <3>1. /\ Len(s) \in Nat /\ Len(s) > 0 /\ Head(s) = s[1]
            /\ DOMAIN s = 1..Len(s) /\ DOMAIN Tail(s) = 1..(Len(s) - 1)
            /\ \A i \in 1..(Len(s) - 1) : Tail(s)[i] = s[i + 1]
        BY <2>1, HeadTailProperties
      <3>2. 1 \in DOMAIN s /\ \A i \in 1..(Len(s) - 1) : i + 1 \in DOMAIN s
        BY <3>1
      <3> QED
        BY <3>1, <3>2 DEF ToDo
    <2> QED
      BY <1>1, <1>3, <1>4, <2>1 DEF Left, MovingInv, Whole
  <1>6. /\ job[r].prev \in Parts /\ job[r].before \in Parts /\ job[r].target \in Parts
        /\ device \in [Tenants -> Contents]
    BY <1>2, JobTyped DEF FlowTypeInv
  <1>7. /\ \A x \in Tenants : /\ device[x] \in Contents /\ job[r].before[x] \in Contents
                              /\ job[r].prev[x] \in Contents
        /\ \A x \in DOMAIN job[r].target : job[r].target[x] \in Contents
        /\ DOMAIN job[r].target \subseteq Tenants
    BY <1>2, <1>6, PartsAre DEF IsPart
  <1>8. \A q \in Requests \ {r} : job[q].step \notin {"prepare", "audit", "release"}
    BY <1>1 DEF FlowInv, HoldInv
  <1> QED
    BY <1>1, <1>2, <1>3, <1>4, <1>5, <1>7, <1>8

(* What is known of the order, too, while no error has ended the first     *)
(* pass of Common.                                                         *)
LEMMA WholeFacts ==
    ASSUME FlowTypeInv, FlowInv, NEW r \in Requests, NEW t \in Tenants, Audits(r, t), Whole(r)
    PROVE  /\ WholeInv(r)
           /\ Plan(Tail(job[r].todo), FALSE)
           /\ job[r].adding => t = Common /\ ToDo(Tail(job[r].todo)) = Left(r)
           /\ ~ job[r].adding => ToDo(Tail(job[r].todo)) = Left(r) \ {t}
           /\ ~ job[r].adding /\ t = Common => Left(r) = {Common}
  <1>1. /\ job[r] \in Jobs /\ WholeInv(r)
        /\ job[r].todo # <<>> /\ t = Head(job[r].todo)
    BY AuditFacts DEF AuditInv, Audits
  <1>2. /\ job[r].todo \in Seq(Tenants) /\ job[r].adding \in BOOLEAN
        /\ Plan(job[r].todo, job[r].adding)
    BY <1>1, JobTyped DEF WholeInv
  <1> QED
    BY <1>1, <1>2, PlanGoesOn DEF Left

(* The audit of one tenant decides about that tenant.                      *)
LEMMA AuditKept ==
    ASSUME FlowTypeInv, FlowTypeInv', FlowInv, NEW r \in Requests, NEW t \in Tenants, Audits(r, t),
           SameBut(job'[r], job[r]), job'[r].todo = Tail(job[r].todo),
           job'[r].failed \in {job[r].failed, job[r].failed \cup {t}},
           job'[r].spoilt \/ job'[r].spoilt = job[r].spoilt,
           \A x \in Tenants \ {t} : device'[x] = device[x],
           unsure' \in {unsure, unsure \cup {t}},
           Whole(r)' =>
              /\ ~ job'[r].adding
              /\ t \in Left(r)' \cap job'[r].failed => t = Common /\ t \in unsure'
              /\ Good(r, t)' => device'[t] = job[r].target[t] \/ (job'[r].spoilt /\ t \in unsure')
              /\ Regular =>
                    \/ t \in unsure'
                    \/ Good(r, t)'
                    \/ IF t = Common
                       THEN /\ \A n \in Names : job[r].prev[t][n] \in {0, device'[t][n]}
                            /\ job[r].prev[t] = Nothing =>
                                  \/ device'[t] = Nothing
                                  \/ /\ t \notin job'[r].failed /\ ~ job[r].form.dryRun
                                     /\ device'[t] = job[r].target[t]
                       ELSE device'[t] = job[r].prev[t]
    PROVE  AuditInv(r)'
  <1>1. /\ AuditInv(r) /\ t \in Left(r) /\ t \in DOMAIN job[r].target
        /\ ToDo(Tail(job[r].todo)) \subseteq Left(r)
        /\ Left(r) \subseteq DOMAIN job[r].target
    BY AuditFacts
  <1>2. /\ job'[r].target = job[r].target /\ job'[r].prev = job[r].prev
        /\ job'[r].before = job[r].before /\ job'[r].form = job[r].form
    BY DEF SameBut
  <1>3. Left(r)' = ToDo(Tail(job[r].todo))
    BY DEF Left
  <1>4. /\ Left(r)' \subseteq DOMAIN job'[r].target
        /\ job'[r].failed \subseteq DOMAIN job'[r].target
        /\ \A x \in Tenants : \/ x \in unsure' \/ x \in DOMAIN job'[r].target
                              \/ device'[x] = job'[r].before[x]
    BY <1>1, <1>2, <1>3 DEF AuditInv
  <1>5. ASSUME Whole(r)'
        PROVE  WholeInv(r)'
    <2>1. Whole(r)
      BY <1>2, <1>5, Constants DEF Whole
    <2>2. /\ WholeInv(r) /\ Plan(Tail(job[r].todo), FALSE)
          /\ ToDo(Tail(job[r].todo)) \in {Left(r), Left(r) \ {t}}
      BY <2>1, WholeFacts
    <2>3. Plan(job'[r].todo, job'[r].adding)
      <3>1. job'[r].adding = FALSE
        BY <1>5, JobTyped DEF FlowTypeInv, JobsInv
      <3> QED
        BY <2>2, <3>1
    <2>4. \A x \in Left(r)' \cap job'[r].failed : x = Common /\ x \in unsure'
      BY <1>3, <1>5, <2>2 DEF WholeInv
    <2>5. ASSUME NEW x \in Tenants \ {t}
          PROVE  /\ Good(r, x)' <=> Good(r, x)
                 /\ x \in unsure' <=> x \in unsure
                 /\ x \in job'[r].failed <=> x \in job[r].failed
      BY <1>2, <1>3, <2>2 DEF Good
    <2>6. ASSUME NEW x \in Tenants
          PROVE  /\ Good(r, x)' => \/ device'[x] = job'[r].target[x]
                                   \/ (job'[r].spoilt /\ x \in unsure')
                 /\ Regular =>
                       x \in unsure' \/ Good(r, x)' \/
                       IF x = Common
                       THEN /\ \A n \in Names : job'[r].prev[x][n] \in {0, device'[x][n]}
                            /\ job'[r].prev[x] = Nothing =>
                                  \/ device'[x] = Nothing
                                  \/ /\ x \in DOMAIN job'[r].target \ job'[r].failed
                                     /\ ~ job'[r].form.dryRun
                                     /\ device'[x] = job'[r].target[x]
                       ELSE device'[x] = job'[r].prev[x]
      <3>1. CASE x = t
        BY <1>1, <1>2, <1>5, <3>1
      <3>2. CASE x # t
        <4>1. /\ Good(r, x)' <=> Good(r, x)
              /\ x \in unsure' <=> x \in unsure
              /\ x \in job'[r].failed <=> x \in job[r].failed
              /\ device'[x] = device[x]
          BY <2>5, <3>2
        <4> QED
          BY <1>2, <2>2, <4>1 DEF WholeInv
      <3> QED
        BY <3>1, <3>2
    <2> QED
      BY <2>3, <2>4, <2>6, Constants DEF WholeInv
  <1> QED
    BY <1>4, <1>5 DEF AuditInv

(* What an audit of a tenant leaves alone.                                 *)
LEMMA AuditRest ==
    ASSUME FlowTypeInv, FlowTypeInv', FlowInv, HoldInv', NEW r \in Requests, NEW t \in Tenants,
           Audits(r, t), NEW new, Become(r, new), SameBut(new, job[r]),
           log' = log, unsure \subseteq unsure', Closed(device'), AuditInv(r)', MovingInv(r)'
    PROVE  FlowInv'
  <1>1. /\ TargetInv(r) /\ job[r].step = "audit"
        /\ \A q \in Requests \ {r} : job[q].step \notin {"prepare", "audit", "release"}
    BY AuditFacts
  <1>2. job'[r] = new /\ \A q \in Requests \ {r} : job'[q] = job[q]
    BY DEF Become, FlowTypeInv, JobsInv
  <1>3. SameBut(job'[r], job[r]) /\ job'[r].step = "audit"
    BY <1>1, <1>2 DEF SameBut
  <1>4. Last' = Last /\ unsure' \subseteq Tenants
    BY DEF Last, FlowTypeInv
  <1>5. TargetInv(r)'
    BY <1>1, <1>3, <1>4, Constants DEF TargetInv, SameBut
  <1>6. StoredInv'
    BY <1>3 DEF StoredInv
  <1>7. Synchronous => PatchInv'
    <2>1. \A q \in Requests : job'[q].step = "audit" \/ job'[q] = job[q]
      BY <1>2, <1>3
    <2> QED
      BY <2>1, PatchKept DEF FlowInv
  <1>8. \A q \in Requests : /\ job'[q].step # "release"
                            /\ job'[q].step = "audit" => q = r
    BY <1>1, <1>2, <1>3
  <1>9. Closed(device)'
    BY DEF Closed, Uses
  <1> QED
    BY <1>5, <1>6, <1>7, <1>8, <1>9, Constants DEF FlowInv

(* Additions keep what is there.                                           *)
LEMMA AppliedIs ==
    ASSUME NEW c \in Contents, NEW d \in Contents
    PROVE  /\ Applied(FALSE, c, d) = d /\ Applied(TRUE, d, d) = d /\ Applied(TRUE, Nothing, d) = d
           /\ Applied(TRUE, c, d) \in Contents
           /\ \A n \in Names : Applied(TRUE, c, d)[n] = IF c[n] # 0 THEN c[n] ELSE d[n]
  <1>1. d = [n \in Names |-> d[n]]
    BY DEF Contents
  <1>2. Applied(FALSE, c, d) = d
    BY <1>1 DEF Applied
  <1>3. Applied(TRUE, d, d) = d
    BY <1>1 DEF Applied
  <1>4. Applied(TRUE, Nothing, d) = d
    BY <1>1 DEF Applied, Nothing
  <1>5. Applied(TRUE, c, d) \in Contents
    BY AppliedTyped
  <1> QED
    BY <1>2, <1>3, <1>4, <1>5 DEF Applied

(* An error before the update.                                             *)
LEMMA EarlyStep ==
    ASSUME FlowTypeInv, FlowTypeInv', FlowInv, HoldInv',
           NEW r \in Requests, NEW t \in Tenants, Mismatched(r, t) \/ Unread(r, t)
    PROVE  FlowInv'
  <1>1. Audits(r, t) /\ UNCHANGED <<device, log, unsure>>
    BY DEF Mismatched, Unread
  <1> DEFINE e == Early(r, t)
             s == [e EXCEPT !.spoilt = TRUE]
  <1>2. PICK new : Become(r, new) /\ ((new = e /\ Mismatch(r, t)) \/ new = s)
    BY Zenon DEF Mismatched, Unread
  <1>3. /\ SameBut(new, job[r]) /\ new.todo = Tail(job[r].todo)
        /\ new.adding = job[r].adding /\ new.failed = job[r].failed \cup {t}
        /\ (Mismatch(r, t) /\ new.spoilt = job[r].spoilt) \/ new.spoilt = TRUE
    <2>1. /\ SameBut(e, job[r]) /\ e.todo = Tail(job[r].todo) /\ e.adding = job[r].adding
          /\ e.failed = job[r].failed \cup {t} /\ e.spoilt = job[r].spoilt
      BY <1>1, AuditedTyped
    <2>2. /\ SameBut(s, job[r]) /\ s.todo = Tail(job[r].todo) /\ s.adding = job[r].adding
          /\ s.failed = job[r].failed \cup {t} /\ s.spoilt = TRUE
      BY <1>1, <2>1, AuditedTyped
    <2> HIDE DEF e, s
    <2> QED
      BY <1>2, <2>1, <2>2
  <1>4. job'[r] = new
    BY <1>2 DEF Become, FlowTypeInv, JobsInv
  <1>5. t \in Left(r) /\ t \in DOMAIN job[r].target
    BY <1>1, AuditFacts
  <1> HIDE DEF e, s
  <1>6. ASSUME Whole(r)'
        PROVE  t # Common /\ Whole(r)
    <2>1. Ends(job[r].form) \/ (t # Common /\ Common \notin job[r].failed)
      BY <1>3, <1>4, <1>6, Constants DEF Whole, SameBut
    <2>2. CASE Mismatched(r, t)
      BY <2>1, <2>2 DEF Ends, Mismatched, Mismatch, Whole
    <2>3. CASE Unread(r, t)
      BY <2>1, <2>3 DEF Ends, Unread, Spend, Whole
    <2> QED
      BY <2>2, <2>3
  <1>7. ASSUME Whole(r)'
        PROVE  ~ job[r].adding /\ WholeInv(r) /\ ToDo(Tail(job[r].todo)) = Left(r) \ {t}
    BY <1>1, <1>6, <1>7, WholeFacts
  <1>8. Whole(r)' => Left(r)' = Left(r) \ {t}
    BY <1>3, <1>4, <1>7 DEF Left
  <1>9. ~ Good(r, t) /\ ~ Good(r, t)'
    BY <1>3, <1>4, <1>5 DEF Good
  <1>10. AuditInv(r)'
    <2>1. ASSUME Whole(r)', Regular
          PROVE  t \in unsure \/ device[t] = job[r].prev[t]
      BY <1>6, <1>7, <1>9, <2>1 DEF WholeInv
    <2> QED
      BY <1>1, <1>3, <1>4, <1>6, <1>7, <1>8, <1>9, <2>1, AuditKept
  <1>11. MovingInv(r)'
    <2>1. CASE Mismatch(r, t)
      <3>1. t \in DOMAIN job'[r].form.expect
        BY <1>3, <1>4, <2>1 DEF Mismatch, SameBut
      <3> QED
        BY <3>1 DEF MovingInv, Consistent
    <2>2. CASE new.spoilt = TRUE
      BY <1>4, <2>2 DEF MovingInv, Consistent
    <2> QED
      BY <1>3, <2>1, <2>2
  <1>12. Closed(device')
    BY <1>1 DEF FlowInv
  <1> QED
    BY <1>1, <1>2, <1>3, <1>10, <1>11, <1>12, AuditRest

(* An error after the update: the tenant is set apart.                     *)
LEMMA UnknownStep ==
    ASSUME FlowTypeInv, FlowTypeInv', FlowInv, HoldInv',
           NEW r \in Requests, NEW t \in Tenants, Lost(r, t) \/ Slow(r, t)
    PROVE  FlowInv'
  <1>1. Audits(r, t) /\ UNCHANGED log /\ unsure' = unsure \cup {t}
    BY DEF Lost, Slow, Differs
  <1>2. /\ Closed(device')
        /\ \A x \in Tenants \ {t} : device'[x] = device[x]
    BY DEF Lost, Slow, FlowInv, FlowTypeInv, Proposed
  <1> DEFINE a == Audited(r, t, FALSE)
             s == [a EXCEPT !.spoilt = TRUE]
  <1>3. Become(r, s)
    BY DEF Lost, Slow
  <1>4. /\ SameBut(s, job[r]) /\ s.todo = Tail(job[r].todo) /\ s.adding = FALSE
        /\ s.failed = job[r].failed \cup {t} /\ s.spoilt = TRUE
    <2>1. /\ SameBut(a, job[r]) /\ a.adding = FALSE /\ a.failed = job[r].failed \cup {t}
      BY <1>1, AuditedTyped
    <2>2. /\ SameBut(s, job[r]) /\ s.todo = Tail(job[r].todo) /\ s.spoilt = TRUE
          /\ s.adding = a.adding /\ s.failed = a.failed
      BY <1>1, AuditedTyped
    <2> HIDE DEF a, s
    <2> QED
      BY <2>1, <2>2
  <1> HIDE DEF a, s
  <1>5. job'[r] = s
    BY <1>3 DEF Become, FlowTypeInv, JobsInv
  <1>6. Whole(r)' => Whole(r)
    BY <1>4, <1>5, Constants DEF Whole, SameBut
  <1>7. Whole(r)' /\ t \in Left(r)' => t = Common
    BY <1>1, <1>4, <1>5, <1>6, WholeFacts DEF Left
  <1>8. ~ Good(r, t)'
    BY <1>4, <1>5 DEF Good
  <1>9. AuditInv(r)'
    BY <1>1, <1>2, <1>4, <1>5, <1>7, <1>8, AuditKept
  <1>10. MovingInv(r)'
    BY <1>4, <1>5 DEF MovingInv, Consistent
  <1> QED
    BY <1>1, <1>2, <1>3, <1>4, <1>9, <1>10, AuditRest

(* Nothing is submitted.                                                   *)
LEMMA UnchangedStep ==
    ASSUME FlowTypeInv, FlowTypeInv', FlowInv, HoldInv',
           NEW r \in Requests, NEW t \in Tenants, Unchanged(r, t)
    PROVE  FlowInv'
  <1>1. Audits(r, t) /\ UNCHANGED <<device, log, unsure>>
    BY DEF Unchanged
  <1> DEFINE a == Audited(r, t, TRUE)
  <1>2. Become(r, a) /\ (job[r].form.dryRun \/ device[t] = job[r].target[t])
    BY DEF Unchanged
  <1>3. /\ SameBut(a, job[r]) /\ a.todo = Tail(job[r].todo) /\ a.adding = FALSE
        /\ a.failed = job[r].failed /\ a.spoilt = job[r].spoilt
    BY <1>1, AuditedTyped
  <1> HIDE DEF a
  <1>4. job'[r] = a
    BY <1>2 DEF Become, FlowTypeInv, JobsInv
  <1>5. /\ MovingInv(r) /\ t \in Left(r) /\ t \in DOMAIN job[r].target
        /\ job[r].target[t] \in Contents
        /\ Consistent(r) => Whole(r)
    BY <1>1, AuditFacts
  <1>6. /\ Left(r)' = ToDo(Tail(job[r].todo)) /\ ~ Good(r, t)
        /\ job'[r].form = job[r].form /\ job'[r].target = job[r].target
        /\ job'[r].before = job[r].before /\ job'[r].failed = job[r].failed
        /\ job'[r].adding = FALSE /\ job'[r].spoilt = job[r].spoilt
        /\ Whole(r)' = Whole(r)
    BY <1>3, <1>4, <1>5, Constants DEF Left, Good, SameBut, Whole
  <1>7. ASSUME Whole(r)
        PROVE  /\ WholeInv(r)
               /\ ToDo(Tail(job[r].todo)) = (IF job[r].adding THEN Left(r) ELSE Left(r) \ {t})
               /\ job[r].adding => t = Common
    BY <1>1, <1>7, WholeFacts
  <1>8. Good(r, t)' => device'[t] = job[r].target[t]
    BY <1>1, <1>2, <1>6 DEF Good
  <1>9. ASSUME Whole(r)
        PROVE  /\ t \in Left(r)' \cap job'[r].failed => t = Common /\ t \in unsure'
               /\ Regular =>
                     \/ t \in unsure
                     \/ IF t = Common
                        THEN /\ \A n \in Names : job[r].prev[t][n] \in {0, device[t][n]}
                             /\ job[r].prev[t] = Nothing =>
                                   \/ device[t] = Nothing
                                   \/ /\ t \notin job[r].failed /\ ~ job[r].form.dryRun
                                      /\ device[t] = job[r].target[t]
                        ELSE device[t] = job[r].prev[t]
    BY <1>1, <1>5, <1>6, <1>7, <1>9 DEF WholeInv
  <1>10. AuditInv(r)'
    BY <1>1, <1>3, <1>4, <1>6, <1>8, <1>9, AuditKept
  <1>11. MovingInv(r)'
    <2>1. Consistent(r)' = Consistent(r)
      BY <1>6 DEF Consistent
    <2>2. ASSUME Consistent(r), ~ job[r].form.dryRun, NEW x \in Tenants
          PROVE  device[x] = Moving(r, x)'
      <3>0. /\ ToDo(Tail(job[r].todo)) = (IF job[r].adding THEN Left(r) ELSE Left(r) \ {t})
            /\ job[r].adding => t = Common
        BY <1>5, <1>7, <2>2
      <3>1. device[x] = Moving(r, x) /\ device[t] = Moving(r, t) /\ device[t] = job[r].target[t]
        BY <1>2, <1>5, <2>2 DEF MovingInv
      <3>2. CASE x # t
        <4>1. x \in Left(r)' <=> x \in Left(r)
          BY <1>6, <3>0, <3>2
        <4>2. job[r].adding => x # Common
          BY <3>0, <3>2
        <4>3. Moving(r, x)' = Moving(r, x)
          BY <1>6, <3>2, <4>1, <4>2 DEF Moving
        <4> QED
          BY <3>1, <4>3
      <3>3. CASE x = t /\ job[r].adding
        <4>1. job[r].before[t] = device[t]
          BY <1>5, <3>1, <3>3 DEF Moving
        <4>2. Moving(r, t)' = Applied(TRUE, job[r].before[t], job[r].target[t])
          BY <1>5, <1>6, <3>0, <3>3 DEF Moving
        <4> QED
          BY <1>5, <3>1, <3>3, <4>1, <4>2, AppliedIs
      <3>4. CASE x = t /\ ~ job[r].adding
        <4>1. Moving(r, t)' = job[r].target[t]
          BY <1>5, <1>6, <3>0, <3>4 DEF Moving
        <4> QED
          BY <3>1, <3>4, <4>1
      <3> QED
        BY <3>2, <3>3, <3>4
    <2> QED
      BY <1>1, <1>5, <1>6, <2>1, <2>2 DEF MovingInv
  <1>12. Closed(device')
    BY <1>1 DEF FlowInv
  <1> QED
    BY <1>1, <1>2, <1>3, <1>10, <1>11, <1>12, AuditRest

(* What a tenant refers to has a name.                                     *)
LEMMA UsesNames ==
    ASSUME NEW content \in Contents
    PROVE  Uses(content) \subseteq Names
  <1>1. \A n \in Names : content[n] # 0 => content[n] \in Versions
    BY DEF Contents
  <1>2. Ref \in [Versions -> Names]
    BY FlowAssumption
  <1> QED
    BY <1>1, <1>2 DEF Uses

(* A transaction changes one tenant.                                       *)
LEMMA ProposedIs ==
    ASSUME FlowTypeInv, FlowInv, NEW r \in Requests, NEW t \in Tenants, Audits(r, t)
    PROVE  /\ DOMAIN Proposed(r, t) = Tenants
           /\ Proposed(r, t)[t] = Applied(job[r].adding, device[t], job[r].target[t])
           /\ \A x \in Tenants \ {t} : Proposed(r, t)[x] = device[x]
  BY DEF Proposed, FlowTypeInv

(* Nothing refers to what the first pass of Common would delete.           *)
LEMMA FirstPassIsAccepted ==
    ASSUME FlowTypeInv, FlowInv, NEW r \in Requests, NEW t \in Tenants, Audits(r, t),
           Whole(r), job[r].adding
    PROVE  Closed(Proposed(r, t))
  <1>1. /\ t = Common /\ device[t] \in Contents /\ job[r].target[t] \in Contents
        /\ job[r].adding = TRUE
    BY AuditFacts, WholeFacts, JobTyped
  <1>2. \A n \in Names : device[Common][n] # 0 => Proposed(r, t)[Common][n] # 0
    <2>1. Proposed(r, t)[Common] = Applied(TRUE, device[t], job[r].target[t])
      BY <1>1, ProposedIs
    <2> QED
      BY <1>1, <2>1 DEF Applied
  <1>3. ASSUME NEW u \in Tenants \ {Common}, NEW n \in Uses(Proposed(r, t)[u])
        PROVE  Proposed(r, t)[Common][n] # 0
    <2>1. n \in Uses(device[u])
      BY <1>1, <1>3, ProposedIs
    <2>2. n \in Names
      <3>1. device[u] \in Contents
        BY AuditFacts
      <3> QED
        BY <2>1, <3>1, UsesNames
    <2>3. u \in DOMAIN device
      BY DEF FlowTypeInv
    <2>4. device[Common][n] # 0
      BY <2>1, <2>3 DEF FlowInv, Closed
    <2> QED
      BY <1>2, <2>2, <2>4
  <1> QED
    BY <1>3, ProposedIs DEF Closed

(* The order of tenantList: Common's additions come before, and its        *)
(* deletions after all that the other tenants do to their references.      *)
LEMMA ReferencesMove ==
    ASSUME FlowTypeInv, FlowInv, NEW r \in Requests, NEW t \in Tenants, Audits(r, t),
           Consistent(r), ~ job[r].form.dryRun, ~ job[r].adding
    PROVE  Closed(Proposed(r, t))
  <1> DEFINE target == job[r].target
             before == job[r].before
             after  == Over(target, before)
             next   == Proposed(r, t)
  <1> SUFFICES Closed(next)
    OBVIOUS
  <1>1. /\ \A x \in Tenants : device[x] = Moving(r, x)
        /\ t \in Left(r) /\ t \in DOMAIN target /\ DOMAIN target \subseteq Tenants
        /\ Left(r) \subseteq DOMAIN target
        /\ t = Common => Left(r) = {Common}
        /\ DOMAIN before = Tenants
        /\ \A x \in Tenants : device[x] \in Contents /\ before[x] \in Contents
        /\ \A x \in DOMAIN target : target[x] \in Contents
        /\ Common \in Tenants
    BY AuditFacts, WholeFacts, PartsAre DEF MovingInv
  <1>2. /\ DOMAIN after = Tenants
        /\ \A x \in DOMAIN target : after[x] = target[x]
        /\ \A x \in Tenants \ DOMAIN target : after[x] = before[x]
    BY <1>1 DEF Over
  <1>3. Closed(after)
    BY DEF Consistent
  <1>4. /\ DOMAIN next = Tenants /\ next[t] = target[t]
        /\ \A x \in Tenants \ {t} : next[x] = device[x]
    <2>1. /\ DOMAIN next = Tenants /\ next[t] = Applied(FALSE, device[t], target[t])
          /\ \A x \in Tenants \ {t} : next[x] = device[x]
      <3>1. job[r].adding = FALSE
        BY AuditFacts, JobTyped
      <3> QED
        BY <3>1, ProposedIs
    <2> QED
      BY <1>1, <2>1, AppliedIs
  <1> HIDE DEF next, after
  <1>5. \A u \in Tenants \ {Common} : \A n \in Uses(after[u]) : n \in Names /\ after[Common][n] # 0
    <2>1. ASSUME NEW u \in Tenants \ {Common}, NEW n \in Uses(after[u])
          PROVE  n \in Names
      <3>1. after[u] \in Contents
        BY <1>1, <1>2
      <3> QED
        BY <2>1, <3>1, UsesNames
    <2> QED
      BY <1>2, <1>3, <2>1 DEF Closed
  <1>6. CASE t = Common
    <2>1. next[Common] = after[Common]
      BY <1>1, <1>2, <1>4, <1>6
    <2>2. ASSUME NEW u \in Tenants \ {Common}
          PROVE  next[u] = after[u]
      <3>1. next[u] = device[u] /\ u \notin Left(r)
        BY <1>1, <1>4, <1>6
      <3>2. Moving(r, u) = after[u]
        BY <1>2, <3>1 DEF Moving
      <3> QED
        BY <1>1, <3>1, <3>2
    <2> QED
      BY <1>4, <1>5, <2>1, <2>2 DEF Closed
  <1>7. CASE t # Common
    <2>1. next[Common] = device[Common]
      BY <1>1, <1>4, <1>7
    <2>2. ASSUME NEW n \in Names, after[Common][n] # 0
          PROVE  device[Common][n] # 0
      <3>1. CASE Common \notin DOMAIN target \/ Common \notin Left(r)
        <4>1. Moving(r, Common) = after[Common]
          BY <1>1, <1>2, <3>1 DEF Moving
        <4> QED
          BY <1>1, <2>2, <4>1
      <3>2. CASE Common \in Left(r)
        <4>1. Moving(r, Common) = Applied(TRUE, before[Common], target[Common])
          BY <1>1, <3>2 DEF Moving
        <4>2. after[Common] = target[Common]
          BY <1>1, <1>2, <3>2
        <4>3. before[Common] \in Contents /\ target[Common] \in Contents
          BY <1>1, <3>2
        <4>4. device[Common][n] = IF before[Common][n] # 0 THEN before[Common][n]
                                  ELSE target[Common][n]
          BY <1>1, <4>1 DEF Applied
        <4> QED
          BY <2>2, <4>2, <4>4
      <3> QED
        BY <3>1, <3>2
    <2>3. ASSUME NEW u \in Tenants \ {Common}, NEW n \in Uses(next[u])
          PROVE  device[Common][n] # 0
      <3>1. CASE u = t
        <4>1. n \in Uses(after[t])
          BY <1>1, <1>2, <1>4, <2>3, <3>1
        <4> QED
          BY <1>5, <2>2, <3>1, <4>1
      <3>2. CASE u # t
        <4>1. n \in Uses(device[u]) /\ u \in DOMAIN device
          BY <1>4, <2>3, <3>2 DEF FlowTypeInv
        <4> QED
          BY <4>1 DEF FlowInv, Closed
      <3> QED
        BY <3>1, <3>2
    <2> QED
      BY <1>4, <2>1, <2>3 DEF Closed
  <1> QED
    BY <1>6, <1>7

(* The transaction is refused.                                             *)
LEMMA RefusedStep ==
    ASSUME FlowTypeInv, FlowTypeInv', FlowInv, HoldInv',
           NEW r \in Requests, NEW t \in Tenants, Updated(r, t), ~ Closed(Proposed(r, t))
    PROVE  FlowInv'
  <1>1. /\ Audits(r, t) /\ UNCHANGED <<device, log, unsure>> /\ ~ job[r].form.dryRun
        /\ device[t] # job[r].target[t]
    BY DEF Updated, Differs
  <1> DEFINE a == Audited(r, t, FALSE)
  <1>2. Become(r, a)
    BY DEF Updated
  <1>3. /\ SameBut(a, job[r]) /\ a.todo = Tail(job[r].todo) /\ a.adding = FALSE
        /\ a.failed = job[r].failed \cup {t} /\ a.spoilt = job[r].spoilt
    BY <1>1, AuditedTyped
  <1> HIDE DEF a
  <1>4. job'[r] = a
    BY <1>2 DEF Become, FlowTypeInv, JobsInv
  <1>5. /\ Whole(r) => ~ job[r].adding
        /\ Whole(r)' => Whole(r)
        /\ t \in Left(r) /\ t \in DOMAIN job[r].target
        /\ Consistent(r) => Whole(r)
    <2>1. Whole(r)' => Whole(r)
      BY <1>3, <1>4, Constants DEF Whole, SameBut
    <2> QED
      BY <1>1, <2>1, FirstPassIsAccepted, AuditFacts
  <1>6. ~ Consistent(r)
    BY <1>1, <1>5, ReferencesMove
  <1>7. ASSUME Whole(r)
        PROVE  WholeInv(r) /\ ToDo(Tail(job[r].todo)) = Left(r) \ {t}
    BY <1>1, <1>5, <1>7, WholeFacts
  <1>8. /\ Whole(r) => Left(r)' = Left(r) \ {t}
        /\ ~ Good(r, t)' /\ ~ Good(r, t)
    BY <1>3, <1>4, <1>5, <1>7 DEF Left, Good
  <1>9. ASSUME Whole(r), Regular
        PROVE  \/ t \in unsure
               \/ IF t = Common
                  THEN /\ \A n \in Names : job[r].prev[t][n] \in {0, device[t][n]}
                       /\ job[r].prev[t] = Nothing => device[t] = Nothing
                  ELSE device[t] = job[r].prev[t]
    BY <1>1, <1>7, <1>8, <1>9 DEF WholeInv
  <1>10. AuditInv(r)'
    BY <1>1, <1>3, <1>4, <1>5, <1>8, <1>9, AuditKept
  <1>11. MovingInv(r)'
    BY <1>3, <1>4, <1>6 DEF MovingInv, Consistent, SameBut
  <1>12. Closed(device')
    BY <1>1 DEF FlowInv
  <1> QED
    BY <1>1, <1>2, <1>3, <1>10, <1>11, <1>12, AuditRest

(* The transaction is committed.                                           *)
LEMMA CommittedStep ==
    ASSUME FlowTypeInv, FlowTypeInv', FlowInv, HoldInv',
           NEW r \in Requests, NEW t \in Tenants, Updated(r, t), Closed(Proposed(r, t))
    PROVE  FlowInv'
  <1>1. /\ Audits(r, t) /\ UNCHANGED <<log, unsure>> /\ device' = Proposed(r, t)
        /\ ~ job[r].form.dryRun /\ device[t] # job[r].target[t]
    BY DEF Updated, Differs
  <1> DEFINE a == Audited(r, t, TRUE)
  <1>2. Become(r, a)
    BY DEF Updated
  <1>3. /\ SameBut(a, job[r]) /\ a.todo = Tail(job[r].todo) /\ a.adding = FALSE
        /\ a.failed = job[r].failed /\ a.spoilt = job[r].spoilt
    BY <1>1, AuditedTyped
  <1> HIDE DEF a
  <1>4. job'[r] = a
    BY <1>2 DEF Become, FlowTypeInv, JobsInv
  <1>5. /\ MovingInv(r) /\ t \in Left(r) /\ t \in DOMAIN job[r].target
        /\ job[r].target[t] \in Contents /\ device[t] \in Contents
        /\ job[r].adding \in BOOLEAN
        /\ Consistent(r) => Whole(r)
    BY <1>1, AuditFacts, JobTyped
  <1>6. /\ Left(r)' = ToDo(Tail(job[r].todo)) /\ ~ Good(r, t)
        /\ job'[r].form = job[r].form /\ job'[r].target = job[r].target
        /\ job'[r].before = job[r].before /\ job'[r].failed = job[r].failed
        /\ job'[r].adding = FALSE /\ job'[r].spoilt = job[r].spoilt
        /\ Whole(r)' = Whole(r)
    BY <1>3, <1>4, <1>5, Constants DEF Left, Good, SameBut, Whole
  <1>7. /\ \A x \in Tenants \ {t} : device'[x] = device[x]
        /\ job[r].adding => device'[t] = Applied(TRUE, device[t], job[r].target[t])
        /\ ~ job[r].adding => device'[t] = job[r].target[t]
    <2>1. device'[t] = Applied(job[r].adding, device[t], job[r].target[t])
      BY <1>1, ProposedIs
    <2>2. /\ job[r].adding => device'[t] = Applied(TRUE, device[t], job[r].target[t])
          /\ ~ job[r].adding => device'[t] = Applied(FALSE, device[t], job[r].target[t])
      BY <1>5, <2>1
    <2> QED
      BY <1>1, <1>5, <2>2, ProposedIs, AppliedIs
  <1>8. ASSUME Whole(r)
        PROVE  /\ WholeInv(r)
               /\ ToDo(Tail(job[r].todo)) = (IF job[r].adding THEN Left(r) ELSE Left(r) \ {t})
               /\ job[r].adding => t = Common
    BY <1>1, <1>8, WholeFacts
  <1>9. ASSUME Whole(r)
        PROVE  t \in Left(r)' \cap job'[r].failed => t = Common /\ t \in unsure'
    BY <1>1, <1>5, <1>6, <1>8, <1>9 DEF WholeInv
  <1>10. ASSUME Whole(r)
         PROVE  Good(r, t)' => device'[t] = job[r].target[t]
    <2>1. Good(r, t)' => t \notin Left(r)'
      BY DEF Good
    <2> QED
      BY <1>5, <1>6, <1>7, <1>8, <1>10, <2>1
  <1>11. ASSUME Whole(r), Regular
         PROVE  \/ t \in unsure
                \/ Good(r, t)'
                \/ IF t = Common
                   THEN /\ \A n \in Names : job[r].prev[t][n] \in {0, device'[t][n]}
                        /\ job[r].prev[t] = Nothing =>
                              \/ device'[t] = Nothing
                              \/ /\ t \notin job'[r].failed /\ ~ job[r].form.dryRun
                                 /\ device'[t] = job[r].target[t]
                   ELSE device'[t] = job[r].prev[t]
    <2>1. t \notin unsure => t \notin job[r].failed
      BY <1>5, <1>8, <1>11 DEF WholeInv
    <2>2. CASE ~ job[r].adding
      <3>1. t \notin unsure => Good(r, t)'
        BY <1>1, <1>5, <1>6, <1>8, <1>11, <2>1, <2>2 DEF Good
      <3> QED
        BY <3>1
    <2>3. CASE job[r].adding /\ t \notin unsure
      <3>1. /\ t = Common
            /\ \A n \in Names : job[r].prev[t][n] \in {0, device[t][n]}
            /\ job[r].prev[t] = Nothing => device[t] = Nothing
        BY <1>1, <1>6, <1>8, <1>11, <2>3 DEF WholeInv
      <3>2. \A n \in Names : job[r].prev[t][n] \in {0, device'[t][n]}
        BY <1>7, <2>3, <3>1 DEF Applied
      <3>3. job[r].prev[t] = Nothing => device'[t] = job[r].target[t]
        <4>1. Applied(TRUE, Nothing, job[r].target[t]) = job[r].target[t]
          BY <1>5, AppliedIs
        <4> QED
          BY <1>7, <2>3, <3>1, <4>1
      <3> QED
        BY <1>1, <1>6, <2>1, <2>3, <3>1, <3>2, <3>3
    <2> QED
      BY <2>2, <2>3
  <1>12. AuditInv(r)'
    BY <1>1, <1>3, <1>4, <1>6, <1>7, <1>9, <1>10, <1>11, AuditKept
  <1>13. MovingInv(r)'
    <2>1. Consistent(r)' = Consistent(r)
      BY <1>6 DEF Consistent
    <2>2. ASSUME Consistent(r), NEW x \in Tenants
          PROVE  device'[x] = Moving(r, x)'
      <3>0. /\ ToDo(Tail(job[r].todo)) = (IF job[r].adding THEN Left(r) ELSE Left(r) \ {t})
            /\ job[r].adding => t = Common
        BY <1>5, <1>8, <2>2
      <3>1. device[x] = Moving(r, x) /\ device[t] = Moving(r, t)
        BY <1>1, <1>5, <2>2 DEF MovingInv
      <3>2. CASE x # t
        <4>1. x \in Left(r)' <=> x \in Left(r)
          BY <1>6, <3>0, <3>2
        <4>2. job[r].adding => x # Common
          BY <3>0, <3>2
        <4>3. Moving(r, x)' = Moving(r, x)
          BY <1>6, <3>2, <4>1, <4>2 DEF Moving
        <4> QED
          BY <1>7, <3>1, <3>2, <4>3
      <3>3. CASE x = t /\ job[r].adding
        <4>1. job[r].before[t] = device[t]
          BY <1>5, <3>1, <3>3 DEF Moving
        <4>2. Moving(r, t)' = Applied(TRUE, job[r].before[t], job[r].target[t])
          BY <1>5, <1>6, <3>0, <3>3 DEF Moving
        <4> QED
          BY <1>7, <3>3, <4>1, <4>2
      <3>4. CASE x = t /\ ~ job[r].adding
        <4>1. Moving(r, t)' = job[r].target[t]
          BY <1>5, <1>6, <3>0, <3>4 DEF Moving
        <4> QED
          BY <1>7, <3>4, <4>1
      <3> QED
        BY <3>2, <3>3, <3>4
    <2> QED
      BY <1>5, <1>6, <2>1, <2>2 DEF MovingInv
  <1> QED
    BY <1>1, <1>2, <1>3, <1>12, <1>13, AuditRest

-----------------------------------------------------------------------------
(* Storing *)

(* What is stored is what the audit has left on the device.                *)
LEMMA StoreStep ==
    ASSUME FlowTypeInv, FlowTypeInv', FlowInv, HoldInv', NEW r \in Requests, Store(r)
    PROVE  FlowInv'
  <1> DEFINE dry == job[r].form.dryRun
             target == job[r].target
             prev == job[r].prev
             good == DOMAIN target \ job[r].failed
  <1>1. job[r].step = "audit" /\ job[r].todo = <<>>
    BY DEF Store, AuditIsOver
  <1>2. /\ TargetInv(r) /\ AuditInv(r) /\ MovingInv(r)
        /\ job[r] \in Jobs /\ DOMAIN prev = Tenants
        /\ \A q \in Requests \ {r} : job[q].step \notin {"prepare", "audit", "release"}
    BY <1>1 DEF FlowInv, HoldInv, FlowTypeInv, JobsInv
  <1>3. /\ job'[r].step = "release" /\ Keeps(job'[r], job[r]) /\ device' = device
        /\ \A q \in Requests \ {r} : job'[q] = job[q]
    BY Ways DEF Store
  <1>4. DOMAIN target \subseteq Tenants /\ DOMAIN job[r].base \subseteq DOMAIN target
        /\ job[r].base \in Parts
    BY <1>2, JobTyped, PartsAre DEF IsPart, TargetInv
  <1>5. Left(r) = {}
    BY <1>1 DEF Left, ToDo
  <1>6. \A t \in Tenants : Good(r, t) <=> ~ dry /\ t \in good
    BY <1>5 DEF Good
  <1>7. /\ Synchronous => \A t \in Tenants \ unsure : prev = Last
        /\ FirstPassEnds => Whole(r)
        /\ Whole(r) => WholeInv(r)
        /\ Regular <=> Synchronous /\ FirstPassEnds
    BY <1>1, <1>2, EndsIsWhole DEF TargetInv, AuditInv, Regular
  (* What a tenant is like that was not deployed. *)
  <1>8. ASSUME Regular, NEW t \in Tenants \ unsure, dry \/ t \notin good
        PROVE  IF t = Common THEN Has(device[t], prev[t]) ELSE device[t] = prev[t]
    BY <1>6, <1>7, <1>8 DEF WholeInv, Has
  (* What is stored, and what is uncertain from now on. *)
  <1>9. /\ dry => log' = log /\ unsure' = unsure
        /\ ~ dry => /\ Last' = Stored(r) /\ Before' = Last
                    /\ unsure' = unsure \ Settled(r)
                    /\ \A i \in DOMAIN log : i \in DOMAIN log' /\ log'[i] = log[i]
    <2>1. CASE dry
      BY <2>1 DEF Store, StoreDry
    <2>2. CASE ~ dry
      <3> DEFINE e == [decl |-> Stored(r), mode |-> job[r].kept]
      <3>1. log' = Append(log, e) /\ unsure' = unsure \ Settled(r)
        BY <2>2 DEF Store, StoreDry
      <3>2. /\ log \in Seq(Entries) /\ e \in Entries /\ Len(log) \in Nat
            /\ log # <<>> <=> Len(log) > 0
        <4>1. Stored(r) \in [Tenants -> Contents] /\ job[r].kept \in Modes
          BY <1>2, StoredTyped, JobTyped
        <4>2. log \in Seq(Entries)
          BY DEF FlowTypeInv
        <4> QED
          BY <4>1, <4>2, LogTyped DEF Entries
      <3>3. e.decl = Stored(r)
        OBVIOUS
      <3> HIDE DEF e
      <3>4. /\ Len(log') = Len(log) + 1 /\ log'[Len(log) + 1] = e /\ log' # <<>>
            /\ \A i \in 1..Len(log) : log'[i] = log[i]
            /\ DOMAIN log' = 1..(Len(log) + 1) /\ DOMAIN log = 1..Len(log)
        BY <3>1, <3>2, AppendProperties
      <3>5. Last' = Stored(r)
        BY <3>2, <3>3, <3>4 DEF Last
      <3>6. Before' = Last
        <4>1. CASE log = <<>>
          BY <3>2, <3>4, <4>1 DEF Before, Last
        <4>2. CASE log # <<>>
          <5>1. Len(log) \in 1..Len(log) /\ ~ (Len(log') < 2) /\ Len(log') - 1 = Len(log)
            BY <3>2, <3>4, <4>2
          <5> QED
            BY <3>4, <4>2, <5>1 DEF Before, Last
        <4> QED
          BY <4>1, <4>2
      <3>7. \A i \in DOMAIN log : i \in DOMAIN log' /\ log'[i] = log[i]
        BY <3>2, <3>4
      <3> QED
        BY <2>2, <3>1, <3>5, <3>6, <3>7
    <2> QED
      BY <2>1, <2>2
  <1>10. ASSUME ~ dry, NEW t \in Tenants \ unsure'
         PROVE  /\ t \in good => /\ Whole(r) => device[t] = target[t]
                                 /\ Stored(r)[t] = target[t]
                /\ t \notin good => t \notin unsure /\ Stored(r)[t] = prev[t]
    <2>1. CASE t \in good
      <3>1. Whole(r) => device[t] = target[t] \/ (job[r].spoilt /\ t \in unsure)
        BY <1>6, <1>7, <1>10, <2>1 DEF WholeInv
      <3>2. job[r].spoilt => t \notin unsure
        BY <1>9, <1>10 DEF Settled
      <3>3. Stored(r)[t] = Over(job[r].base, Empty)[t]
        BY <2>1 DEF Stored
      <3>4. target[t] = Over(job[r].base, Empty)[t]
        BY <1>2, <2>1 DEF TargetInv
      <3> QED
        BY <2>1, <3>1, <3>2, <3>3, <3>4
    <2>2. CASE t \notin good
      <3>1. t \notin unsure
        BY <1>9, <1>10, <2>2 DEF Settled
      <3> QED
        BY <2>2, <3>1 DEF Stored
    <2> QED
      BY <2>1, <2>2
  <1>11. Regular => StoredInv'
    <2>1. SUFFICES ASSUME Regular, NEW t \in Tenants \ unsure'
                   PROVE  Matches(t, Last[t])'
      BY Zenon DEF StoredInv
    <2>2. CASE dry
      <3>1. t \notin unsure /\ Last' = Last
        BY <1>9, <2>1, <2>2 DEF Last
      <3>2. prev = Last
        BY <1>7, <2>1, <3>1
      <3> QED
        BY <1>3, <1>8, <2>1, <2>2, <3>1, <3>2 DEF Matches, Has
    <2>3. CASE ~ dry /\ t \in good
      <3>1. device'[t] = Last'[t]
        BY <1>3, <1>7, <1>9, <1>10, <2>1, <2>3
      <3> QED
        BY <3>1 DEF Matches, Has
    <2>4. CASE ~ dry /\ t \notin good
      <3>1. t \notin unsure /\ Last'[t] = prev[t]
        BY <1>9, <1>10, <2>1, <2>4
      <3> QED
        BY <1>3, <1>8, <2>1, <2>4, <3>1 DEF Matches, Has
    <2> QED
      BY <2>2, <2>3, <2>4
  <1>12. Synchronous => PatchInv'
    <2>1. \A q \in Requests : job'[q].step = "release" \/ job'[q] = job[q]
      BY <1>3
    <2>2. \A i \in DOMAIN log : i \in DOMAIN log' /\ log'[i] = log[i]
      BY <1>9
    <2> QED
      BY <2>1, <2>2, PatchKept DEF FlowInv
  <1>13. ReleaseInv(r)'
    <2>1. /\ job'[r].form = job[r].form /\ job'[r].target = target
          /\ job'[r].failed = job[r].failed /\ job'[r].mode = job[r].mode
          /\ job'[r].base = job[r].base /\ job'[r].fresh = job[r].fresh
          /\ job'[r].before = job[r].before /\ job'[r].spoilt = job[r].spoilt
          /\ Whole(r)' = Whole(r)
      BY <1>3, Constants DEF Keeps, Whole
    <2>2. Whole(r) /\ ~ dry =>
              \A t \in DOMAIN target \ (job[r].failed \cup unsure') : device[t] = target[t]
      BY <1>4, <1>10
    <2>3. Consistent(r)' => job'[r].failed = {}
      BY <1>2, <2>1 DEF Consistent, MovingInv
    <2>4. ASSUME Regular, job[r].mode = "complete", job[r].failed = {}, ~ dry,
                 NEW t \in Tenants \ unsure'
          PROVE  device[t] = Over(job[r].base, Empty)[t]
      <3>1. CASE t \in DOMAIN target
        <4>1. target[t] = Over(job[r].base, Empty)[t]
          BY <1>2, <3>1 DEF TargetInv
        <4> QED
          BY <1>7, <1>10, <2>4, <3>1, <4>1
      <3>2. CASE t \notin DOMAIN target
        <4>1. t \notin unsure /\ t \notin Named(prev)
          BY <1>2, <1>10, <2>4, <3>2 DEF TargetInv
        <4>2. prev[t] = Nothing
          BY <1>2, <4>1 DEF Named
        <4>3. device[t] = Nothing
          BY <1>8, <2>4, <3>2, <4>1, <4>2 DEF Has
        <4>4. Over(job[r].base, Empty)[t] = Nothing
          BY <1>4, <3>2 DEF Over, Empty
        <4> QED
          BY <4>3, <4>4
      <3> QED
        BY <3>1, <3>2
    <2>5. ASSUME Synchronous, job[r].form.action = "patch", ~ dry, job[r].fresh,
                 job[r].mode = "selective",
                 NEW t \in Tenants \ (DOMAIN job[r].form.decl \cup job[r].failed \cup unsure'),
                 job[r].before[t] = Last[t]
          PROVE  device[t] = job[r].before[t]
      <3>1. CASE t \in DOMAIN target
        <4>1. t = Common /\ target[t] = Last[t] /\ Whole(r)
          BY <1>2, <2>5, <3>1 DEF TargetInv, Whole
        <4> QED
          BY <1>10, <2>5, <3>1, <4>1
      <3>2. CASE t \notin DOMAIN target
        <4>1. t \notin unsure
          BY <1>10, <2>5, <3>2
        <4> QED
          BY <1>2, <3>2, <4>1 DEF AuditInv
      <3> QED
        BY <3>1, <3>2
    <2> QED
      BY <1>3, <1>9, <2>1, <2>2, <2>3, <2>4, <2>5, Constants DEF ReleaseInv
  <1>14. \A q \in Requests : /\ job'[q].step # "audit"
                             /\ job'[q].step = "release" => q = r
    BY <1>2, <1>3
  <1>15. Closed(device)'
    BY <1>3 DEF FlowInv, Closed, Uses
  <1> QED
    BY <1>11, <1>12, <1>13, <1>14, <1>15, Constants DEF FlowInv

(* The device begins with what is stored.                                  *)
LEMMA FlowInit == Init => FlowInv
  <1> SUFFICES ASSUME Init PROVE FlowInv
    OBVIOUS
  <1>1. device = Last
    BY DEF Init, Last, Empty
  <1>2. Closed(device)
    <2>1. CASE log = <<>>
      <3>1. device = [t \in Tenants |-> Nothing]
        BY <2>1 DEF Init
      <3>2. Uses(Nothing) = {}
        BY DEF Uses, Nothing
      <3> QED
        BY <3>1, <3>2 DEF Closed
    <2>2. CASE log # <<>>
      BY <2>2, FlowAssumption DEF Init
    <2> QED
      BY <2>1, <2>2
  <1>3. \A r \in Requests : /\ job[r].step = "new" /\ job[r].form.action = "none"
                            /\ job[r].failed = {} /\ ~ job[r].spoilt
    BY DEF Init, Idle
  <1>4. HoldInv
    BY <1>3 DEF Init, HoldInv, WaitInv
  <1>5. StoredInv
    BY <1>1 DEF StoredInv, Matches, Has
  <1>6. PatchInv
    BY <1>3 DEF PatchInv
  <1> QED
    BY <1>2, <1>3, <1>4, <1>5, <1>6 DEF FlowInv

(* Every step keeps the types and FlowInv.                                 *)
LEMMA FlowStep ==
    ASSUME HistoryTypeInv, Synchronous => HistoryInv, FlowTypeInv, FlowInv, [Next]_vars
    PROVE  FlowTypeInv' /\ FlowInv'
  <1>1. LeftInv
    BY DEF FlowInv, LeftInv, AuditInv
  <1>2. FlowTypeInv' /\ HoldInv'
    BY <1>1, FlowTypeStep, HoldStep DEF FlowInv
  <1>3. ASSUME NEW r \in Requests, Proceed(r) \/ Begin(r) \/ Crash(r)
        PROVE  FlowInv'
    <2>1. CASE \/ Begin(r) \/ List(r) \/ Fetch(r) \/ Lock(r) \/ Refused(r) \/ Rejected(r)
               \/ Unstored(r) \/ Release(r) \/ Output(r) \/ Crash(r)
      BY <1>2, <2>1, QuietActions
    <2>2. CASE Prepare(r)
      BY <1>2, <2>2, PrepareStep
    <2>3. CASE Audit(r)
      <3>1. PICK t \in Tenants : \/ Mismatched(r, t) \/ Unread(r, t) \/ Unchanged(r, t)
                                 \/ Updated(r, t) \/ Lost(r, t) \/ Slow(r, t)
        BY <2>3 DEF Audit
      <3> QED
        BY <1>2, <3>1, EarlyStep, UnchangedStep, CommittedStep, RefusedStep, UnknownStep
    <2>4. CASE Store(r)
      BY <1>2, <2>4, StoreStep
    <2> QED
      BY <1>3, <2>1, <2>2, <2>3, <2>4 DEF Proceed
  <1>4. ASSUME UNCHANGED <<device, log, job, unsure>>
        PROVE  FlowInv'
    BY <1>2, <1>4, QuietOthers
  <1>5. ASSUME NEW r \in Requests, LateRelease(r)
        PROVE  FlowInv'
    BY <1>4, <1>5 DEF LateRelease
  <1>6. CASE ScriptEnds
    BY <1>2, <1>6, ScriptStep
  <1>7. CASE TakenOver \/ Finished \/ UNCHANGED vars
    BY <1>2, <1>4, <1>7 DEF TakenOver, Finished, vars
  <1> QED
    BY <1>2, <1>3, <1>5, <1>6, <1>7 DEF Next

-----------------------------------------------------------------------------
(* The properties *)

(* The invariants hold together.                                           *)
LEMMA Deployments ==
    Spec => [](HistoryTypeInv /\ FlowTypeInv /\ FlowInv /\ (Synchronous => HistoryInv))
  <1> DEFINE Inv == /\ HistoryTypeInv /\ FlowTypeInv /\ FlowInv
                    /\ Synchronous => HistoryInv
  <1>1. Init => Inv
    BY HistoryInit, HistoryTypeInit, FlowTypeInit, FlowInit
  <1>2. Inv /\ [Next]_vars => Inv'
    <2> SUFFICES ASSUME Inv, [Next]_vars
                 PROVE  Inv'
      OBVIOUS
    <2>1. HistoryTypeInv' /\ FlowTypeInv' /\ FlowInv'
      BY HistoryTypeStep, FlowStep
    <2>2. Synchronous => HistoryInv'
      BY HistoryStep
    <2> QED
      BY <2>1, <2>2, Constants
  <1> QED
    BY <1>1, <1>2, PTL DEF Spec

(* declarationHandler.js: what the lock protects is on the device as it is *)
(* stored, whatever fails, crashes or ends late: but for the tenants that  *)
(* the fault itself sets apart.                                            *)
THEOREM StoredDeclarationTells ==
    ASSUME Synchronous, FirstPassEnds
    PROVE  Spec => []StoredTellsDevice
  <1>1. FlowTypeInv /\ FlowInv /\ (Synchronous => HistoryInv) => StoredTellsDevice
    <2> SUFFICES ASSUME HistoryInv, FlowTypeInv, FlowInv, ~ Deploying, NEW t \in Tenants \ unsure
                 PROVE  \/ device[t] = Prev[t]
                        \/ t = Common /\ \A n \in Names : Prev[t][n] \in {0, device[t][n]}
      BY DEF StoredTellsDevice
    <2>1. \A r \in Requests : job[r].step # "audit"
      BY DEF Deploying, FlowInv, HoldInv
    <2>2. Matches(t, Last[t])
      BY <2>1 DEF FlowInv, StoredInv, Regular
    <2>3. Prev = Last
      BY PrevIsLast DEF FlowTypeInv
    <2> QED
      BY <2>2, <2>3 DEF Matches, Has
  <1> QED
    BY <1>1, Deployments, PTL

(* declarationHandler.js: who is told that a tenant was deployed has it on *)
(* the device, whatever the clocks of the hosts.                           *)
THEOREM SuccessesAreApplied ==
    ASSUME FirstPassEnds
    PROVE  Spec => []SuccessIsApplied
  <1>1. FlowTypeInv /\ FlowInv => SuccessIsApplied
    BY EndsIsWhole DEF FlowInv, ReleaseInv, SuccessIsApplied
  <1> QED
    BY <1>1, Deployments, PTL

(* fetch.js: the order of tenantList, with Common first and last, lets any *)
(* number of tenants move their references in one declaration.             *)
THEOREM ReferencesMoveSafely == Spec => []MovesReferencesSafely
  <1>1. FlowInv => MovesReferencesSafely
    BY DEF FlowInv, ReleaseInv, Consistent, MovesReferencesSafely
  <1> QED
    BY <1>1, Deployments, PTL

(* declarationHandler.js: a complete declaration that succeeds leaves      *)
(* nothing else, the redeployment of an old one included.                  *)
THEOREM CompletesAreComplete ==
    ASSUME Synchronous, FirstPassEnds
    PROVE  Spec => []CompleteIsComplete
  <1>1. FlowInv => CompleteIsComplete
    BY DEF FlowInv, ReleaseInv, CompleteIsComplete, Regular
  <1> QED
    BY <1>1, Deployments, PTL

(* A PATCH of what was stored last touches no other tenant, even if an     *)
(* error has ended the first pass of Common.                               *)
THEOREM FreshPatchesKeepOthers ==
    ASSUME Synchronous
    PROVE  Spec => []FreshPatchKeepsOthers
  <1>1. FlowInv => FreshPatchKeepsOthers
    BY DEF FlowInv, ReleaseInv, FreshPatchKeepsOthers, PatchKeepsOthers
  <1> QED
    BY <1>1, Deployments, PTL

-----------------------------------------------------------------------------
(* The lock service                                                        *)

(* A step that leaves the holder, and after which a request that has left  *)
(* has left.                                                               *)
LEMMA HolderStays ==
    ASSUME holder' = holder,
           \A q \in Requests : job[q].step \in {"output", "done", "crashed"} =>
                                   job'[q].step \in {"output", "done", "crashed"}
    PROVE  Turns!Next
  <1> DEFINE leaving == Departed' \ Departed
  <1>1. /\ leaving \in SUBSET (Requests \ Departed) /\ Departed' = Departed \cup leaving
        /\ holder \notin leaving
    BY DEF Departed
  <1> HIDE DEF leaving
  <1>2. Turns!Leave(leaving)
    BY <1>1 DEF Turns!Leave
  <1> QED
    BY <1>1, <1>2 DEF Turns!Next

(* The holder leaves the lock free.                                        *)
LEMMA HolderLeaves ==
    ASSUME holder \in Requests, holder' = Nobody,
           job'[holder].step \in {"output", "done", "crashed"},
           \A q \in Requests \ {holder} : job'[q] = job[q]
    PROVE  Turns!Next
  <1>1. Nobody \notin Requests
    BY FlowAssumption
  <1>2. /\ {holder} \in SUBSET (Requests \ Departed)
        /\ Departed' = Departed \cup {holder}
    BY <1>1 DEF Departed
  <1>3. Turns!Leave({holder})
    BY <1>2 DEF Turns!Leave
  <1> QED
    BY <1>2, <1>3 DEF Turns!Next

(* Every step of the flow is one of the lock service.                      *)
LEMMA HolderStep ==
    ASSUME FlowTypeInv, HoldInv, LeftInv, [Next]_vars
    PROVE  [Turns!Next]_(Turns!vars)
  <1> DEFINE Ended(j) == j.step \in {"output", "done", "crashed"}
  <1>1. Nobody \notin Requests /\ holder \in Requests \cup {Nobody}
    BY FlowAssumption DEF FlowTypeInv
  <1>2. ASSUME NEW r \in Requests, \A q \in Requests \ {r} : job'[q] = job[q],
               ~ Ended(job[r]) \/ Ended(job'[r]), holder' = holder
        PROVE  Turns!Next
    BY <1>2, HolderStays
  <1>3. ASSUME NEW r \in Requests, Begin(r) \/ List(r) \/ Fetch(r)
        PROVE  Turns!Next
    <2>1. /\ ~ Ended(job[r]) /\ \A q \in Requests \ {r} : job'[q] = job[q]
      BY <1>3, Arrives
    <2>2. holder' = holder
      BY <1>3, Zenon DEF Begin, List, Fetch
    <2> QED
      BY <1>2, <2>1, <2>2
  <1>4. ASSUME NEW r \in Requests, Lock(r)
        PROVE  Turns!Next
    <2>1. holder = Nobody /\ holder' = r /\ job[r].step = "lock"
      BY <1>4 DEF Lock
    <2>2. job'[r].step = "prepare" /\ \A q \in Requests \ {r} : job'[q] = job[q]
      BY <1>4, Ways
    <2>3. r \notin Departed /\ Departed' = Departed
      BY <1>1, <2>1, <2>2 DEF Departed
    <2>4. Turns!Take(r)
      BY <2>1, <2>3 DEF Turns!Take
    <2> QED
      BY <2>4 DEF Turns!Next
  <1>5. ASSUME NEW r \in Requests,
               \/ Refused(r) \/ Rejected(r) \/ Unstored(r) \/ Output(r) \/ Store(r)
               \/ Crash(r)
        PROVE  Turns!Next
    <2>1. /\ job'[r].step \in {"done", "crashed", "release"}
          /\ job'[r].step = "release" => Store(r)
          /\ \A q \in Requests \ {r} : job'[q] = job[q]
      BY <1>5, Ways
    <2>2. holder' = holder /\ (Store(r) => ~ Ended(job[r]))
      BY <1>5 DEF Refused, Rejected, Unstored, Output, Store, Crash, AuditIsOver
    <2> QED
      BY <1>2, <2>1, <2>2
  <1>6. ASSUME NEW r \in Requests, Prepare(r) \/ Audit(r)
        PROVE  Turns!Next
    <2>1. (\E new : Become(r, new)) /\ holder' = holder /\ job[r].step \in {"prepare", "audit"}
      <3>1. CASE Prepare(r)
        BY <3>1, Zenon DEF Prepare, PrepareWith
      <3>2. CASE Audit(r)
        <4>1. PICK t \in Tenants : \/ Mismatched(r, t) \/ Unread(r, t) \/ Unchanged(r, t)
                                   \/ Updated(r, t) \/ Lost(r, t) \/ Slow(r, t)
          BY <3>2 DEF Audit
        <4>2. (\E new : Become(r, new)) /\ Audits(r, t) /\ holder' = holder
          BY <4>1, Zenon DEF Mismatched, Unread, Unchanged, Updated, Lost, Slow, Differs
        <4> QED
          BY <4>2 DEF Audits
      <3> QED
        BY <1>6, <3>1, <3>2
    <2>2. \A q \in Requests \ {r} : job'[q] = job[q]
      BY <2>1 DEF Become, FlowTypeInv, JobsInv
    <2> QED
      BY <1>2, <2>1, <2>2
  <1>7. ASSUME NEW r \in Requests, Release(r)
        PROVE  Turns!Next
    <2>1. holder = r /\ holder' = Nobody
      BY <1>7 DEF Release, HoldInv
    <2>2. job'[r].step = "output" /\ \A q \in Requests \ {r} : job'[q] = job[q]
      BY <1>7, Ways
    <2> QED
      BY <2>1, <2>2, HolderLeaves
  <1>8. ASSUME NEW r \in Requests, LateRelease(r)
        PROVE  Turns!Next
    <2>1. holder = r /\ job[r].step = "done" /\ holder' = Nobody /\ job' = job
      BY <1>8 DEF LateRelease, HoldInv
    <2> QED
      BY <2>1, HolderLeaves
  <1>9. CASE ScriptEnds
    <2>1. \A q \in Requests : job'[q].step = job[q].step
      BY <1>9, ScriptTyped DEF SameBut
    <2>2. holder' = holder
      BY <1>9 DEF ScriptEnds
    <2> QED
      BY <2>1, <2>2, HolderStays
  <1>10. CASE TakenOver
    <2>1. holder \in Requests /\ job[holder].step = "crashed" /\ holder' = Nobody /\ job' = job
      BY <1>1, <1>10 DEF TakenOver
    <2> QED
      BY <2>1, HolderLeaves
  <1>11. CASE Finished \/ UNCHANGED vars
    BY <1>11, HolderStays DEF Finished, vars
  <1> QED
    BY <1>3, <1>4, <1>5, <1>6, <1>7, <1>8, <1>9, <1>10, <1>11 DEF Next, Proceed

(* declarationHandler.js: whatever happens to the requests, the lock that  *)
(* the flow relies on is a lock service and no more, which is what mutex.js*)
(* provides (LockIsService).                                               *)
THEOREM HolderIsService == Spec => HoldersTakeTurns
  <1>1. Init => Turns!Init
    BY DEF Init, Idle, Turns!Init, Departed
  <1>2. FlowTypeInv /\ FlowInv /\ [Next]_vars => [Turns!Next]_(Turns!vars)
    BY HolderStep DEF FlowInv, LeftInv, AuditInv
  <1> QED
    BY <1>1, <1>2, Deployments, PTL DEF Spec, HoldersTakeTurns, Turns!Spec

-----------------------------------------------------------------------------
(* The serial store                                                        *)

(* What a request deploys: a declaration, its mode and the mode that is    *)
(* stored with it.                                                         *)
Asks(form, decl, mode, kept) ==
    \/ /\ form.action \in {"deploy", "remove"}
       /\ decl = form.decl /\ mode = form.mode /\ kept = form.mode
    \/ /\ form.action = "redeploy"
       /\ \E i \in DOMAIN log :
             /\ IF RedeployAge(form) < Limit THEN i + RedeployAge(form) = Len(log)
                                             ELSE i + RedeployAge(form) <= Len(log)
             /\ decl = Some(log[i].decl)
             /\ mode = IF form.mode = "original" THEN log[i].mode ELSE form.mode
             /\ kept = log[i].mode
    \/ /\ form.action = "patch"
       /\ \/ decl = form.decl /\ mode = "selective" /\ kept = "selective"
          \/ \E i \in DOMAIN log :
                /\ decl = Over(form.decl, Filtered(Some(log[i].decl), DOMAIN form.decl))
                /\ mode = log[i].mode /\ kept = log[i].mode

(* What it will store of a tenant that is deployed is what is asked of it, *)
(* or the Common that was stored last.                                     *)
Aims(r, decl) ==
    \A t \in DOMAIN job[r].target :
        \/ t \in DOMAIN decl /\ Over(job[r].base, Empty)[t] = decl[t]
        \/ /\ t \notin DOMAIN decl /\ job[r].mode = "complete"
           /\ Over(job[r].base, Empty)[t] = Nothing
        \/ t = Common /\ t \notin DOMAIN decl /\ Over(job[r].base, Empty)[t] = Last[Common]

(* On the way to the lock a request may be overtaken, but from the moment  *)
(* it reads under the lock what it will store is computed from the last    *)
(* declaration that is stored.                                             *)
AskInv(r) ==
    /\ job[r].step \in {"list", "fetch"} => job[r].base = job[r].form.decl
    /\ job[r].step \in {"lock", "prepare"} =>
          IF job[r].form.action = "redeploy" THEN job[r].mode = job[r].form.mode
          ELSE Asks(job[r].form, job[r].base, job[r].mode, job[r].mode)
    /\ job[r].step = "audit" =>
          /\ job[r].prev = Last \/ ("misread" \in Faults /\ job[r].prev = Empty)
          /\ \E decl : Asks(job[r].form, decl, job[r].mode, job[r].kept) /\ Aims(r, decl)

(* A request that stays where it is, or gets the lock, still asks for what *)
(* it asked for: what was stored remains.                                  *)
LEMMA AsksKept ==
    ASSUME NEW q \in Requests, AskInv(q),
           \A i \in DOMAIN log : i \in DOMAIN log' /\ log'[i] = log[i],
           \/ job'[q].step \notin {"list", "fetch", "lock", "prepare", "audit"}
           \/ /\ job'[q].form = job[q].form /\ job'[q].base = job[q].base
              /\ job'[q].mode = job[q].mode
              /\ \/ job'[q].step = job[q].step /\ job[q].step # "audit"
                 \/ job'[q].step = "prepare" /\ job[q].step = "lock"
           \/ SameBut(job'[q], job[q]) /\ log' = log
    PROVE  AskInv(q)'
  <1>1. CASE job'[q].step \notin {"list", "fetch", "lock", "prepare", "audit"}
    BY <1>1 DEF AskInv
  <1>2. CASE /\ job'[q].form = job[q].form /\ job'[q].base = job[q].base
             /\ job'[q].mode = job[q].mode
             /\ \/ job'[q].step = job[q].step /\ job[q].step # "audit"
                \/ job'[q].step = "prepare" /\ job[q].step = "lock"
    <2>1. /\ Asks(job[q].form, job[q].base, job[q].mode, job[q].mode)
          /\ job[q].form.action # "redeploy"
          => Asks(job[q].form, job[q].base, job[q].mode, job[q].mode)'
      BY <1>2 DEF Asks
    <2> QED
      BY <1>2, <2>1 DEF AskInv
  <1>3. CASE SameBut(job'[q], job[q]) /\ log' = log
    <2>1. /\ \A decl : Asks(job[q].form, decl, job[q].mode, job[q].kept) =>
                           Asks(job[q].form, decl, job[q].mode, job[q].kept)'
          /\ Asks(job[q].form, job[q].base, job[q].mode, job[q].mode) =>
                 Asks(job[q].form, job[q].base, job[q].mode, job[q].mode)'
      BY <1>3 DEF Asks, SameBut
    <2>2. Last' = Last /\ \A decl : Aims(q, decl) => Aims(q, decl)'
      BY <1>3 DEF Aims, Last, SameBut
    <2> QED
      BY <1>3, <2>1, <2>2 DEF AskInv, SameBut
  <1> QED
    BY <1>1, <1>2, <1>3

(* Only what is stored is logged, at the end of the log.                   *)
LEMMA OnlyStoreLogs ==
    ASSUME FlowTypeInv, [Next]_vars, log' # log
    PROVE  \E r \in Requests :
              /\ Store(r) /\ ~ job[r].form.dryRun
              /\ log' = Append(log, [decl |-> Stored(r), mode |-> job[r].kept])
              /\ \A i \in DOMAIN log : i \in DOMAIN log' /\ log'[i] = log[i]
  <1>1. ASSUME NEW r \in Requests, Begin(r) \/ Proceed(r) \/ LateRelease(r) \/ Crash(r)
        PROVE  Store(r)
    <2>1. CASE \/ Begin(r) \/ List(r) \/ Fetch(r) \/ Lock(r) \/ Refused(r) \/ Prepare(r)
               \/ Rejected(r) \/ Unstored(r) \/ Release(r) \/ Output(r) \/ LateRelease(r) \/ Crash(r)
      BY <2>1, Zenon DEF Begin, List, Fetch, Lock, Refused, Prepare, Rejected, Unstored, Release,
                         Output, LateRelease, Crash
    <2>2. CASE Audit(r)
      BY <2>2, Zenon DEF Audit, Mismatched, Unread, Unchanged, Updated, Lost, Slow
    <2> QED
      BY <1>1, <2>1, <2>2 DEF Proceed
  <1>2. PICK r \in Requests : Store(r)
    BY <1>1 DEF Next, ScriptEnds, TakenOver, Finished, vars
  <1>3. /\ ~ job[r].form.dryRun
        /\ log' = Append(log, [decl |-> Stored(r), mode |-> job[r].kept])
    BY <1>2 DEF Store, StoreDry
  <1>4. \A i \in DOMAIN log : i \in DOMAIN log' /\ log'[i] = log[i]
    BY <1>3 DEF FlowTypeInv
  <1> QED
    BY <1>2, <1>3, <1>4

(* What is asked for at the lock: what the client sent, or what a PATCH    *)
(* made of it.                                                             *)
LEMMA ArrivesAsking ==
    ASSUME FlowTypeInv, HistoryInv, NEW r \in Requests, AskInv(r),
           Begin(r) \/ List(r) \/ Fetch(r)
    PROVE  AskInv(r)'
  <1>1. job[r] \in Jobs /\ DOMAIN job[r] = JobFields /\ job \in [Requests -> Jobs]
    BY JobDomain DEF FlowTypeInv, JobsInv
  <1>2. UNCHANGED log
    BY Zenon DEF Begin, List, Fetch
  <1>3. ASSUME NEW new, Become(r, new), new.step \in {"list", "fetch", "lock", "done"},
               new.step \in {"list", "fetch"} => new.base = new.form.decl,
               new.step = "lock" => IF new.form.action = "redeploy" THEN new.mode = new.form.mode
                                    ELSE Asks(new.form, new.base, new.mode, new.mode)
        PROVE  AskInv(r)'
    <2>1. job'[r] = new
      BY <1>1, <1>3 DEF Become
    <2>2. Asks(new.form, new.base, new.mode, new.mode)
          => Asks(job[r].form, job[r].base, job[r].mode, job[r].mode)'
      BY <1>2, <2>1 DEF Asks
    <2> QED
      BY <1>3, <2>1, <2>2 DEF AskInv
  <1>4. CASE Begin(r)
    <2>1. PICK f \in Forms[r] :
              Become(r, [job[r] EXCEPT !.form = f, !.base = f.decl, !.mode = f.mode,
                                       !.step = IF Reads(f) THEN "list" ELSE "lock"])
      BY <1>4, Zenon DEF Begin
    <2> DEFINE step == IF Reads(f) THEN "list" ELSE "lock"
               new == [job[r] EXCEPT !.form = f, !.base = f.decl, !.mode = f.mode, !.step = step]
    <2>2. /\ step \in {"list", "lock"}
          /\ step = "lock" => f.action \in {"deploy", "remove", "redeploy"}
      BY FormsTyped DEF Reads, Actions
    <2> HIDE DEF step
    <2>3. new.form = f /\ new.base = f.decl /\ new.mode = f.mode /\ new.step = step
      BY <1>1 DEF JobFields
    <2>4. Become(r, new)
      BY <2>1 DEF step
    <2> HIDE DEF new
    <2>5. step = "lock" /\ f.action # "redeploy" => Asks(f, f.decl, f.mode, f.mode)
      BY <2>2 DEF Asks
    <2> QED
      BY <1>3, <2>2, <2>3, <2>4, <2>5
  <1>5. CASE List(r)
    <2> DEFINE age == AgeToRead(job[r].form)
               stamp == OfAge(history, age).stamp
               a == [job[r] EXCEPT !.step = "fetch", !.picked = stamp]
               b == [job[r] EXCEPT !.step = "lock", !.mode = "selective"]
               c == [job[r] EXCEPT !.step = "done", !.reply = "NO_CONTENT"]
    <2>1. /\ job[r].step = "list"
          /\ \/ Become(r, a) \/ Become(r, c)
             \/ Become(r, b) /\ job[r].form.action = "patch"
      BY <1>5, Zenon DEF List
    <2> HIDE DEF stamp
    <2>2. /\ a.step = "fetch" /\ a.form = job[r].form /\ a.base = job[r].base
          /\ b.step = "lock" /\ b.form = job[r].form /\ b.base = job[r].base
          /\ b.mode = "selective" /\ c.step = "done"
      BY <1>1 DEF JobFields
    <2>3. job[r].base = job[r].form.decl
      BY <2>1 DEF AskInv
    <2> HIDE DEF a, b, c
    <2>4. job[r].form.action = "patch" => Asks(b.form, b.base, b.mode, b.mode)
      BY <2>2, <2>3 DEF Asks
    <2> QED
      BY <1>3, <2>1, <2>2, <2>3, <2>4
  <1>6. CASE Fetch(r)
    <2> DEFINE e == [job[r] EXCEPT !.step = "done", !.reply = "error"]
               o == [job[r] EXCEPT !.step = "done", !.reply = "OK"]
               form == job[r].form
               l(x) == [job[r] EXCEPT !.step = "lock", !.mode = x.mode,
                                      !.base = Over(form.decl, Filtered(Some(x.decl), DOMAIN form.decl))]
    <2>1. \/ Become(r, e) \/ Become(r, o)
          \/ form.action = "patch" /\ \E x \in Found(r) : Become(r, l(x))
      BY <1>6, Zenon DEF Fetch
    <2>2. e.step = "done" /\ o.step = "done"
      BY <1>1 DEF JobFields
    <2>3. CASE Become(r, e) \/ Become(r, o)
      <3> HIDE DEF e, o
      <3> QED
        BY <1>3, <2>2, <2>3
    <2>4. ASSUME form.action = "patch", NEW x \in Found(r), Become(r, l(x))
          PROVE  AskInv(r)'
      <3> DEFINE base == Over(form.decl, Filtered(Some(x.decl), DOMAIN form.decl))
                 new == [job[r] EXCEPT !.step = "lock", !.mode = x.mode, !.base = base]
      <3>1. Become(r, new)
        BY <2>4
      <3> HIDE DEF base
      <3>2. /\ new.step = "lock" /\ new.base = base /\ new.form = form /\ new.mode = x.mode
        BY <1>1 DEF JobFields
      <3> HIDE DEF new
      <3>3. PICK i \in DOMAIN log : x = Deployed(log, i)
        BY HistoryIsLogged, LogTyped DEF Found, FlowTypeInv
      <3>4. x.decl = log[i].decl /\ x.mode = log[i].mode
        BY <3>3 DEF Deployed
      <3>5. Asks(new.form, new.base, new.mode, new.mode)
        BY <2>4, <3>2, <3>3, <3>4 DEF Asks, base
      <3> QED
        BY <1>3, <2>4, <3>1, <3>2, <3>5
    <2> QED
      BY <2>1, <2>3, <2>4
  <1> QED
    BY <1>4, <1>5, <1>6

(* What is left in a history is not older than its age, and exactly as old *)
(* within the limit.                                                       *)
LEMMA AgeIsPlace ==
    ASSUME NEW h, NEW l, NEW S, l \in Seq(S), Remembers(h, l),
           NEW i \in 1..Len(l)
    PROVE  LET age == Age(h, Deployed(l, i))
           IN  /\ age \in Nat /\ i + age <= Len(l)
               /\ age < Limit => i + age = Len(l)
  <1> DEFINE later == {e \in h : e.stamp > Deployed(l, i).stamp}
             n == Len(l)
  <1>1. n \in Nat /\ Limit \in Nat /\ i \in Nat /\ i <= n
    BY FlowAssumption
  <1>2. later \in SUBSET Span(l, i + 1, n)
    <2>1. ASSUME NEW e \in later
          PROVE  e \in Span(l, i + 1, n)
      <3>1. PICK j \in 1..n : e = Deployed(l, j)
        BY DEF Remembers, Span
      <3>2. j + 1 > i + 1
        BY <3>1 DEF Deployed
      <3> QED
        BY <1>1, <3>1, <3>2 DEF Span
    <2> QED
      BY <2>1
  <1>3. IsFiniteSet(later) /\ Cardinality(later) \in Nat /\ Cardinality(later) <= n - i
    BY <1>1, <1>2, SpanCardinality, FS_Subset, FS_CardinalityType
  <1>4. CASE i + Limit > n
    <2>1. Age(h, Deployed(l, i)) = n - i
      BY <1>4, RecentAge
    <2> QED
      BY <1>1, <2>1
  <1>5. CASE i + Limit <= n
    <2> DEFINE a == n - Limit + 1
    <2>1. a \in Nat /\ a > i /\ n - a + 1 = Limit /\ a <= n
      BY <1>1, <1>5, FlowAssumption
    <2>2. Span(l, a, n) \in SUBSET later
      <3>1. ASSUME NEW j \in a..n
            PROVE  Deployed(l, j) \in later
        <4>1. j \in 1..n /\ j + Limit > n /\ j + 1 > i + 1
          BY <1>1, <2>1
        <4> QED
          BY <4>1 DEF Remembers, Deployed
      <3> QED
        BY <3>1 DEF Span
    <2> HIDE DEF a
    <2>3. Cardinality(Span(l, a, n)) = Limit
      BY <1>1, <2>1, SpanCardinality
    <2>4. Limit <= Cardinality(later)
      BY <1>3, <2>2, <2>3, FS_Subset
    <2> QED
      BY <1>1, <1>3, <2>4 DEF Age
  <1> QED
    BY <1>1, <1>4, <1>5

(* What is read under the lock is what is asked for, or the last that was  *)
(* stored.                                                                 *)
LEMMA PreparesAsked ==
    ASSUME FlowTypeInv, HistoryTypeInv, HistoryInv, NEW r \in Requests, AskInv(r), Prepare(r)
    PROVE  \E prev \in [Tenants -> Contents], base \in Parts, mode \in Modes, kept \in Modes :
              /\ Become(r, Target(r, base, mode, kept, prev))
              /\ prev = Last \/ ("misread" \in Faults /\ prev = Empty)
              /\ Asks(job[r].form, base, mode, kept)
  <1>1. log \in Seq(Entries) /\ job[r] \in Jobs /\ job[r].form \in Forms[r]
    BY DEF Prepare, FlowTypeInv, JobsInv
  <1>2. PICK prev \in {Prev, Empty} :
            PrepareWith(r, prev) /\ (prev = Prev \/ "misread" \in Faults)
    BY Zenon DEF Prepare, Spend
  <1>3. /\ prev \in [Tenants -> Contents]
        /\ prev = Last \/ ("misread" \in Faults /\ prev = Empty)
    BY <1>1, <1>2, PrevTyped, PartsAre, PrevIsLast
  <1>4. job[r].step = "prepare"
    BY Zenon DEF Prepare
  <1>5. CASE job[r].form.action = "redeploy"
    <2> DEFINE age == RedeployAge(job[r].form)
               old == OfAge(history, age)
               mode == IF job[r].mode = "original" THEN old.mode ELSE job[r].mode
    <2>1. HasAge(history, age) /\ Become(r, Target(r, Some(old.decl), mode, old.mode, prev))
      BY <1>2, <1>5 DEF PrepareWith
    <2>2. age \in Nat
      BY <1>1, FormsTyped DEF RedeployAge
    <2>3. old \in history /\ Age(history, old) = age
      BY <1>1, <2>1, <2>2, AgeIsTaken
    <2>4. old.decl \in Parts /\ old.mode \in Modes
      BY <2>3, PartsAre DEF HistoryTypeInv
    <2>5. mode \in Modes
      BY <1>1, <2>4, JobTyped
    <2>6. Some(old.decl) \in Parts
      BY <2>4, SomeIsPart
    <2>7. PICK i \in 1..Len(log) : old = Deployed(log, i)
      BY <1>1, <2>3, HistoryIsLogged
    <2>8. i \in DOMAIN log /\ old.decl = log[i].decl /\ old.mode = log[i].mode
      BY <1>1, <2>7, LogTyped DEF Deployed
    <2> HIDE DEF old
    <2>9. i + age <= Len(log) /\ (age < Limit => i + age = Len(log))
      BY <1>1, <2>3, <2>7, AgeIsPlace DEF HistoryInv
    <2>10. job[r].mode = job[r].form.mode
      BY <1>4, <1>5 DEF AskInv
    <2>11. Asks(job[r].form, Some(old.decl), mode, old.mode)
      BY <1>5, <2>8, <2>9, <2>10 DEF Asks
    <2> HIDE DEF mode
    <2> QED
      BY <1>3, <2>1, <2>4, <2>5, <2>6, <2>11
  <1>6. CASE job[r].form.action # "redeploy"
    <2>1. Become(r, Target(r, job[r].base, job[r].mode, job[r].mode, prev))
      BY <1>2, <1>6 DEF PrepareWith
    <2>2. job[r].base \in Parts /\ job[r].mode \in Modes
      BY <1>1, JobTyped
    <2>3. Asks(job[r].form, job[r].base, job[r].mode, job[r].mode)
      BY <1>4, <1>6 DEF AskInv
    <2> QED
      BY <1>3, <2>1, <2>2, <2>3
  <1> QED
    BY <1>5, <1>6

(* So is what will be stored.                                              *)
LEMMA PrepareAims ==
    ASSUME FlowTypeInv, HistoryTypeInv, HistoryInv, NEW r \in Requests, AskInv(r), Prepare(r)
    PROVE  AskInv(r)' /\ \A q \in Requests \ {r} : job'[q] = job[q]
  <1>1. PICK prev \in [Tenants -> Contents], base \in Parts, mode \in Modes, kept \in Modes :
            /\ Become(r, Target(r, base, mode, kept, prev))
            /\ prev = Last \/ ("misread" \in Faults /\ prev = Empty)
            /\ Asks(job[r].form, base, mode, kept)
    BY PreparesAsked
  <1> DEFINE unwanted == Unwanted(mode, base, prev)
             wanted == Over(base, unwanted)
             common == CommonFor(job[r].form.action, wanted)
             target == Over(wanted, common)
             stored == Over(base, common)
             new    == Target(r, base, mode, kept, prev)
  <1>2. /\ job'[r] = new /\ \A q \in Requests \ {r} : job'[q] = job[q]
    BY <1>1 DEF Become, FlowTypeInv, JobsInv
  <1>3. /\ new.form = job[r].form /\ new.base = stored /\ new.mode = mode /\ new.kept = kept
        /\ new.prev = prev /\ new.target = target /\ new.step = "audit"
    BY TargetFields
  <1>4. log' = log
    BY DEF Prepare
  <1>5. /\ unwanted \in Parts /\ \A t \in DOMAIN unwanted : t \notin DOMAIN base
        /\ mode # "complete" => DOMAIN unwanted = {}
    <2>1. prev \in Parts
      BY PartsAre
    <2> QED
      BY <2>1, UnwantedIsPart
  <1>6. wanted \in Parts /\ DOMAIN wanted = DOMAIN base \cup DOMAIN unwanted
    <2> HIDE DEF unwanted
    <2> QED
      BY <1>5, OverIsPart
  <1>7. /\ common \in Parts /\ DOMAIN common \subseteq {Common} \ DOMAIN wanted
        /\ \A t \in DOMAIN common : common[t] = Last[Common]
    <2> HIDE DEF wanted
    <2>1. Prev = Last
      BY PrevIsLast DEF FlowTypeInv
    <2> QED
      BY <2>1, CommonIsPart
  <1> HIDE DEF new, unwanted, wanted, common
  <1>8. /\ DOMAIN target = DOMAIN wanted \cup DOMAIN common
        /\ stored \in Parts /\ DOMAIN stored = DOMAIN base \cup DOMAIN common
        /\ \A t \in DOMAIN base : stored[t] = base[t]
        /\ \A t \in DOMAIN common \ DOMAIN base : stored[t] = common[t]
    BY <1>6, <1>7, OverIsPart
  <1>9. /\ \A t \in DOMAIN stored : Over(stored, Empty)[t] = stored[t]
        /\ \A t \in Tenants \ DOMAIN stored : Over(stored, Empty)[t] = Nothing
    <2> HIDE DEF stored
    <2>1. Empty \in Parts /\ DOMAIN Empty = Tenants /\ \A t \in Tenants : Empty[t] = Nothing
      BY PartsAre DEF Empty
    <2>2. stored \in Parts
      BY <1>8
    <2>3. /\ \A t \in DOMAIN stored : Over(stored, Empty)[t] = stored[t]
          /\ \A t \in DOMAIN Empty \ DOMAIN stored : Over(stored, Empty)[t] = Empty[t]
      BY <2>1, <2>2, OverIsPart
    <2> QED
      BY <2>1, <2>3
  <1>10. DOMAIN target \subseteq Tenants
    BY <1>6, <1>7, <1>8, PartsAre DEF IsPart
  <1> HIDE DEF target, stored
  <1>11. ASSUME NEW t \in DOMAIN target
         PROVE  \/ t \in DOMAIN base /\ Over(stored, Empty)[t] = base[t]
                \/ t \notin DOMAIN base /\ mode = "complete" /\ Over(stored, Empty)[t] = Nothing
                \/ t = Common /\ t \notin DOMAIN base /\ Over(stored, Empty)[t] = Last[Common]
    <2>1. CASE t \in DOMAIN base
      BY <1>8, <1>9, <2>1
    <2>2. CASE t \in DOMAIN unwanted
      BY <1>5, <1>6, <1>7, <1>8, <1>9, <1>10, <2>2
    <2>3. CASE t \in DOMAIN common
      BY <1>6, <1>7, <1>8, <1>9, <2>3
    <2> QED
      BY <1>6, <1>8, <2>1, <2>2, <2>3
  <1>12. Aims(r, base)' /\ Last' = Last
    BY <1>2, <1>3, <1>4, <1>11 DEF Aims, Last
  <1>13. Asks(job[r].form, base, mode, kept)'
    BY <1>1, <1>2, <1>3, <1>4 DEF Asks
  <1>14. \E decl : Asks(job[r].form, decl, job[r].mode, job[r].kept)' /\ Aims(r, decl)'
    BY <1>2, <1>3, <1>12, <1>13 DEF Asks
  <1> QED
    BY <1>1, <1>2, <1>3, <1>12, <1>14 DEF AskInv

(* Every step keeps what is asked for.                                     *)
LEMMA AskStep ==
    ASSUME HistoryTypeInv, HistoryInv, FlowTypeInv, HoldInv, \A q \in Requests : AskInv(q),
           [Next]_vars
    PROVE  \A q \in Requests : AskInv(q)'
  <1> USE DEF FlowTypeInv
  <1>1. ASSUME NEW q \in Requests, SameBut(job'[q], job[q]), log' = log
        PROVE  AskInv(q)'
    BY <1>1, AsksKept, Zenon
  <1>2. ASSUME NEW q \in Requests, job'[q] = job[q], log' = log
        PROVE  AskInv(q)'
    BY <1>1, <1>2 DEF SameBut
  <1>3. ASSUME NEW r \in Requests, Begin(r) \/ List(r) \/ Fetch(r)
        PROVE  \A q \in Requests : AskInv(q)'
    <2>1. log' = log
      BY <1>3, Zenon DEF Begin, List, Fetch
    <2>2. \A q \in Requests \ {r} : job'[q] = job[q]
      BY <1>3, Arrives
    <2>3. AskInv(r)'
      BY <1>3, ArrivesAsking
    <2> QED
      BY <1>2, <2>1, <2>2, <2>3
  <1>4. ASSUME NEW r \in Requests, Prepare(r)
        PROVE  \A q \in Requests : AskInv(q)'
    <2>1. log' = log
      BY <1>4 DEF Prepare
    <2>2. AskInv(r)' /\ \A q \in Requests \ {r} : job'[q] = job[q]
      BY <1>4, PrepareAims
    <2> QED
      BY <1>2, <2>1, <2>2
  <1>5. ASSUME NEW r \in Requests, Lock(r)
        PROVE  \A q \in Requests : AskInv(q)'
    <2>1. log' = log /\ job[r].step = "lock"
      BY <1>5 DEF Lock
    <2>2. /\ job'[r].step = "prepare" /\ Keeps(job'[r], job[r])
          /\ \A q \in Requests \ {r} : job'[q] = job[q]
      BY <1>5, Ways
    <2>3. AskInv(r)'
      BY <2>1, <2>2, AsksKept DEF Keeps
    <2> QED
      BY <1>2, <2>1, <2>2, <2>3
  <1>6. ASSUME NEW r \in Requests,
               \/ Refused(r) \/ Rejected(r) \/ Unstored(r) \/ Output(r) \/ Release(r) \/ Crash(r)
        PROVE  \A q \in Requests : AskInv(q)'
    <2>1. log' = log
      BY <1>6, Zenon DEF Refused, Rejected, Unstored, Output, Release, Crash
    <2>2. /\ job'[r].step \in {"done", "output", "crashed"}
          /\ \A q \in Requests \ {r} : job'[q] = job[q]
      BY <1>6, Ways
    <2>3. AskInv(r)'
      BY <2>2 DEF AskInv
    <2> QED
      BY <1>2, <2>1, <2>2, <2>3
  <1>7. ASSUME NEW r \in Requests, Store(r)
        PROVE  \A q \in Requests : AskInv(q)'
    <2>1. job[r].step = "audit" /\ job'[r].step = "release"
          /\ \A q \in Requests \ {r} : job'[q] = job[q]
      BY <1>7, Ways DEF Store, AuditIsOver
    <2>2. \A q \in Requests \ {r} : job[q].step # "audit"
      BY <2>1 DEF HoldInv
    <2>3. \A i \in DOMAIN log : i \in DOMAIN log' /\ log'[i] = log[i]
      BY OnlyStoreLogs
    <2>4. ASSUME NEW q \in Requests \ {r}
          PROVE  AskInv(q)'
      BY <2>1, <2>2, <2>3, AsksKept
    <2>5. AskInv(r)'
      BY <2>1 DEF AskInv
    <2> QED
      BY <2>4, <2>5
  <1>8. ASSUME NEW r \in Requests, Audit(r)
        PROVE  \A q \in Requests : AskInv(q)'
    <2>1. PICK t \in Tenants : \/ Mismatched(r, t) \/ Unread(r, t) \/ Unchanged(r, t)
                               \/ Updated(r, t) \/ Lost(r, t) \/ Slow(r, t)
      BY <1>8 DEF Audit
    <2>2. Audits(r, t) /\ log' = log
      BY <2>1, Zenon DEF Mismatched, Unread, Unchanged, Updated, Lost, Slow, Differs
    <2>3. ASSUME NEW new, SameBut(new, job[r]), Become(r, new)
          PROVE  \A q \in Requests : AskInv(q)'
      <3>1. job'[r] = new /\ \A q \in Requests \ {r} : job'[q] = job[q]
        BY <2>3, BecomeTyped DEF JobsInv
      <3> QED
        BY <1>1, <1>2, <2>2, <2>3, <3>1
    <2>4. CASE Mismatched(r, t)
      BY <2>2, <2>3, <2>4, AuditedTyped DEF Mismatched
    <2>5. CASE Unread(r, t)
      BY <2>2, <2>3, <2>5, AuditedTyped DEF Unread
    <2>6. CASE Unchanged(r, t)
      BY <2>2, <2>3, <2>6, AuditedTyped DEF Unchanged
    <2>7. CASE Updated(r, t)
      BY <2>2, <2>3, <2>7, AuditedTyped DEF Updated
    <2>8. CASE Lost(r, t)
      BY <2>2, <2>3, <2>8, AuditedTyped DEF Lost
    <2>9. CASE Slow(r, t)
      BY <2>2, <2>3, <2>9, AuditedTyped DEF Slow
    <2> QED
      BY <2>1, <2>4, <2>5, <2>6, <2>7, <2>8, <2>9
  <1>9. CASE ScriptEnds
    <2>1. log' = log
      BY <1>9 DEF ScriptEnds
    <2> QED
      BY <1>1, <1>9, <2>1, ScriptTyped
  <1>10. CASE TakenOver \/ Finished \/ UNCHANGED vars \/ \E r \in Requests : LateRelease(r)
    BY <1>2, <1>10 DEF TakenOver, Finished, LateRelease, vars
  <1> QED
    BY <1>3, <1>4, <1>5, <1>6, <1>7, <1>8, <1>9, <1>10 DEF Next, Proceed

(* What is asked for is deployed by a step of the serial store.            *)
LEMMA AskedIsDeployed ==
    ASSUME NEW r \in Requests, NEW form \in Forms[r], NEW decl, NEW mode, NEW kept,
           Asks(form, decl, mode, kept), Declarations!Deploys(decl, mode, kept)
    PROVE  \/ Declarations!Deploy(form) \/ Declarations!Redeploy(form) \/ Declarations!Patch(form)
  <1>1. CASE form.action \in {"deploy", "remove"}
    BY <1>1 DEF Asks, Declarations!Deploy
  <1>2. CASE form.action = "redeploy"
    <2>1. \A d : Some(d) = [t \in Declarations!Named(d) |-> d[t]]
      BY DEF Some, Named, Declarations!Named
    <2> QED
      BY <1>2, <2>1 DEF Asks, RedeployAge, Declarations!Redeploy
  <1>3. CASE form.action = "patch"
    <2>1. ASSUME NEW d
          PROVE  LET found == {Common} \cap Declarations!Named(d)
                 IN Over(form.decl, Filtered(Some(d), DOMAIN form.decl)) =
                        [t \in DOMAIN form.decl \cup found |->
                            IF t \in DOMAIN form.decl THEN form.decl[t] ELSE d[t]]
      BY DEF Over, Filtered, Some, Named, Declarations!Named
    <2> QED
      BY <1>3, <2>1 DEF Asks, Declarations!Patch
  <1> QED
    BY <1>1, <1>2, <1>3 DEF Asks

(* What is stored is a step of the serial store.                           *)
LEMMA StoreIsDeploys ==
    ASSUME FlowTypeInv, NEW r \in Requests, AskInv(r), Store(r), ~ job[r].form.dryRun,
           log' = Append(log, [decl |-> Stored(r), mode |-> job[r].kept]), log' # log
    PROVE  Declarations!Next
  <1> DEFINE good == DOMAIN job[r].target \ job[r].failed
             prev == job[r].prev
             mode == job[r].mode
             stored == Over(job[r].base, Empty)
  <1>1. /\ job[r].step = "audit" /\ job[r].form \in Forms[r] /\ DOMAIN prev = Tenants
        /\ DOMAIN job[r].target \subseteq Tenants
    BY PartsAre DEF Store, AuditIsOver, FlowTypeInv, JobsInv, Jobs, IsPart
  <1>2. prev = Last \/ ("misread" \in Faults /\ prev = Empty)
    BY <1>1 DEF AskInv
  <1>3. PICK decl : Asks(job[r].form, decl, mode, job[r].kept) /\ Aims(r, decl)
    BY <1>1 DEF AskInv
  <1> DEFINE Borrowed(t) == t = Common /\ t \notin DOMAIN decl /\ stored[t] = Last[Common]
             Own(t) == \/ t \in DOMAIN decl /\ stored[t] = decl[t]
                       \/ t \notin DOMAIN decl /\ mode = "complete" /\ stored[t] = Nothing
             own == {t \in good : Own(t)}
             previous == IF prev # Last /\ Common \in good \ own
                         THEN [Empty EXCEPT ![Common] = Last[Common]] ELSE prev
  <1>4. \A t \in good \ own : Borrowed(t)
    BY <1>3 DEF Aims
  <1>5. \A t \in Tenants : Stored(r)[t] = IF t \in good THEN stored[t] ELSE prev[t]
    BY DEF Stored
  <1>6. Declarations!Last = Last /\ Declarations!Empty = Empty
    BY DEF Declarations!Last, Last, Declarations!Empty, Empty
  <1>7. previous \in Declarations!Readings
    BY <1>2, <1>6 DEF Declarations!Readings
  <1>8. own \in SUBSET Tenants
    BY <1>1
  <1>9. ASSUME NEW t \in Tenants
        PROVE  Stored(r)[t] = IF t \in own THEN Declarations!Asked(decl, mode, previous, t)
                              ELSE previous[t]
    <2>1. CASE t \in own
      <3>1. Stored(r)[t] = stored[t] /\ Own(t)
        BY <1>5, <2>1
      <3> QED
        BY <2>1, <3>1 DEF Declarations!Asked
    <2>2. CASE t \in good \ own
      <3>1. Stored(r)[t] = Last[Common] /\ t = Common
        BY <1>4, <1>5, <2>2
      <3>2. previous[t] = Last[Common]
        <4>1. CASE prev = Last
          BY <3>1, <4>1
        <4>2. CASE prev # Last
          BY <2>2, <3>1, <4>2, PartsAre DEF Empty
        <4> QED
          BY <4>1, <4>2
      <3> QED
        BY <2>2, <3>1, <3>2
    <2>3. CASE t \notin good
      <3>1. Stored(r)[t] = prev[t]
        BY <1>5, <2>3
      <3>2. previous[t] = prev[t]
        <4>1. CASE prev # Last /\ Common \in good \ own
          <5>1. t # Common /\ prev = Empty
            BY <1>2, <2>3, <4>1
          <5> QED
            BY <4>1, <5>1 DEF Empty
        <4> QED
          BY <4>1
      <3> QED
        BY <2>3, <3>1, <3>2
    <2> QED
      BY <2>1, <2>2, <2>3
  <1> HIDE DEF own, previous
  <1>10. Stored(r) = [t \in Tenants |-> IF t \in own THEN Declarations!Asked(decl, mode, previous, t)
                                        ELSE previous[t]]
    BY <1>9 DEF Stored
  <1>11. Declarations!Deploys(decl, mode, job[r].kept)
    BY <1>7, <1>8, <1>10 DEF Declarations!Deploys
  <1> QED
    BY <1>1, <1>3, <1>11, AskedIsDeployed DEF Declarations!Next

(* declarationHandler.js: however requests overlap, fail and crash, what   *)
(* is stored is as if they had been handled one after the other: the lock, *)
(* and that the last declaration is read under it, make the deployment of  *)
(* any number of tenants, with its partial failures, one step.             *)
THEOREM StoringIsSerial ==
    ASSUME Synchronous
    PROVE  Spec => StoresSerially
  <1> DEFINE Known == HistoryTypeInv /\ HistoryInv /\ FlowTypeInv /\ FlowInv
             Asking == \A r \in Requests : AskInv(r)
  <1>1. Init => Declarations!Init /\ Asking
    BY DEF Init, Idle, Declarations!Init, AskInv
  <1>2. Known /\ Asking /\ [Next]_vars => Asking' /\ [Declarations!Next]_log
    <2> SUFFICES ASSUME Known, Asking, [Next]_vars
                 PROVE  Asking' /\ [Declarations!Next]_log
      OBVIOUS
    <2>1. Asking'
      BY AskStep DEF FlowInv
    <2>2. ASSUME log' # log
          PROVE  Declarations!Next
      BY <2>2, OnlyStoreLogs, StoreIsDeploys
    <2> QED
      BY <2>1, <2>2
  <1>3. Spec => []Known
    BY Deployments, PTL
  <1> QED
    BY <1>1, <1>2, <1>3, PTL DEF Spec, StoresSerially, Declarations!Spec

=============================================================================
