--------------------------- MODULE DeclarationFlow ---------------------------
(***************************************************************************)
(* How src/lib/declarationHandler.js turns a request into changes of a     *)
(* BIG-IP: the declaration that was stored last is read under the global   *)
(* lock, the tenants of the new one are audited one after the other        *)
(* (src/lib/audit.js), each by a transaction on the device (fetch.js,      *)
(* update.js), what was deployed is stored and the lock is released.       *)
(*                                                                         *)
(* A tenant's content gives every object a version, 0 for none.  Version v *)
(* of an object of any tenant but Common refers to Common's object Ref[v]. *)
(* The device refuses a change that would leave a reference to nothing.    *)
(* GlobalLock has the lock in detail; here it is taken or not.             *)
(***************************************************************************)
EXTENDS DeclarationHistory, Sequences

CONSTANTS Requests,     \* each is handled once
          Common,       \* the tenant that the others refer to
          Order,        \* the other tenants, as a declaration names them
          Names,        \* of the objects in a tenant
          Versions,     \* 1 .. the number of versions
          Ref,          \* what a version refers to
          Forms,        \* what each request may ask
          Beginnings,   \* the declarations that were stored before, in order
          Limit,        \* historyLimit
          Behind,       \* how far the clock of a request's host is behind
          Nobody,       \* does not hold the lock
          Faults,       \* of those below
          MaxFaults     \* how many may happen

Tenants == {Common} \cup {Order[i] : i \in 1..Len(Order)}
Contents == [Names -> {0} \cup Versions]
Nothing == [n \in Names |-> 0]

Over(f, g) == [t \in DOMAIN f \cup DOMAIN g |-> IF t \in DOMAIN f THEN f[t] ELSE g[t]]
Uses(content) == {Ref[content[n]] : n \in {n \in Names : content[n] # 0}}
Closed(decl) ==
    \A t \in DOMAIN decl \ {Common} : \A n \in Uses(decl[t]) : decl[Common][n] # 0

Actions == {"deploy", "redeploy", "remove", "patch", "retrieve"}
Modes == {"selective", "complete", "original"}  \* the last for "redeploy"

IsPart(decl) == DOMAIN decl \subseteq Tenants /\ decl \in [DOMAIN decl -> Contents]

ASSUME FlowAssumption ==
    /\ Nobody \notin Requests
    /\ Order \in Seq(Tenants \ {Common})
    /\ \A i, j \in DOMAIN Order : Order[i] = Order[j] => i = j
    /\ 0 \notin Versions
    /\ Ref \in [Versions -> Names]
    /\ Beginnings \subseteq Seq([decl : [Tenants -> Contents],
                                 mode : {"selective", "complete"}])
    /\ \A b \in Beginnings : b # <<>> => Closed(b[Len(b)].decl)
    /\ \A r \in Requests : \A f \in Forms[r] :
          /\ DOMAIN f = {"action", "mode", "decl", "age", "dryRun", "expect"}
          /\ f.action \in Actions /\ f.mode \in Modes /\ f.age \in Nat /\ f.dryRun \in BOOLEAN
          /\ IsPart(f.decl) /\ IsPart(f.expect)
    /\ Limit \in Nat \ {0}
    /\ Behind \in [Requests -> Nat]
    /\ MaxFaults \in Nat
    /\ Faults \subseteq {"misread",     \* the stored declaration, as none
                         "unread",      \* an error before a tenant's update
                         "unreadCommon",
                         "lost",        \* an error after a tenant's update
                         "slow",        \* a script that is given up too early
                         "unstored",    \* an error of the store
                         "untrimmed",   \* an error of the trim
                         "crash"}       \* of the AS3 process

VARIABLES device,   \* the content of each tenant
          history,  \* the stored declarations
          clock,    \* of the device
          holder,   \* of the global lock
          job,      \* what each request does
          late,     \* requests whose release of the lock nobody awaits
          scripts,  \* tenant and content of the scripts that still run
          log,      \* all that was ever stored, in order
          unsure,   \* tenants that a fault may have set apart
          faults    \* that are left

vars == <<device, history, clock, holder, job, late, scripts, log, unsure, faults>>

None == [t \in {} |-> Nothing]
Empty == [t \in Tenants |-> Nothing]

Idle == [step   |-> "new",
         form   |-> [action |-> "none"],
         picked |-> 0,            \* the stamp that a PATCH found
         mode   |-> "selective",  \* the update mode
         kept   |-> "selective",  \* the update mode that is stored
         base   |-> None,         \* what is stored if it is deployed
         prev   |-> None,         \* the declaration that was stored last
         target |-> None,         \* what is deployed
         todo   |-> <<>>,         \* the tenants to audit
         adding |-> FALSE,        \* firstPassNoDelete
         failed |-> {},           \* the tenants that were not deployed
         reply  |-> "none",
         fresh  |-> FALSE,        \* whether a PATCH found what was stored last
         before |-> None,         \* the device when the lock was held
         spoilt |-> FALSE]        \* whether a fault disturbed the audit

Init ==
    /\ log \in Beginnings
    /\ history = {[stamp |-> i + 1, decl |-> log[i].decl, mode |-> log[i].mode] :
                      i \in {i \in 1..Len(log) : i + Limit > Len(log)}}
    /\ device = IF log = <<>> THEN [t \in Tenants |-> Nothing] ELSE log[Len(log)].decl
    /\ clock = Len(log) + 2
    /\ holder = Nobody
    /\ job = [r \in Requests |-> Idle]
    /\ late = {}
    /\ scripts = {}
    /\ unsure = {}
    /\ faults = MaxFaults

-----------------------------------------------------------------------------
(* Reading what is stored.                                                 *)

Named(decl) == {t \in DOMAIN decl : decl[t] # Nothing}
Newest == OfAge(history, 0)
Some(decl) == [t \in Named(decl) |-> decl[t]]

(* filterTenantsInDeclaration: the named tenants, and Common.              *)
Filtered(decl, named) == [t \in DOMAIN decl \cap (named \cup {Common}) |-> decl[t]]

Become(r, new) == job' = [job EXCEPT ![r] = new]
Spend(kind) == kind \in Faults /\ faults > 0 /\ faults' = faults - 1

Reads(f) == f.action \in {"retrieve", "patch"}
AgeToRead(f) == IF f.action = "retrieve" THEN f.age ELSE 0

(* The request arrives.  A GET, and a PATCH before it changes anything,    *)
(* read without the lock.                                                  *)
Begin(r) ==
    /\ job[r].step = "new"
    /\ \E f \in Forms[r] :
          Become(r, [job[r] EXCEPT !.form = f, !.base = f.decl, !.mode = f.mode,
                                   !.step = IF Reads(f) THEN "list" ELSE "lock"])
    /\ UNCHANGED <<device, history, clock, holder, late, scripts, log, unsure, faults>>

(* listBigipDeclarations.  When there is none of that age, a PATCH starts  *)
(* from an empty declaration.                                              *)
List(r) ==
    /\ job[r].step = "list"
    /\ LET age == AgeToRead(job[r].form)
       IN \/ /\ HasAge(history, age)
             /\ Become(r, [job[r] EXCEPT !.step = "fetch", !.picked = OfAge(history, age).stamp])
          \/ /\ ~ HasAge(history, age)
             /\ job[r].form.action = "patch"
             /\ Become(r, [job[r] EXCEPT !.step = "lock", !.mode = "selective"])
          \/ /\ ~ HasAge(history, age)
             /\ job[r].form.action = "retrieve"
             /\ Become(r, [job[r] EXCEPT !.step = "done", !.reply = "NO_CONTENT"])
    /\ UNCHANGED <<device, history, clock, holder, late, scripts, log, unsure, faults>>

Found(r) == {e \in history : e.stamp = job[r].picked}

(* Mutant of Fetch: what is not there is asked for again. *)
FetchAgain(r) ==
    /\ job[r].step = "fetch"
    /\ \/ Found(r) = {} /\ UNCHANGED job
       \/ /\ Found(r) # {}
          /\ Become(r, [job[r] EXCEPT !.step = "done", !.reply = "OK"])
    /\ UNCHANGED <<device, history, clock, holder, late, scripts, log, unsure, faults>>

(* The GET of the data group, which may have been trimmed since.  A PATCH  *)
(* deploys the tenants in its paths (and Common) once more, in the mode    *)
(* that the declaration is stored with.                                    *)
Fetch(r) ==
    /\ job[r].step = "fetch"
    /\ \/ /\ Found(r) = {}
          /\ Become(r, [job[r] EXCEPT !.step = "done", !.reply = "error"])
       \/ /\ Found(r) # {} /\ job[r].form.action = "retrieve"
          /\ Become(r, [job[r] EXCEPT !.step = "done", !.reply = "OK"])
       \/ /\ job[r].form.action = "patch"
          /\ \E e \in Found(r) :
                Become(r, [job[r] EXCEPT !.step = "lock", !.mode = e.mode,
                                         !.base = Over(job[r].form.decl,
                                                       Filtered(Some(e.decl), DOMAIN job[r].form.decl))])
    /\ UNCHANGED <<device, history, clock, holder, late, scripts, log, unsure, faults>>

-----------------------------------------------------------------------------
(* handleCreateUpdateOrDelete up to the audit.                             *)

(* Mutant of Lock: it is not asked whether somebody has it. *)
LockAnyway(r) ==
    /\ job[r].step = "lock"
    /\ holder' = r
    /\ Become(r, [job[r] EXCEPT !.step = "prepare"])
    /\ UNCHANGED <<device, history, clock, late, scripts, log, unsure, faults>>

Lock(r) ==
    /\ job[r].step = "lock"
    /\ holder = Nobody
    /\ holder' = r
    /\ Become(r, [job[r] EXCEPT !.step = "prepare"])
    /\ UNCHANGED <<device, history, clock, late, scripts, log, unsure, faults>>

Refused(r) ==
    /\ job[r].step = "lock"
    /\ holder # Nobody
    /\ Become(r, [job[r] EXCEPT !.step = "done", !.reply = "error"])
    /\ UNCHANGED <<device, history, clock, holder, late, scripts, log, unsure, faults>>

(* Mutant of Unwanted: complete mode forgets what is not named. *)
UnwantedIsLeft(mode, base, prev) == None

(* Mutant of Unwanted: a selective declaration deletes them, too. *)
UnwantedAlways(mode, base, prev) == [t \in Named(prev) \ DOMAIN base |-> Nothing]

(* The tenants of the previous declaration that a complete one deletes.    *)
Unwanted(mode, base, prev) ==
    [t \in IF mode = "complete" THEN Named(prev) \ DOMAIN base ELSE {} |-> Nothing]

(* The stored Common, for references to it, unless it is declared.         *)
CommonFor(action, decl) ==
    IF /\ action # "remove"
       /\ Common \notin DOMAIN decl
       /\ \E t \in DOMAIN decl : Uses(decl[t]) # {}
       /\ history # {} /\ Newest.decl[Common] # Nothing
    THEN [t \in {Common} |-> Newest.decl[Common]]
    ELSE None

(* The tenants but Common, in the order of the declaration.                *)
Others(tenants) ==
    LET first[n \in 0..Len(Order)] ==
            IF n = 0 THEN <<>>
            ELSE IF Order[n] \in tenants THEN Append(first[n - 1], Order[n]) ELSE first[n - 1]
    IN first[Len(Order)]

(* Mutant of TenantList: Common only last. *)
CommonOnlyLast(tenants) ==
    LET others == Others(tenants)
    IN IF Common \in tenants THEN others \o <<Common>> ELSE others

(* fetch.tenantList: Common is created first and deleted last.             *)
TenantList(tenants) ==
    LET others == Others(tenants)
    IN IF Common \in tenants THEN <<Common>> \o others \o <<Common>> ELSE others

(* What is deployed: the declaration, what it deletes, the Common it needs.*)
Target(r, base, mode, kept, prev) ==
    LET wanted == Over(base, Unwanted(mode, base, prev))
        common == CommonFor(job[r].form.action, wanted)
        target == Over(wanted, common)
    IN [job[r] EXCEPT !.base = Over(base, common), !.mode = mode, !.kept = kept,
                      !.prev = prev, !.target = target,
                      !.todo = TenantList(DOMAIN target),
                      !.adding = Common \in DOMAIN target, !.before = device,
                      !.fresh = history # {} => job[r].picked = Newest.stamp,
                      !.step = "audit"]

(* Under the lock the last declaration is read; one that cannot be read is *)
(* taken for an empty one.                                                 *)
Prev == IF history = {} THEN Empty ELSE Newest.decl

(* redeployAge || 1.                                                       *)
RedeployAge(form) == IF form.age = 0 THEN 1 ELSE form.age

PrepareWith(r, prev) ==
    IF job[r].form.action = "redeploy"
    THEN /\ HasAge(history, RedeployAge(job[r].form))
         /\ LET old == OfAge(history, RedeployAge(job[r].form))
                mode == IF job[r].mode = "original" THEN old.mode ELSE job[r].mode
            IN Become(r, Target(r, Some(old.decl), mode, old.mode, prev))
    ELSE Become(r, Target(r, job[r].base, job[r].mode, job[r].mode, prev))

Prepare(r) ==
    /\ job[r].step = "prepare"
    /\ \/ PrepareWith(r, Prev) /\ UNCHANGED <<unsure, faults>>
       \/ Spend("misread") /\ PrepareWith(r, Empty) /\ unsure' = Tenants
    /\ UNCHANGED <<device, history, clock, holder, late, scripts, log>>

(* The catch: the request is answered while the lock is being released.    *)
Fail(r) ==
    /\ late' = late \cup {r}
    /\ Become(r, [job[r] EXCEPT !.step = "done", !.reply = "error"])

(* There is no declaration of the age, the filter or the parser rejects,   *)
(* or the device is not answering.                                         *)
Rejected(r) ==
    /\ job[r].step = "prepare"
    /\ Fail(r)
    /\ UNCHANGED <<device, history, clock, holder, scripts, log, unsure, faults>>

-----------------------------------------------------------------------------
(* auditTenant, of the first tenant in todo.                               *)

Audits(r, t) == job[r].step = "audit" /\ job[r].todo # <<>> /\ t = Head(job[r].todo)

(* The commands for a tenant: additions only while firstPassNoDelete.      *)
Applied(adding, current, desired) ==
    [n \in Names |-> IF adding /\ current[n] # 0 THEN current[n] ELSE desired[n]]

Proposed(r, t) == [device EXCEPT ![t] = Applied(job[r].adding, device[t], job[r].target[t])]

(* Mutant of Audited: the first pass has no end. *)
AuditedStillAdding(r, t, good) ==
    [job[r] EXCEPT !.todo = Tail(@), !.failed = IF good THEN @ ELSE @ \cup {t}]

Audited(r, t, good) ==
    [job[r] EXCEPT !.todo = Tail(@), !.adding = FALSE,
                   !.failed = IF good THEN @ ELSE @ \cup {t}]

(* The optimisticLockKey is not the hash of the previous declaration.      *)
Mismatch(r, t) ==
    /\ t \in DOMAIN job[r].form.expect
    /\ job[r].prev[t] # Nothing
    /\ job[r].prev[t] # job[r].form.expect[t]

(* What is thrown before the update leaves firstPassNoDelete as it is.     *)
Early(r, t) == [Audited(r, t, FALSE) EXCEPT !.adding = job[r].adding]

Mismatched(r, t) ==
    /\ Audits(r, t)
    /\ Mismatch(r, t)
    /\ Become(r, Early(r, t))
    /\ UNCHANGED <<device, history, clock, holder, late, scripts, log, unsure, faults>>

(* The tenant cannot be read from the device.                              *)
Unread(r, t) ==
    /\ Audits(r, t)
    /\ Spend(IF t = Common THEN "unreadCommon" ELSE "unread")
    /\ Become(r, [Early(r, t) EXCEPT !.spoilt = TRUE])
    /\ UNCHANGED <<device, history, clock, holder, late, scripts, log, unsure>>

(* The diff is empty, or nothing is submitted on a dry run.                *)
Unchanged(r, t) ==
    /\ Audits(r, t)
    /\ ~ Mismatch(r, t)
    /\ job[r].form.dryRun \/ device[t] = job[r].target[t]
    /\ Become(r, Audited(r, t, TRUE))
    /\ UNCHANGED <<device, history, clock, holder, late, scripts, log, unsure, faults>>

Differs(r, t) ==
    /\ Audits(r, t)
    /\ ~ Mismatch(r, t)
    /\ ~ job[r].form.dryRun
    /\ device[t] # job[r].target[t]

(* The transaction is committed, or refused and the tenant fails.          *)
Updated(r, t) ==
    /\ Differs(r, t)
    /\ IF Closed(Proposed(r, t))
          THEN device' = Proposed(r, t) /\ Become(r, Audited(r, t, TRUE))
          ELSE UNCHANGED device /\ Become(r, Audited(r, t, FALSE))
    /\ UNCHANGED <<history, clock, holder, late, scripts, log, unsure, faults>>

(* A request or a command after the transaction fails.                     *)
Lost(r, t) ==
    /\ Differs(r, t)
    /\ Spend("lost")
    /\ device' \in {device} \cup {d \in {Proposed(r, t)} : Closed(d)}
    /\ Become(r, [Audited(r, t, FALSE) EXCEPT !.spoilt = TRUE])
    /\ unsure' = unsure \cup {t}
    /\ UNCHANGED <<history, clock, holder, late, scripts, log>>

(* runScript gives up while the script is still running on the device.     *)
Slow(r, t) ==
    /\ Differs(r, t)
    /\ Spend("slow")
    /\ scripts' = scripts \cup {[tenant |-> t, content |-> Proposed(r, t)[t]]}
    /\ Become(r, [Audited(r, t, FALSE) EXCEPT !.spoilt = TRUE])
    /\ unsure' = unsure \cup {t}
    /\ UNCHANGED <<device, history, clock, holder, late, log>>

(* It ends at any time later, maybe when the lock has another holder.      *)
ScriptEnds ==
    /\ \E s \in scripts :
          /\ scripts' = scripts \ {s}
          /\ LET after == [device EXCEPT ![s.tenant] = s.content]
             IN device' = IF Closed(after) THEN after ELSE device
          /\ unsure' = unsure \cup {s.tenant}
    /\ job' = [r \in Requests |-> [job[r] EXCEPT !.spoilt = @ \/ job[r].step = "audit"]]
    /\ UNCHANGED <<history, clock, holder, late, log, faults>>

Audit(r) ==
    \E t \in Tenants :
        \/ Mismatched(r, t) \/ Unread(r, t) \/ Unchanged(r, t)
        \/ Updated(r, t) \/ Lost(r, t) \/ Slow(r, t)

-----------------------------------------------------------------------------
(* What is stored, the release of the lock and the answer.                 *)

(* Mutant of Stored: the tenants that failed are stored as well. *)
StoredWithFailed(r) ==
    [t \in Tenants |-> IF t \in DOMAIN job[r].target
                       THEN Over(job[r].base, Empty)[t] ELSE job[r].prev[t]]

(* The previous declaration with the tenants that were deployed: those that*)
(* failed are as if they were not in the declaration.                      *)
Stored(r) ==
    [t \in Tenants |-> IF t \in DOMAIN job[r].target \ job[r].failed
                       THEN Over(job[r].base, Empty)[t] ELSE job[r].prev[t]]

AuditIsOver(r) == job[r].step = "audit" /\ job[r].todo = <<>>

(* Tenants that are known again to be as they are stored.                  *)
Settled(r) ==
    IF job[r].spoilt THEN {}
    ELSE (DOMAIN job[r].target \ job[r].failed) \ {s.tenant : s \in scripts}

Entry(r) == [stamp |-> clock - Behind[r], decl |-> Stored(r), mode |-> job[r].kept]

StoreDry(r) == job[r].form.dryRun

(* storeBigipDeclaration, or nothing after a dry run.                      *)
Store(r) ==
    /\ AuditIsOver(r)
    /\ Become(r, [job[r] EXCEPT !.step = "release"])
    /\ IF StoreDry(r)
          THEN UNCHANGED <<history, clock, log, unsure, faults>>
          ELSE /\ clock' = clock + 1
               /\ log' = Append(log, [decl |-> Stored(r), mode |-> job[r].kept])
               /\ unsure' = unsure \ Settled(r)
               /\ \/ history' = Trimmed(Kept(history, Entry(r)), Limit) /\ UNCHANGED faults
                  \/ /\ Spend("untrimmed")
                     /\ history' \in TrimmedInPart(Kept(history, Entry(r)), Limit)
    /\ UNCHANGED <<device, holder, late, scripts>>

(* The declaration is not stored: what was deployed is not on record.      *)
Unstored(r) ==
    /\ AuditIsOver(r)
    /\ ~ job[r].form.dryRun
    /\ Spend("unstored")
    /\ unsure' = unsure \cup DOMAIN job[r].target
    /\ Fail(r)
    /\ UNCHANGED <<device, history, clock, holder, scripts, log>>

Release(r) ==
    /\ job[r].step = "release"
    /\ holder' = Nobody
    /\ Become(r, [job[r] EXCEPT !.step = "output"])
    /\ UNCHANGED <<device, history, clock, late, scripts, log, unsure, faults>>

(* The answer.  When what was stored is rejected by the parser, or the     *)
(* configuration cannot be saved or synchronised, it is an error.          *)
Reply(r) ==
    LET good == DOMAIN job[r].target \ job[r].failed
    IN CASE job[r].failed = {}               -> "OK"
         [] job[r].failed # {} /\ good # {}  -> "MULTI_STATUS"
         [] OTHER                            -> "UNPROCESSABLE_ENTITY"

Output(r) ==
    /\ job[r].step = "output"
    /\ \E reply \in {Reply(r), "error"} :
          Become(r, [job[r] EXCEPT !.step = "done", !.reply = reply])
    /\ UNCHANGED <<device, history, clock, holder, late, scripts, log, unsure, faults>>

(* Mutant of LateRelease: the lock is not released any more. *)
NoLateRelease(r) ==
    /\ r \in late
    /\ late' = late \ {r}
    /\ UNCHANGED <<device, history, clock, holder, job, scripts, log, unsure, faults>>

LateRelease(r) ==
    /\ r \in late
    /\ late' = late \ {r}
    /\ holder' = Nobody
    /\ UNCHANGED <<device, history, clock, job, scripts, log, unsure, faults>>

(* The process ends; its lock stays until it is old enough to be removed.  *)
Crash(r) ==
    /\ job[r].step \notin {"new", "done", "crashed"}
    /\ Spend("crash")
    /\ Become(r, [job[r] EXCEPT !.step = "crashed"])
    /\ unsure' = IF job[r].step = "audit" THEN unsure \cup DOMAIN job[r].target ELSE unsure
    /\ UNCHANGED <<device, history, clock, holder, late, scripts, log>>

TakenOver ==
    /\ holder # Nobody
    /\ job[holder].step = "crashed"
    /\ holder' = Nobody
    /\ UNCHANGED <<device, history, clock, job, late, scripts, log, unsure, faults>>

Finished == (\A r \in Requests : job[r].step \in {"done", "crashed"}) /\ UNCHANGED vars

Proceed(r) ==
    \/ List(r) \/ Fetch(r) \/ Lock(r) \/ Refused(r) \/ Prepare(r) \/ Rejected(r)
    \/ Audit(r) \/ Store(r) \/ Unstored(r) \/ Release(r) \/ Output(r)

Next ==
    \/ \E r \in Requests : Begin(r) \/ Proceed(r) \/ LateRelease(r) \/ Crash(r)
    \/ ScriptEnds
    \/ TakenOver
    \/ Finished

Fairness ==
    /\ \A r \in Requests : WF_vars(Proceed(r)) /\ WF_vars(LateRelease(r))
    /\ WF_vars(TakenOver)

Spec == Init /\ [][Next]_vars /\ Fairness

-----------------------------------------------------------------------------
(* Properties.                                                             *)

Steps == {"new", "list", "fetch", "lock", "prepare", "audit", "release", "output",
          "done", "crashed"}

Deploying == \E r \in Requests : job[r].step \in {"audit", "crashed"} /\ holder = r

(* The stored declaration tells what is on the device, but for tenants that*)
(* a fault set apart: storeBigipDeclaration is called with what was there  *)
(* and what was deployed, and not with what failed.  Of Common, whose first*)
(* pass may succeed alone, the device may have more.                       *)
StoredTellsDevice ==
    ~ Deploying =>
        \A t \in Tenants \ unsure :
            \/ device[t] = Prev[t]
            \/ /\ t = Common
               /\ \A n \in Names : Prev[t][n] \in {0, device[t][n]}

(* A tenant that handleCreateUpdateOrDelete counts as succeeded is on the  *)
(* device as it was declared, when its declaration is stored.              *)
SuccessIsApplied ==
    \A r \in Requests :
        job[r].step = "release" /\ ~ job[r].form.dryRun =>
            \A t \in DOMAIN job[r].target \ (job[r].failed \cup unsure) :
                device[t] = job[r].target[t]

(* References move safely: when the device after the request would be      *)
(* consistent, no tenant fails for the order in which tenantList has them  *)
(* and tmshUpdateScript adds and deletes.                                  *)
MovesReferencesSafely ==
    \A r \in Requests :
        /\ job[r].step = "release"
        /\ ~ job[r].spoilt
        /\ DOMAIN job[r].form.expect = {}
        /\ Closed(Over(job[r].target, job[r].before))
        => job[r].failed = {}

(* A complete declaration that succeeds leaves no other tenant, and the    *)
(* redeployment of an old one is a clean roll-back, but for tenants that a *)
(* fault had set apart.                                                    *)
CompleteIsComplete ==
    \A r \in Requests :
        /\ job[r].step = "release"
        /\ job[r].mode = "complete"
        /\ job[r].failed = {} /\ ~ job[r].form.dryRun
        => \A t \in Tenants \ unsure : device[t] = Over(job[r].base, Empty)[t]

(* The age by which a declaration is redeployed counts back in the order   *)
(* in which the declarations were stored.                                  *)
AgeCountsBack ==
    \A age \in 0..(Limit - 1) :
        age < Len(log) =>
            /\ HasAge(history, age)
            /\ OfAge(history, age).decl = log[Len(log) - age].decl

(* What was stored before the last declaration.                            *)
Before == IF Len(log) < 2 THEN Empty ELSE log[Len(log) - 1].decl

(* A PATCH leaves the tenants alone that it does not name, if the device   *)
(* had of them what was stored.                                            *)
PatchKeepsOthers ==
    \A r \in Requests :
        /\ job[r].step = "release"
        /\ job[r].form.action = "patch" /\ ~ job[r].form.dryRun
        => \A t \in Tenants \ (DOMAIN job[r].form.decl \cup job[r].failed \cup unsure) :
               job[r].before[t] = Before[t] => device[t] = job[r].before[t]

(* The same, when nothing was stored between the reading of handlePatch and*)
(* its lock, and what it read had been deployed selectively.               *)
FreshPatchKeepsOthers ==
    (\A r \in Requests : job[r].step = "release" => job[r].fresh /\ job[r].mode = "selective")
        => PatchKeepsOthers

Declarations == INSTANCE DeclarationStore WITH Misread <- "misread" \in Faults

(* However requests overlap, are refused, fail or crash, what is stored is *)
(* as if they had been handled one after the other, each in one step: no   *)
(* declaration that is stored is computed from anything but the one stored *)
(* just before, so that no update is lost, and a redeployment counts back  *)
(* from it (handleCreateUpdateOrDelete under its lock).                    *)
StoresSerially == Declarations!Spec

Departed == {r \in Requests : job[r].step \in {"output", "done", "crashed"} /\ holder # r}

Turns == INSTANCE LockService WITH Clients <- Requests, owner <- holder, gone <- Departed

(* The holder is one of the lock service, as the lock on the device is     *)
(* (TakesTurns of GlobalLock): whoever has it keeps it until it has left   *)
(* the handler, late or crashed, and nobody comes back.                    *)
HoldersTakeTurns == Turns!Spec

(* Whoever asks gets an answer, unless its process crashes.                *)
Answered ==
    \A r \in Requests : job[r].step # "new" ~> job[r].step \in {"done", "crashed"}

(* The global lock does not stay.                                          *)
LockComesFree == \A r \in Requests : holder = r ~> holder # r
=============================================================================
