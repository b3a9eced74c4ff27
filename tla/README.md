# A TLA+ model of F5 BIG-IP AS3 (f5-appsvcs-extension)

AS3 runs inside the `restnoded` process of a BIG-IP (or on a BIG-IQ or in a
container), receives declarations over REST, compares them with the
configuration of a device and changes the device through iControl REST. This
directory holds TLA+ modules for the parts of AS3 whose correctness depends on
the order in which things happen, TLC configurations that check them on small
instances, and proofs, checked by TLAPS, of their main properties for every
value of the constants.

Paths like `declareHandler.js:99` are relative to `src/src/lib/`.

## The system

| Component | State it keeps | Operations | Talks to |
|---|---|---|---|
| REST worker (`src/src/nodejs/restWorker.js`) | the host context, the handlers | onStart, onPost, continuePost | everything below, once per request |
| Settings (`config.js`, `settingsHandler.js`) | a cached data group | getAllSettings, updateSettings, reloadSettings | read by every request |
| Request context (`context/requestContext.js`, `as3request.js`, `util/perAppUtil.js`) | per request: method, path, declarations ("tasks") | get, validateAndWrap | parser's schemas |
| Declare handler (`declareHandler.js`) | the burst queue; per request: timer, timedOut, async | process, processRequest, reportError | queue, task records, declaration handler, REST response |
| Burst queue (`queue.js`, `queueConsumer.js`) | up to 10 contexts; whether the consumer waits | enqueue, dequeue, consume, delegate | 'enqueue' event, the declare handler's callback |
| Task records (`asyncHandler.js`) | a table of records, saved to a data group | handleRecord, cleanRecords, updatePending, getAsyncResponse, save/restore | data store |
| Declaration handler (`declarationHandler.js`) | none between requests | handleRead, handlePatch, handleCreateUpdateOrDelete | lock, history, parser, audit |
| Global lock (`mutex.js`, `clearLocalMutex` of `context/hostContext.js`) | a data group on the device, with a time as description | acquire, refresh, release, remove at startup | other AS3 processes, service discovery scripts |
| History (`declarationProvider.js`), data stores (`DataGroupDataStore.js`, `JsonDataStore.js`) | stored declarations | load, store, trim | data groups on the device |
| Audit (`audit.js`) and update (`update.js`, `updaterRest.js`, `updaterTmsh.js`) | per tenant: passes, results | allTenants, submit | fetch, diff, maps, the device |
| Fetch, diff, normalise, maps (`fetch.js`, `diffProcessor.js`, `normalize.js`, `map_*.js`, `properties.json`) | none | pure translations | - |
| Parser and schema (`adcParser*.js`, `schemaValidator.js`, `postProcessor.js`, `postValidator.js`, `tag/`) | lists of nodes and addresses on the shared parser object | digest | device lookups |
| Requests to the device (`util/util.js`) | per request: retries left | httpRequest, iControlRequest | network |
| Service discovery, BIG-IQ, tracer, log, other utilities | - | I/O | - |

How a declaration travels: `onPost` builds the context; `continuePost` cleans
the task records and calls `DeclareHandler.process`, which reads the settings,
gets tokens for the targets, creates a task record per declaration, answers 202
or sets a 45 second timer, and either calls `processRequest` at once or puts
the context into the burst queue. The queue's single consumer calls
`processRequest`, which hands one declaration after the other to a
`DeclarationHandler`. That acquires the lock of the target device, reads,
compares, changes, saves the history and releases the lock. In the end the task
records are completed and the REST request is answered, unless it was before.

### What is hard here, and what makes each component correct

* **Burst queue.** The consumer looks at the queue, finds it empty and
  registers a listener for an event that is emitted once. Correct: no wake-up is
  lost, no context is processed twice or skipped, order is kept, a failing
  request does not stop the consumer, the limit holds.
* **Declare handler.** A request's promise chain, its timer, the queue's
  consumer, other requests and a change of the settings interleave at every
  wait. Correct: queueing requests are processed one at a time; whoever sends a
  request gets exactly one answer, and gets one; the timer never answers after
  the result.
* **Task records.** Every POST of anybody cleans the table; records are created,
  completed and cancelled by different code paths. Correct: the record of a
  request in progress is there and says so; a settled one says what happened.
* **Global lock.** A lock on the device that several processes use, that expires
  by time, is refreshed by an interval, is left behind by crashes, and whose
  requests may be lost or repeated. Correct: one holder at a time; the lock is
  the holder's while it holds; a release removes nobody else's lock; an orphaned
  lock is no obstacle for ever.
* **History and data stores.** Declarations are found by their age, trimmed and
  overtaken; the task records are saved without waiting for the previous save,
  and the process may end between two requests of a save. Correct: ages count
  back in the order of storing; no restart loses a record that was stored or
  leaves one pending; what has settled is stored.
* **Declaration flow and audit.** What is read before the lock, after it and per
  tenant; tenants that fail while others succeed; `/Common` before and after the
  others; scripts that AS3 gives up while they run. Correct: the stored
  declaration tells what is on the device, "success" is told of what was applied,
  a complete declaration leaves nothing else, the lock and the answer come.
* **Requests and tasks of the device.** Retries after network errors, redirects,
  503, polls within polls. Correct: success is only told of a task that completed,
  a script is started once, polls end, tokens stay with their host.
* **Shared nodes.** Reference counts in a list in memory which several tenants of
  one request change before the device is. Correct: a count is the number of
  tenants that use the node, and no update clashes with the device.
* **Diff, script and reading back.** Objects that refer to each other are created,
  changed and deleted partly outside of a transaction. Correct: the device
  accepts the order, the result is what was declared, a second deployment is
  empty, whatever is on the device can be found again, a failure restores.

## Modules

| Module | What it is |
|---|---|
| `SerialService` | abstract specification: a line of bounded length, one caller served at a time, in order of arrival |
| `BurstQueue` | `queue.js` and `queueConsumer.js` |
| `LockService` | abstract specification: a lock with one owner at a time, free again only when its owner has left |
| `DeclarationStore` | abstract specification: the declarations stored, as if each request took effect in one step |
| `AsyncRecords` | the table of `asyncHandler.js` as operators on a function |
| `DeclareHandler` | EXTENDS `BurstQueue`, instantiates `AsyncRecords`: the life of the requests |
| `GlobalLock` | `mutex.js` with its callers and the startup's removal of the lock |
| `DeclarationHistory` | the stored declarations of `declarationProvider.js`, as operators on a set |
| `DeclarationFlow` | EXTENDS `DeclarationHistory`: `declarationHandler.js` and `audit.js`, over several requests |
| `HttpRequest` | `httpRequest` of `util/util.js`, one request with its attempts |
| `ControlTask` | EXTENDS `HttpRequest`: scripts, saves, config-syncs and BIG-IQ jobs, with the device that runs them |
| `RestWorker` | the start of the process (`restWorker.js`, `context/hostContext.js`), the task records and their data store |
| `SharedNodes` | the reference counts of nodes in `/Common` |
| `As3Objects`, `As3Traffic`, `As3Services`, `As3Policies` | `map_as3.js`: the objects that each class becomes |
| `As3Declaration` | EXTENDS them: `getDesiredConfig`, a tenant's objects |
| `ConfigDiff` | EXTENDS `As3Declaration`: `getDiff` and `map_cli.js` |
| `UpdateScript` | EXTENDS `ConfigDiff`: `tmshUpdateScript` and the updates of APM after it |
| `ReadBack` | EXTENDS `As3Declaration`: `map_mcp.js`, `paths.json`, `getTenantConfig` |
| `Deployment` | EXTENDS `UpdateScript`, `ReadBack`: a deployment on a device that runs the scripts |
| `BurstQueue_proofs`, `DeclareHandler_proofs`, `GlobalLock_proofs`, `SharedNodes_proofs`, `RestWorker_proofs`, `ControlTask_proofs`, `DeclarationFlow_proofs`, `DeclarationDevice_proofs` | theorems |
| `MC...` | instances for TLC |

Definitions that begin with *Mutant of* in their comment are variants of the
definition that follows them, with a plausible mistake in it. Replacing the
definition by the variant makes TLC find the property violated that
`PROJECT.json` names; that is how every property is known to depend on the code.

### BurstQueue

`entries` is `Queue.entries`. The consumer's promise chain is `"idle"` (about to
call `consume`), `"waiting"` (listening for 'enqueue', `_waitingToConsume`) or
`"busy"` (the callback's promise, which processes `inHand`, has not settled).
JavaScript emits events synchronously, so `EnqueueToWaiting` is one action: the
push, the event, and the listener that shifts the entry, while
`EnqueueBehind` finds nobody listening. `Service` is the refinement mapping to
`SerialService`: handing an item to the waiting consumer is `WalkIn`, registering
the listener is a stutter.

### DeclareHandler

An action is what a request does between two points where it waits. `place` says
where each request is; `Arrive` is `continuePost` and the check of the query
parameter `async`; `ReadSettings` the resolution of `getAllSettings`;
`StartNow`, `QueueUp` and `TurnAway` are what follows when `getInitialControls`
resolves (records, 202 or timer, and the queue or not); `BeginTask`, `SkipTask`
and `EndTask` the steps of `processDeclInArray`, `Finish` and `ProcessingFails`
the two ends of `processRequest`, `TimerFires` the 45 second timer.
`SettingsPosted` is the settings endpoint, `WeekPasses` the expiry of records.

Abstracted: a request is its *form* (method, the action of each declaration, the
parameter `async`, whether it is for one application). `deploy` stands for every
action that changes something and is not a patch. Whether packages must be
installed on a target (`install`), whether a declaration is answered without
being processed (`SkipTask`: a duplicate, an invalid declaration, sub-path or
query parameter), and how processing ends are nondeterministic. `MayReject` says
whether `DeclarationHandler.process` may be rejected; its own catch turns almost
every error into a result. An array of one declaration is not among the forms.
Record stamps are numbers in order of creation; `WeekPasses` expires no record of a
request in progress, since a request does not stay in progress for a week.

### GlobalLock

`lock` is the data group: free, or with a description that is a time, a text or
missing, an owner (which the data group does not store and only the properties
use) and an age. Each iControl REST request is one action, and a client that
waits for a reply is in the `pc` value named after the request: the GET of the
lock (`Check`) and the DELETE of a stale one (`Remove`) are separate, so the lock
may change between them. A tick stands for 15 seconds: `mutexTimeoutMinutes` is
8 ticks, the refresher's interval 6. `MaxAcquire` bounds the ticks from the stamp
to the acquisition and `MaxRelease` those until a release is applied.

Faults are chosen per instance: `"lost"`: the device applies a POST or DELETE, the
reply is lost and `util.httpRequest` sends it again; `"odd"`: a status other than
those the code looks for, without effect; `"crash"`: a process dies with its
requests and, perhaps, starts again, when `clearLocalMutex` removes the lock if
the process runs on the device itself.

Abstracted: the 200 ms pause; a PATCH of the refresher is applied in the moment
the interval fires; one clock for all processes; the scripts that obey
`scripts_stop`. A client makes one request in its life.

`Turns` maps this to `LockService`. The owner (`Guard`) is the client that holds or
releases the lock or whose DELETE is on its way, so from the POST that makes the lock
to the DELETE that removes it; `Departed` are those that are through. Stamps, refreshes,
the look for a stale lock and what is left on the device after a crash are stutters.

### DeclarationFlow

`job[r].step` is where the promise chain of a request waits: `Begin`, `List` and
`Fetch` are `process`, `handleRead` and `handlePatch` without the lock; `Lock` or
`Refused` the acquisition (in detail in `GlobalLock`); `Prepare` the reading of the
previous declaration, the update mode, the tenants to delete and the `/Common` that
references need; `Audit` one tenant; `Store`, `Release` and `Output` the rest, and
`Fail` with `LateRelease` the catch. The device is the content of each tenant: a
version per object, where a version of an object of a tenant refers to an object of
`/Common`. A transaction is applied as a whole or refused if a reference would be
left dangling (`Closed`).

Faults, at most `MaxFaults` in a behaviour: `"misread"` (the stored declaration
is taken for an empty one), `"unread"` and `"unreadCommon"` (an error before a
tenant's update), `"lost"` (one after it), `"slow"` (`runScript` gives up while the
script runs; it ends later, `ScriptEnds`), `"unstored"`, `"untrimmed"`, `"crash"`.
`unsure` holds the tenants of which, because of a fault, the stored declaration may
say something else than the device; a tenant leaves it when it is deployed again.
Abstracted: a JSON patch replaces a tenant, per-application requests are left
out, the hash of an optimistic lock is the content itself.

There are two refinements. `Turns` maps `holder` to the owner of `LockService`, the same
one that `GlobalLock` implements: the acquisition is `Take`, the release of either path or
a crash is `Leave`. `Declarations` maps `log`, all that was stored, to `DeclarationStore`:
`Store` of a request, unless it is a dry run, is its one step there, and everything
before and after it is a stutter. `DeclarationStore` is what a client can rely on when
requests overlap: what a request stores is computed from the declaration stored just before, tenant by tenant what
it asks for or, for a tenant that fails, what was there. It is as weak as the code:

* which tenants fail is open;
* the previous declaration may be misread as empty, if the faults have that (`Misread`);
* an age of `Limit` or more may find a declaration that is older than it says, since
  entries that could not be trimmed can still be found;
* a PATCH may take its `/Common` and its mode from any earlier declaration, as it reads
  before it has the lock.

### HttpRequest and ControlTask

`http` is one call of `httpRequest` with its options; a second attempt is the same
record in another phase, as the code calls itself with reduced options. `Allowed` is
what `maxRedirects` becomes: a later attempt finds `retry503` to be a number, so
that less than one redirect becomes two again. `MaxDetours` bounds redirects and
503s, without which nothing would end. `run` is a task: `Created`, `Started`,
`Polled` and `PollFailed` are the steps of `runScript`, `persistConfig` and
`configSync`; `frames` are the retries of the polls that wait for the poll under
way (each `waitForCompletion` calls itself within its own `catch`), so one error may
be answered by several of them. The device creates, runs and forgets tasks and answers
what it likes; an answer may be lost after the device has acted.

### RestWorker

`phase` goes through the steps of `buildContext`; `budget` is the time left of
`checkAddtlDependencies`; `saves` are the calls of `saveState` under way, each with
the data it took with it, at the request it makes next (`check`, `create`, `write`).
`kind` is the store that the process chose when it started, `setting` what is
configured now. `Restart` ends the process anywhere; of the writes under way one may
still be applied. `unordered` says that a save failed or was under way together
with a save of other records; `found` are the records that were there at `Boot`.

A start cancels what is pending and then cleans the records (`Cancel`:
`updatePending` calls `cleanRecords`), as every request but a GET does (`Arrive`):
what is older than a week goes, and what is settled, the records just cancelled
included, beyond the newest `MaxRecords`. A record is named by its timestamp, so the
module instantiates `AsyncRecords`; `newest` is the record created last and `horizon`
the newest that has expired (`WeekPasses`). So what a start must keep is not all that
it found but `Due`, the newest `MaxRecords` that have not expired.

`busy` is a device that answers every request with 503 (`DeviceTurns`). The requests
of a start pass `retry503` (`hostContext.js:178` and 271, `util.js:636` and 1662), and
`httpRequest` asks again for as long as the answer is 503, so no step that asks the
device is made (`Stopped`), and a check takes none of its time.

### SharedNodes

`refs` are the nodes of AS3 on the device with their metadata `references`, `uses`
the members of each tenant's pools, `nodeList` the list that a request works on and
`parser` the one that the digest of any request writes. `Tenant` is
`updateDesiredForCommonNodes`, `tenantAddCommonNodes`, `maintainCommonNodes` and
`updateNodes` of one tenant with the transaction that follows; a node's count after
several pools have left it, the special values 0 and -1 and nodes that AS3 did not
create are as in the code. `stale` marks a list that a GET replaced or that has the
counts of a refused tenant, `spoiled` that a tenant was updated from it: what
follows is bounded by `MaxRequests` and excepted from the properties.

### From a declaration to the device: As3Objects to Deployment

An *item* of a declaration is its class, its place, the options that decide which
objects there are, the items it points to and a version for everything else. An
*object* of the device is its tmsh component, type, path, references, members
(what the code compares one by one), the file it is loaded from and the version.
`translate` sends an item to its objects as `map_as3.js` does: certificates become
files of several names, a service may become several virtual servers, addresses
and policies, pools get nodes. Classes that become one object of their own name are
tables (`PlainClasses`). `ReadBack` has which objects are read back, by component,
module and owner. `getDiff` and `generate` are the differences and their commands;
the text of tmsh is a command `[do, object, quiet]`. `tmshUpdateScript` places the
groups of commands before, in and after the transaction and in the catch, with the
rules by which groups are put before others, dropped or changed. Two of the rules:
before a certificate or a key is deleted, the profiles of client-ssl whose chain names
it get the chain that is desired of them (`placeFile`); and when an address turns from
an `ltm node` into an `ltm snat-translation` or back, nothing is modified that is
created (`placeTurned`). The code asks the latter without the name of the object; the
instance has one address that turns, and no other node changes with it.

`Deployment` runs this: `declared` is what was deployed, what is to be deployed and
the order in which keys of the difference come (one order of a set and its
reverse). `pass` goes over `/Common`, the tenant, `/Common` again and the updates of
APM after all tenants. The device is external: it checks at each command of a
transaction whether the object is there, and all references when it commits;
outside of a transaction both at once. `Refuse` lets it refuse a command for
reasons of its own.

## Runs

All instances are small, and each bound is there to make the interesting case
happen: a queue of one or two entries is full with two or three requests, `MAX_RECORDS` of one
makes cleaning drop records, two declarations are several, a history of two is
trimmed by the third declaration.

| Run | Instance | Checks |
|---|---|---|
| `declare_queue` | 3 requests, limit 2, burst handling switched at any time | `NoLostWakeup`, `OneAtATime`, `NoTimerAfterAnswer`, refinement of `SerialService` (`ServesInOrder`) |
| `declare_records` | 2 requests of 1 or 2 declarations, 1 settled record kept, records of the first two stamps may expire | `PollableWhileLive`, `RecordsTellOutcome`, `DoneAnsweredOnce` |
| `declare_live` | 2 requests under fairness, limit 1 | `EveryoneAnswered`, `ServesEverybody` |
| `lock_hold` | 3 clients of one local process that may crash | `HolderOwnsLock` (so `MutualExclusion`), `ReleaseFindsOwnLock`, refinement of `LockService` (`TakesTurns`) |
| `lock_orphan` | 2 clients of 2 processes, all faults, every kind of lock left behind | `OrphanGoes` |
| `flow` | 2 requests: selective and complete deployments, redeployments, patch, removal, dry run, GET and one with an optimistic lock; 3 tenants, 2 objects, histories of 0 to 3 declarations trimmed to 2, one fault of seven kinds (not `"unreadCommon"`) | the declaration flow, refinement of `DeclarationStore` (`StoresSerially`) |
| `transport` | one task of each kind, 3 retries (60 or 120 in the code), 2 detours, 1 repeated request after a network error | requests and tasks |
| `worker` | 2 tasks, 1 settled record kept (25 in the code), 2 restarts, 3 saves under way, 3 intervals for a check, every request to the device may fail, the device may answer 503 for a time or for good | start, records and store |
| `deployment` | more than 190 families of two to five declarations, each with every class, type and option that changes the objects; each ordered pair of a family, in both orders of keys; one command refused | the scripts |
| `shared_nodes` | 3 tenants, 2 pools each, a node of AS3 and a foreign one; 1 request after a spoiled one | the counts |
| `lock_race`, `deployment_pools` | as small as shows it | a comment of the code that the code does not satisfy |

What the properties say is in the comments above them; the less obvious ones:

* `StoredTellsDevice`, `SuccessIsApplied`, `CompleteIsComplete` and
  `FreshPatchKeepsOthers` relate the device, the history and the answers over
  several requests. The tenants in `unsure` are excepted, as a fault that
  the code cannot see has set them apart; so is `/Common`, in part: its first
  pass may succeed and its second fail.
* `MovesReferencesSafely`: if the device would be consistent afterwards then no
  tenant fails for the order, which is why `/Common` comes first and last.
* `PollsAreBounded`: the bound is 2^(Retries+1) - 1 polls, not Retries + 1.
* `KnownTasksAreKept`: with one settled record kept and two tasks, a start does drop
  records in this instance, by their number and by their age.
* `StartEnds` has the premise that the device does not answer 503 for ever. Without it
  the property is false: a start waits as long as the 503s last.
* `SettledAloneIsStored` is about saves that did not overlap; overlapping ones may
  leave older records.
* `NothingIsForgotten` and `Idempotent` use `ReadBack` on the device that the script
  left, also on one where it was refused.
* `FailureRestores` excepts what the code deletes or loads outside of the transaction
  (`Outside`), and what refers to that or holds it (`Affected`).

`MCGlobalLock` runs without the deadlock check: every client makes one request,
and afterwards nothing need happen. So does `MCRestWorker`: its process may fail to
start and be restarted no more. The other modules that come to an end have an
action that says so (`Finished`, `Ended`, `Resting`, `Done`).

The state spaces are complete (no depth bound). Requests are symmetric in
`declare_queue` and `declare_records`, tenants, pools and nodes of AS3 in
`shared_nodes`; the runs with liveness use no symmetry.

### Fairness

`QueueFairSpec`: the consumer's chain runs by itself, and the callback's promise
settles. `DeclareHandler!FairSpec`: weak fairness of each request's steps and of
the consumer; it rests on the event loop running what is ready and on the time
limits of the requests to the device (see `util.js:314` below for the exception). Nothing
makes a client send a request or change the settings. `GlobalLock!FairSpec`: a
client's requests are applied, time passes and a holder comes to an end; nothing
makes a client come or a process start again. `DeclarationFlow`: a request that has
begun proceeds, a release under way arrives, a crashed holder's lock is taken over
(`GlobalLock` shows that it expires). `ControlTask`: AS3 takes its steps and every
request to the device is answered, fails or times out; nothing makes the device end
a task. `RestWorker`: the start goes on and requests of a save come to an end, where
the device does not answer 503; nothing makes it stop doing so, and `StartEnds` says
so itself.

### Disagreements between the code and what is said of it

Two are runs:

1. `lock_race` - two clients that find the same expired lock: the slower one
   deletes the lock that the faster has just made, and both hold it
   (`mutex.js:112-123`).
2. `deployment_pools` - `isPoolMemberCreateRequired` (`fetch.js:2619`) drops the new
   member of a pool when a member of *any* pool of the tenant is edited; its comment
   says that the edit recreates all members, which is so for its own pool only. The
   deployment reports success.

The others are behaviours of the models, each excepted from a property or
described by the action that has it:

* A request of several declarations bypasses the queue when its first one is a
  retrieve (`declareHandler.js:96`, `Queues`) and deploys next to the queued ones;
  `docs/userguide/burst-handling.rst:9` says that declarations are processed one at
  a time and only GET requests bypass.
* When the queue refuses a request of several declarations only the first task is
  cancelled (`declareHandler.js:791`, `TurnAway`); the others say "in progress" for a
  week or until AS3 restarts; `test/unit/lib/declareHandler.js:2221` expects the task
  to be cancelled.
* A patch among several declarations makes `parsePatchBodies` throw
  (`declareHandler.js:393`, `ParseThrows`): the request ends with a 500 and all of
  its tasks say "in progress".
* The error path does not wait for the DELETE of the lock
  (`declarationHandler.js:940`, `EndBadly`), so with burst handling, too, the next
  request may be answered "Configuration operation in progress".
* An asynchronous request that the queue refuses is completed with a 202 first and
  then with the 503 (`TurnAway`; `declareHandler.js:87` and 805).
* A GET that takes longer than the timer is answered 202 with a task that is not
  recorded (`TimerFires`, `Recorded`; `asyncHandler.js:250-257`).
* A lock whose description is a text is respected for ever although the comment
  says otherwise (`Stale`; `mutex.js:108-111`); the second POST of the lock sends the
  time of the first, so a slow acquisition gets a lock that times out before its
  first refresh (`MadeBy`; `mutex.js:43-54` and 162); a POST of the lock that is
  repeated after a lost reply meets the client's own lock (`ReplyLost`).
* A POST to `/settings` while another one runs, and overlapping saves of the task
  records, may leave the older state (`SaveStep`; `asyncHandler.js:201`).
* An `optimisticLockKey` of `/Common` that does not match ends its audit before
  `firstPassNoDelete` is reset (`audit.js:394`, `Early`): the tenants after it are only
  added to, and reported as successful. An error while `/Common` is read does the same
  (`"unreadCommon"`, `Unread`). Neither is in the instance of `flow`; `FirstPassEnds`
  excludes both from the theorems that are false otherwise.
* A PATCH is computed from what was stored before it had the lock, and it takes over
  the update mode of that declaration: after a complete one it deletes the tenants
  that its paths do not name (`declarationHandler.js:1029` and 523, `Fetch`);
  `docs/userguide/best-practices.rst:43` recommends PATCH for changing single
  tenants. `FreshPatchKeepsOthers` says when it does not.
* `redeployAge` 0 redeploys the declaration of age 1 (`declarationHandler.js:412`,
  `RedeployAge`). A clock that is behind puts a declaration among older ones
  (`Behind`; `declarationProvider.js:369`). The previous declaration that cannot be
  read is taken for an empty one, and what was deployed before is then neither
  stored nor deleted (`"misread"`).
* A dry run is answered "success" for a script that the device has not seen
  (`update.js:154`, `Unchanged`).
* A device that answers 503, or redirects, for ever is asked for ever, although
  `maxRedirects` is documented as a bound (`util.js:132`, `Allowed`); the burst queue
  would stand still behind such a request, and a start would never end: the 503 of a
  check is retried inside `httpRequest`, so `CHECK_TIMEOUT_MS` does not bound it
  (`hostContext.js:178`, `util.js:314`, `Stopped`). A POST whose reply was lost creates a
  second task, which is never started.
* A refused tenant, or a GET between the digest and the use of its list, spoils the
  counts of shared nodes (`Take`, `Tenant`): an update may then be refused, or a count
  be wrong from then on. A tenant whose pools share a node that leaves several of them
  counts down more than once when the count was one.
* A Per_Request_Access_Policy in `/Common` is never read back; the copy of an
  imported profile stays when a script of `/Common` was refused, and a name is
  forgotten whose deletion failed (`updateDataGroup`).
* Removing a device of a GSLB server is never deployed (`isModifyGtmServer`). The
  first pass of `/Common` deletes virtual servers, nodes of FQDNs, regions and
  log publishers (`FirstPassKeeps` names them), where
  `contributing/common_overview.md:7` says that it does not delete.
* Pools whose nodes are names, virtual servers with traffic criteria, DNS zones and
  PEM listeners are deleted before the transaction, and the second transaction may fail
  after the first (`Outside`); `docs/userguide/faq.rst:172` says that a tenant's
  configuration is all or nothing.

## Proofs

`BurstQueue_proofs`: `QueueInv`, the conjunction of `QueueTypeOK`, `NoLostWakeup`
and `OnePlace`, is inductive (`QueueInvariant`); the three need each other, since
that the item handed to the waiting listener is the one just pushed follows from
the queue being empty. From it `QueueServesInOrder`: each step is a step of
`SerialService` or a stutter. Assumed of the constants: a positive limit, and
that `None` is no request.

`DeclareHandler_proofs`: `HandlerInv` adds that what is queued belongs in the queue
(`PlacesInv`), without which `QueueMatchesPlaces` is not inductive: nothing would
be known of the request the consumer takes. It gives `QueueAndPlacesAgree` and
`QueuedOneAtATime`. `HandlerImplementsQueue` shows that every step of the handler
is a step of `BurstQueue` or leaves its variables alone, and so
`HandlerServesInOrder`. `HandlerTyped` proves the types separately.

Its second part is about the answers: a timer runs only before the answer (`TimerOnlyBeforeAnswer`),
a finished request was answered once, or with a 202 first (`DoneIsAnsweredOnce`), the
record of a request in progress is never cleaned away (`PollableAsLongAsLive`) and a
record says what became of its task (`RecordsTellTheOutcome`). The inductive invariant
relates, for each request, its place, its answers, its timer and the status of each of
its records; that cleaning spares pending records carries the third, that only the
request itself settles them the fourth.

`GlobalLock_proofs`: `LockTyped` needs only `MaxAcquire <= Timeout`.
`LockExcludes`, `LockHeldByOwner` and `ReleaseIsOwn` prove mutual exclusion, and that
holder and releaser own the lock, and `LockIsService` that the lock implements
`LockService`, under two assumptions that the model shows to be necessary: `Punctual`,
`MaxAcquire + Period + MaxRelease <= Timeout`, a device that answers in time; and
`Orderly`, no lock left behind (else `lock_race`) and no fault but a crash of the one
process, which runs on the device. The inductive invariant
`ExclusionInv` relates the age of the lock to its owner's clock: at most
`MaxAcquire` older while it holds, at most `MaxAcquire + Period` older while it
releases; so nobody finds it stale, nobody is ever about to remove it, and a lock
without an owner exists only while the process is down. The refinement follows from it
action by action (`TurnStep`): a client gets the lock only when the data group is free,
and while anybody guards the lock it is not (`GuardsOwn`).

`SharedNodes_proofs`: `NodesInv` joins the types with `RefsCountUsers`, `ListTellsDevice`
and `UpdatesFit`, none of which is inductive alone: the counts on the device stay right
while the list a request hands on is right, the list is right while every tenant has
taken its counts from it, and what is created, modified and deleted follows from both
(`ListCountsUsers`, `RightListFits`, `UpdateKeepsCounts`). All three are theorems
(`NodesCountTheirTenants`, `TheListIsRight`, `NoUpdateClashes`), for finitely many
tenants and pools.

`RestWorker_proofs`: `WorkerInv` says where the records are at each step of the start: in
the data group until they are read, and no save under way before; after the cleaning, those
that are due (`KeptInv`, with `CleanedKeeps`: a record among the newest `MaxRecords` of all
is among the newest `MaxRecords` of the settled ones); pending
ones are the work of this process (`PendingInv`); every save under way would store what
the next start makes of the records in memory, unless two overlapped (`StoredInv`).
Theorems `NobodyPollsAGhost`, `StartsKeepWhatIsDue`, `LastSaveTellsAll`.

`ControlTask_proofs`: `TaskInv` says what each reply tells of the device and that this
stays true while the reply travels (`ReplyInv`), what a request under way may ask for
(`AskedInv`), and that nothing but the task of this run is ever started (`StartInv`).
Theorems `DoneTasksWereCompleted`, `OneTaskRuns`, `TokensGoNowhereElse`.

`PollsStayBounded` needs an invariant of its own, `PollsInv`. The polls that wait are a
stack, and an error is handed down it: every poll that catches it may start again, with a
retry less than it had. So there is a sequence of weights, `w[i]` for the polls that the
first `i` of the stack may still cause, which grows by 2^retries - 1 with each poll
(`Weighs`), and the polls made, the weight of the whole stack and what the poll under way
may cause stay below 2^(Retries+1). An error takes a prefix of the stack and its weight,
which pays for the poll that is started again (`PollsBefore`).

`DeclarationFlow_proofs`: `HistoryInv` relates the history to the log of all that was
stored: part of it, and the last `Limit` entries at least. `AgesCountBack` needs
`Synchronous`, one clock for all the hosts; without it the property fails as soon as a
host whose clock is behind stores a declaration (`Behind`). The module also has the types
of the flow (`FlowTypeInv`) and what the operators compute: `TenantList` is a recursion
over the tenants (`Others`), and that it lists each tenant of a set once, in the order
given, is proved by taking a smallest counterexample (`Induction`, from `WFMin`), since
an induction theorem with an operator as parameter cannot be used (`OthersListed`,
`ListIsPlan`); `PrevIsLast` says that `Prev` is the last declaration stored.

`DeclarationDevice_proofs`: `FlowInv` follows a deployment. While nobody audits, the device
has what is stored last (`StoredInv`), so what is read under the lock is what is on the
device, and the audit begins with it (`TargetInv`). From then on a tenant that is done
is as declared and one that is to come is as it was (`AuditInv`); in between,
`/Common` has what it had and what is new, so if the device would be consistent
afterwards then every content in between has what it refers to, in any order of the
tenants (`MovingInv`, `ReferencesMove`): no transaction is refused. What is stored in the
end is on the device (`ReleaseInv`), which is `StoredInv` again. `HoldInv`, that whoever
does this has the lock, keeps all others from it; `PatchInv` says where the declaration
of a PATCH comes from. None of these holds alone. It was checked by TLC on the instance of
`flow` before it was proved. Theorems `StoredDeclarationTells`, `SuccessesAreApplied`,
`ReferencesMoveSafely`, `CompletesAreComplete` and `FreshPatchesKeepOthers`, for any
requests, tenants, objects, forms, number of faults and length of history.

Two assumptions about the environment and the declarations (not about the flow) appear, and
each theorem has the ones that it needs and no more; every other fault is allowed, any
number of times. `Synchronous`: with a host whose clock is behind, the declaration that is
read as the previous one is not the last. `FirstPassEnds`: no error ends the first audit of
`/Common` before `firstPassNoDelete` is reset; one that does leaves tenants that are only
added to and called successful.

| theorem | assumes | without it, with the run `flow` |
|---|---|---|
| `StoredDeclarationTells` | both | TLC finds `StoredTellsDevice` violated without either |
| `CompletesAreComplete` | both | TLC finds `CompleteIsComplete` violated without either |
| `SuccessesAreApplied` | `FirstPassEnds` | TLC finds `SuccessIsApplied` violated |
| `FreshPatchesKeepOthers` | `Synchronous` | TLC finds `FreshPatchKeepsOthers` violated |
| `ReferencesMoveSafely` | nothing | |
| `StoringIsSerial` | `Synchronous` | TLC finds `StoresSerially` violated |
| `HolderIsService` | nothing | |

(With `"unreadCommon"` among the `Faults` of `MCFlow.cfg` for the one, with a `Behind` that is
not 0 for the other.) So the parts of `FlowInv` are conditional: what depends on the order of
the stamps on `Synchronous`, what depends on the first pass on `Whole`, that no error has
ended the one of this request. The types do not depend on the clocks: `HistoryTypeInv` says
of the history only that its stamps differ, which the store sees to (`Kept`), and that is
enough for every age below its size to be taken, once (`AgeIsTaken`).

The proof corrected a property: `FreshPatchKeepsOthers` once compared the device with the
history when the patch is released, and two faults make that false. It now compares what
the audit found with what was stored before it (`Before`).

The last two parts of the module are the refinements. `HolderIsService` says that the
holder is an owner of `LockService` (`HoldersTakeTurns`, which no run checks since it is
proved without any assumption). That is all the flow knows of the lock, and
`LockIsService` gives it for the lock on the device, so that what is proved of the flow
is not about an idealised lock. (The two assumptions of `LockIsService` come with it:
where the lock fails, as in `lock_race`, nothing of this can be relied on.)

`StoringIsSerial` is the refinement of `DeclarationStore`. Its invariant (`AskInv`) says of
a request on the way what it asks for: before the lock, in terms of any declaration
stored so far, which stays true since nothing is ever removed from `log` (`AsksKept`); from
`Prepare` on, that what was read is the last declaration, and that each tenant to be
deployed is to get what `DeclarationStore` says (`Aims`). It stays so during the audit
because nothing but `Store` of the holder changes `log` (`OnlyStoreLogs`, `HoldInv`), and
`AskedIsDeployed` then makes `Store` a step of `DeclarationStore`. For redeployments it
needs that the entry of an age is at that place in `log` (`AgeIsPlace`), which follows
from `HistoryInv` for ages below `Limit` and is an inequality beyond.

Only model-checked: everything under fairness (`EveryoneAnswered`,
`ServesEverybody`, `OrphanGoes`, `Answered`, `LockComesFree`, `TaskEnds`,
`StartEnds`), since TLAPS does not do liveness here; and
`deployment` (`OrderIsAccepted`, `Converges`, `Idempotent`, `NothingIsForgotten`,
`FailureRestores`, `FirstPassKeeps`): algorithms over concrete declarations, which are
recursions over data and are right for the classes of the tables only; `deployment_pools`
shows that they are not for every family of declarations.

## Not modelled

* *Values.* The properties of objects are one version; normalisation, defaults and
  the text of tmsh are abstracted. The JSON-schema interpreter, LTM policy strings,
  certificate and string utilities, tracer and log have no control of their own.
* *In the scripts:* per-application partitions, renamed items (`addRenameCase`),
  wildcard monitors, address lists of traffic criteria in route domains, redirects
  with a route domain, protocol inspection, cipher groups before 14.0, longest match
  before 14.1, drafts of endpoint policies, the sweep of unused nodes, the
  deletion of virtual addresses with their last server, shared nodes and addresses
  within the script (the counts are `SharedNodes`), service discovery; the aliases of
  a wide IP that move to a command of their own after the second transaction
  (`fetch.js:2974-2990`), and the repeated modification of the bot signatures of a DoS
  profile after the transaction (`fetch.js:3001-3014`). The chains of a hybrid
  client-ssl profile are one (`getUpdatedSSlProfileCommand`). *In reading:*
  hidden policies of APM, ephemeral members, minimum versions, iCall scripts.
* *In the flow:* per-application requests, JSON patches within a tenant,
  `show=full` and `expanded`, the webhook, telemetry, several targets.
* *Settings:* the concurrent first load of the cache and two POSTs at a time
  (`config.js:97`).
* *Clocks* of several hosts in the lock; the scripts that obey `scripts_stop`.
* The modules are composed where they share state (`DeclareHandler` with the queue
  and the records, `DeclarationFlow` with the history, `ControlTask` with
  `HttpRequest`, `Deployment` with the whole way from declaration to device). Elsewhere
  one module stands for the other by what that one was checked for: the lock of
  `DeclarationFlow` and that of `GlobalLock` are joined by `LockService`, which both
  implement, a script of `DeclarationFlow` is applied,
  refused or late, a handler of `DeclareHandler` ends or rejects. One model of all
  would be out of TLC's reach.
