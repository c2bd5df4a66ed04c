# A formal model of docker-agent

docker-agent runs on a Docker host. It serves an HTTP API that starts container and compose
operations as background jobs, keeps an index of compose projects, streams job logs and fleet
state over WebSockets, and reports to a controller through a durable outbox. This directory holds
TLA+ modules that model its concurrent core, TLC configurations that check them, and TLAPS proofs.

Run everything inside this directory: `tlc -workers 2 -config MCProjectLock.cfg MCProjectLock.tla`
checks a run, `tlapm ProjectLockProofs.tla` checks the proofs. `PROJECT.json` lists the runs, the
seeded faults that show each property can fail, the source lines of every definition, the hazards
and the findings.

## Inventory

| Component (source) | State | Operations | What makes it correct |
|---|---|---|---|
| Project lock (`projectlock.go`) | map key -> {slot channel, refs, holder} | acquire, wait, give up, release, drop | one holder per key, the map forgets a lock only when nobody uses it, waiters are served |
| Job registry (`jobs.go`, `types.go`) | jobs in memory, their state, log ring, subscribers | start, cancel, evict, list, subscribe | one final state per job; running jobs stay listed |
| Engine (`engine.go`) | the goroutine of each job | run, lockProject, runComposeOp, runBulk, container verbs | started, then exactly one end; verdict after all workers |
| Event buffer (`events.go`), sweep (`orphan_sweep.go`), reconcile (`app.go`) | `compose_jobs` rows, outbox | hook (row, then outbox), boot sweep, five-minute reconcile | table and controller converge on each job's end, through crashes |
| Job log and viewers (`types.go`, `jobs.go`, `wslog.go`) | ring buffer, one channel per viewer | append, subscribe, receive, unsubscribe | no line twice, no silent gap, viewers never stop the job |
| Idempotency store (`idempotency.go`) | `idempotency_keys` rows, answers pending in memory | claim, record, release, keep, prune, close, sweep | a keyed request acts at most once, replays are true |
| Project registry (`projects.go`) | index by name, `projects.json`, shared and unmarked sets | load, register, deregister, adopt, resolve | no two names for one directory; index and marks agree |
| Registry handlers (`compose_handlers.go`) | none of their own | op, register, copy, deregister, bundle | refusals before writes; changes to one directory kept apart |
| Owner marks (`ownermark.go`) | a mark file per project directory | read, write, clear, migrate | the index never holds an owner its directory does not |
| Stack update (`stackengine.go`, `healthwait.go`, `netreconcile.go`) | baseline, written targets, excluded services | pull, write, up, wait for swap and health, revert, roll back | after a failed update disk and containers agree again |
| Image write (`tagwrite.go`) | planned edits, original bytes, written files | plan, write, revert | all files or none; a revert restores exactly what was written |
| Self identity (`selfid.go`) | newest self view | observe, observeFailed, status | the newest list wins; no mutation on an unknown self |
| Capability (`capability.go`, `refusal.go`) | none | projectCapabilities | only operable projects are operated, only owned files refused |
| Image checker (`imagecheck.go`), discovery (`discovery.go`), fleet (`fleet.go`) | caches, one-place trigger channels | run once, trigger, force, push | a forced recheck is never lost; caches are bounded in age |
| Compose backend, Docker client, image sources, scans | connections, HTTP caches | calls to libraries and services | outcomes only; no interleaving of their own |

Interactions. A handler decides, then starts a job (`jobRegistry.start`), whose goroutine runs
`engine.run`. Every state change is announced through `onChange`, which serialises the event hook
under `emitMu`: the hook writes the row and enqueues the event. Compose jobs take the project lock
in their goroutine; register and copy take it in the request, with a ten-second limit. All
job-starting routes sit behind the idempotency middleware. The index is read by jobs, requests, the
fleet snapshot and the image checker, and changed by requests and, once at boot, by adoption. The
boot order is: sweep jobs, sweep idempotency claims, open the listener, start background workers.

What is hard here: goroutines meeting in short critical sections (lock, job state, log), requests
that decide on a state and act on it after a wait, single sqlite statements that may fail one by
one, restarts between any two writes, channels that are full or closed, and clean-up that must
happen on every path. `PROJECT.json` lists these hazards with their lines.

## Modules

| Module | Models | Kind |
|---|---|---|
| `KeyedMutex` | what the project lock promises | abstract specification |
| `ProjectLock` | `projectlock.go`, and its callers' waits | detailed, refines `KeyedMutex` |
| `ProjectLockProofs` | theorems about `ProjectLock` | proofs |
| `JobLifecycle` | a job from start to the controller's picture of its end | component |
| `Idempotency` | the Idempotency-Key middleware, its table, memory and restart | component |
| `LogStream` | a bulk job, its log and its viewers | component |
| `ProjectOps` | compose jobs, registry requests and adoption around lock and index | composition, uses `KeyedMutex` |
| `HealthBudget` | the budget arithmetic of `stackengine.go` | pure operators |
| `StackUpdate` | one stack update, both waits, rollback, network repair | component, uses `HealthBudget` |
| `StackUpdateProofs` | theorems about `StackUpdate` and its budgets | proofs |
| `ImageWrite` | the write of images into files and its revert | component |
| `ImageWriteProofs` | theorems about `ImageWrite` | proofs |
| `OwnerRegistry` | owner marks, index and `projects.json` under requests, adoption, boots and faults | component |
| `OwnerRegistryProofs` | theorems about `OwnerRegistry` | proofs |
| `JobProofs` | theorems about `JobLifecycle` and `LogStream` | proofs |
| `IdempotencyProofs`, `ProjectOpsProofs` | theorems about those components | proofs |
| `Capability` | the decision of `capability.go` | pure operators |
| `SelfView` | container lists and the self view they publish | component, uses `Capability` |
| `ImageCheck` | the checker's passes, its triggers and its cache | component |
| `FleetView` | feed, requests and checker on one host | composition of `SelfView` and `ImageCheck` |
| `FleetViewProofs` | theorems about `FleetView` | proofs |
| `MC*` | constants for TLC | model instances |

### ProjectLock

A process is a job or a request. One action is one critical section of `projectLocks.mu` or one
channel operation: `GetOrCreate` (map look-up and `refs++`), `TrySlot`/`SlotFull` (the non-blocking
select), `TakeFreed`/`Enqueue`/`GiveUp` (the blocking select), `SetHolder`, then `ClearHolder`,
`Drain` and `Drop` in the release, and `ReleaseAgain` for the deferred second release that the
`sync.Once` turns into nothing. The slot channel is modelled as the Go runtime implements it: a
receive hands the slot to the sender that has waited longest. Lock objects are identities, so an
object that the map has forgotten while somebody still uses it is visible to the invariants.

### JobLifecycle

The runner goroutine (`SetRunning`, `OperationEnds`, `AnnounceEnd`) and cancel requests act on a
job; each announces through the hook in three steps (`EmitSnapshot`, `EmitRow`, `EmitEnqueue`)
under `emitMu`. A row write may fail, which the code only logs; `Crash` may come between any two
steps and loses memory, keeps table and outbox; the boot runs `SweepRows` (which may fail as a whole),
`SweepEnqueue` (which skips a row that cannot be read back) and `Listen`. `MaxFaults` bounds deaths,
failed statements and skipped rows together. The outbox is a library: durable and in order, so the
controller's picture is the last event enqueued. `Reconcile` is the five-minute post of the rows that
ended within a day (app.go:184-185); a row that ended before a longer outage is in `aged`
(`DayPasses`, `Retired`) and is posted no more. `Start` includes the eviction, with the bound
`Retained`.

### Idempotency

Each sqlite statement is one step that may fail, each critical section of the store's mutex one
step. `owed` is a history variable: the answer of the request that acted for a key, until the
agent may forget it (expiry by the prune, or the end of a process that could not store it). `Stop`
is a shutdown or a crash: any subset of the pending answers, among those that can be stored, is
stored. `Boot` sweeps before the listener opens, and its two halves may fail. The prune removes by
age (a prefix of the table in insertion order) and by number. Rows of this process that a request
works with, and one that a writer has just stored, are out of the prune's reach (24 hours, 5000
rows); this is the model's one assumption about time. A request that finds no key, or a key that
is not valid, does not reach the store and is left out.

### LogStream

The operation is `runBulk`, the one whose goroutines append at the same time. `AppendLine` is the
critical section (ring and copied subscribers), `TrySend`, `DropOldest` and `Retry` the three
selects of the send, `Unsubscribe` and `CloseChannel` the two halves of `unsub`. Lines are numbers.
`lagged` is a history variable: the viewers that at some moment had more lines unread (in the channel,
or on their way to it) than a channel holds. `NoSilentGap` is about all others, however many lines
the job has written since they subscribed.
A send on a closed channel sets `panicked`, after which nothing happens: the process is gone.

### ProjectOps

A job resolves its project when it is started, when it chooses its lock and again when it has the
lock. Register and copy lock the directory they will write, decide under the lock, write and
re-point the index; copy reads its source under the source's lock first. Deregister and adoption
take no lock. An actor's acquire is one action with its next step, and its last step one with the
deferred release: to take or to free a lock changes nothing else that others see. The end of an
operation changes the labels of the running containers, from which unregistered projects are
resolved. `stable` (the jobs whose project has not been re-pointed since they chose their lock)
and `adopted` are history variables. Owner marks, file contents and capability refusals are not in
this module: each of them can only end a request earlier, which `Fail` and `Busy` allow anyway. An
index that has two names for one directory from an older version (readiness reports it) is outside
`Init`.

### HealthBudget and StackUpdate

`HealthBudget` is `budgetOf`, `clampBudget`, `effectiveHealthTimeouts` and `rollbackDeadline` on
integers; `Wrap` is the product in a 64-bit duration, with the word as a constant.

`StackUpdate` is `updateProject` with one action per call and outcome. The files are the image they
name for a service (`disk`), the containers the image they run (`running`). A call of the compose
library succeeds, or fails and leaves any part of its work done; it cannot succeed once its context
is done (`Done`). `Cancel` and `Expire` may come between any two steps; the update's context ends
with the operation's deadline, the rollback's with its own, both with the job. A stack (`Stacks`) has
services, services disabled by a profile, and containers left from services that are gone; an `up`
replaces, leaves and removes them in this order. The waits are `SwapPoll` and `HealthPoll` with
`SwapTimeout`, `HealthTimeout` and the two cuts; both phases use them, and `WaitFails` and
`WaitPasses` say what follows in which phase. A new image counts as `"new"` also where its tag has
not changed. What the code logs as a warning is a fault (`Faults`, at most `MaxFaults` kinds in one
update) and remembered in `faults`, so that a property can except it by name.

Three things the model shows and no property forbids. A fresh deploy that fails its health check gets
its files back while the new containers keep running. A failed snapshot makes a running stack a fresh
deploy (no rollback), and an empty list after a rollback is logged as healthy. A container of a
service that is no longer in the compose file is in the baseline, is removed by `up`, and then fails
every health wait.

### ImageWrite

A file's content is the set of edits in it (an edit is the set of services that need it), a hand
edit, or nothing. `WriteFile`, `WriteFails`, `Verified`, `NotVerified`, `RestoreFile` are
`writeServiceImages`; `Revert`, `LookAtFile` or `LeaveFile`, `RebuildFile` or `RebuildFails`, and
`Reload` are `revert`, whose look at a file and replacement of it are two steps. Somebody may edit a
file by hand at any moment (`EditByHand`). The write and its restore replace the file they have come to
whatever is in it (`Blind`); a revert looks first, and `RevertsSpareHandEdits` says that only these
blind replacements, and an edit between a revert's look and its replacement, cost a hand's edit.
`FailedWriteLeavesNothing` therefore says that a failed write leaves nothing of its own: each file is
as it was or as a hand has left it since. One replacement is
atomic, with three outcomes: done, not done, or done and reported as failed because the directory
could not be synced. In the last case `writeAll` restores the files before this one and leaves this
one new, although tagwrite.go:108-109 says that no file differs after an error;
`FailedWriteLeavesNothing` excepts this fault.

### OwnerRegistry

An owner is kept in the directory it governs (`mark`), in the index and in `projects.json` (`saved`).
A register or copy request arrives with an owner it declares, reads the recorded one (`own`), waits
for the directory's lock and is admitted on what it reads then (`Admit`, `Refuse`, `Busy`). `register`
is `Record` (files and mark), `ClearOld` (the mark of the directory a project moves away from),
`Enter` (the index), then `persist` as `Collect` and `Save` under `persistMu`. `Deregister` and the
boot's adoption (`AdoptRead`, `AdoptInsert`) take no lock. `Restart` is the crash and the whole boot
up to the listener: load, migrate the owners of directories that say nothing, let the others outrank
the index, write the file. Faults are writes that fail, marks that cannot be read for a while
(`Garble`, `Mend`) and a lost `projects.json` (`LoseFile`). `claim` (the owner acknowledged for a
directory), `unbacked` (directories whose mark a fault or a race took away) and `lapsed` (the last
write of the file failed) are history variables; the properties except the last two by name. That a
known project needs `replace:true`, and the refusals by capability, only end a request earlier and
are left out.

### Capability, SelfView, ImageCheck and FleetView

`Capability` is `projectCapabilities` as a function of an entry and a self view: what blocks, what is
allowed, what a row says. The wording of refusals is left out.

`SelfView` is `selfid.go`. Several goroutines list containers at once; each notes its start
(`StartList`), gets an answer that describes the host of that moment or an error (`AnswerList`,
`FailList`), publishes unless a later list already has (`Publish`, `ClearFailure`), or records the
failure in two steps (`CheckView`, `RecordFailure`). Instants are ranks: those in use are renumbered
whenever a list starts, so the order is kept and the numbers stay small. Two lists never start at the
same instant. `deriveSelfView` is translated as a whole: own container, those that share its network,
the proxy and its project.

`ImageCheck` is the goroutine of `imagecheck.go` with its timer, its trigger channel of one token, the
force flag and the TTL (a pass may be within it whenever results exist), and the cache with its plans
and how `stampImageStatus` and the provenance fold read it. A pass takes its snapshot, fetches the
strategies (`FetchOverrides`), checks the images (`CheckImages`), plans a coupled project
(`PlanProject`) and stores all of it (`StoreResults`), each with its own failure. The images are checked
in one step: what upstream publishes for one service says nothing of another, so releases during the
checks may be thought to come in their order. The content of an image is a number; a service's tag
moves or is pinned to one content. Looking up and comparing versions is one outcome per image.

`FleetView` composes the two. `FeedWakes` to `Post` are one push of the discovery feed, which looks up
each container in the cache by itself (`StampContainer`) and then the plans (`StampProject`), so a pass
may store between two look-ups; `CheckerSteps` is the pass with `AfterPass`, which nudges the feed;
`Decide` is `viewForRead` or `selfForMutation` (a request is a read or a mutation only when it decides:
its list is the same).
What happens around the agent (the proxy moves, upstream publishes, the controller changes its
strategy, an update is deployed, somebody asks for a refresh) and what goes wrong (a list, a
snapshot, a check, a plan or a post fails) is drawn from `fuel`.

## Runs

| Run | Bounds | Distinct states | Shows |
|---|---|---|---|
| `lock` | 3 processes, 2 keys, 3 lock objects | 30,523 | mutual exclusion, exact counts, every acquire returns, refinement of `KeyedMutex` |
| `jobs` | 2 jobs, 1 cancel at a time, 1 job retained, any 2 deaths, failed statements or skipped rows, days | 557,590 | `RecordsConverge`, `NoZombieRows`, `OutcomeIsFinal`, `ControllerLearnsEnd` |
| `jobs_cancel` | the same | violation | a cancel before `setRunning` is undone |
| `idempotency` | 2 requests, 2 keys, 2 fingerprints, 2 bodies, 1 row kept, 1 pending answer | 57,021 (symmetric) | `OneHandler`, `AtMostOnce`, `ReplaysAreTrue`, `OwedIsKept` |
| `logs` | 3 workers on 2 places, 1 viewer, ring 2, channel 2 | 87,576 | `EachLineOnce`, `NoSilentGap`, `ClosingLineArrives`, `VerdictIsLast`, `BulkEnds` |
| `logs_panic` | the same | violation | a leaving viewer can stop the agent |
| `ops` | 2 projects, 2 directories, any 3 of 2 jobs and 2 requests | 807,322 (symmetric) | `OneChangePerDirectory`, `NoSharedDirectory`, `UsesTheMutex` |
| `stack_update` | 2 services in every role, 6 budget requests, 1 kind of fault | 2,291,867 | `CompletedIsVerified`, `DiskMatchesContainers`, `RollbackScopeIsKept`, `RollbackHealthyIsTrue`, `BudgetsFit`, `UpdateEnds` |
| `stack_update_rollback` | the same, no faults | violation | a failed swap wait leaves a per-container stack without a rollback |
| `image_write` | 3 files, 2 services, 2 reverts, 1 hand edit at any moment | 4,192,952 (symmetric) | `FailedWriteLeavesNothing`, `RevertTellsTruth`, `UndisturbedRevertWorks`, `RevertsSpareHandEdits` |
| `owners` | 2 projects, 2 directories, 1 tool, 2 requests at a time, adoption, 1 restart, 1 fault; 3 events in all | 2,027,651 (symmetric) | `OwnedFilesAreKept`, `OwnersAreRecorded`, `SentinelIsNeverStored`, `SavedIsNewest` |
| `fleet` | the feed and 1 request, 2 hosts, 3 projects, 2 services; a move, a request and a failed list, or 2 image events, or 1 image event beside a move or a failed list | 773,067 | `NewestListDecides`, `ForcedRecheckIsKept`, `StatusIsOnItsWay`, `ProvenanceIsTrue`, `DecisionsAreFounded`, `ControllerIsTold` |

Why the bounds are enough. Three processes give a holder, a queued waiter and a newcomer, the
smallest set in which overtaking and early forgetting of a lock show; two keys show that keys do
not disturb each other. Two jobs with one retained make the eviction choose; two faults put
a death at every point with a full boot after it, a second death between the flip of a row and its
event, and a death before a sweep that fails or skips a row. Two requests are a request and its retry; one row
and one pending answer put both limits in reach, and requests are reused, so histories are long. A
bulk of three with two places makes one worker wait and fills a channel of two. Two projects with
two directories and a request that may be a register of either directory or a copy of either
project allow every re-pointing; two jobs on one project are what the lock is for, two requests race
for one directory, and a third actor re-points a project or works beside them. (A swap of the projects
together with their directories is a symmetry.) Two services take every pair of
roles (healthy beside unhealthy, with and without a container before, disabled, orphaned, excluded)
up to exchanging them; budgets do not depend on the stack, so all requests are tried on one stack
only. The units of the budgets are small so that the words wrap. Three files are a failure after two
that must be restored, of which one may not be; two reverts are the shortest history in which the
agent meets its own work. Two requests at a time on two directories are a move away from a directory
and a register of it; one fault and one restart, at any step, put a failed write before a boot, a boot
before a mark that cannot be read, and a lost file between two boots. Faults, restarts and requests
together are three (`MaxEvents`): two requests and a fault, two requests and a restart, or a request
with both; the adoption is not counted. The two hosts of `fleet` differ in the
project that runs the proxy and in whether the agent finds its own container or only one that shares
its network. A list fails while the proxy moves and a
request arrives; two of the events to the images (an update, a release, a failed check, plan or post)
surround one pass; and one of them meets a move or a failed list. One request beside the feed is enough, because requests meet only in the view
that both publish.

Each module states its types once (`TypeOK`). Those of `ProjectLock`, `LogStream`, `OwnerRegistry` and `ProjectOps` are proved as
they stand, and the inductive invariants carry what the other proofs need of types; the rest documents the
state and held in every run when it was checked with it.

Violation runs state what the repository says of itself and what the code does not keep; the three
findings in `PROJECT.json` quote the lines.

Deadlock checking is off where the system may rest: all jobs started and ended (`jobs`), the one
operation done (`logs`), every job and request ended (`ops`), the update done (`stack_update`),
the write failed or all reverts done (`image_write`), every request used up (`owners`), the host at
rest (`fleet`). It is on for `lock` and
`idempotency`, where somebody can always act.

### Fairness

* `ProjectLock`: each step of a process that has called `acquire` is weakly fair. Goroutines are
  scheduled, a holder ends (`composeOpTimeout`, or the request's own work). Asking for a lock and
  giving up are never forced.
* `JobLifecycle`: runner, hook, boot and reconcile are weakly fair; starts, cancels, crashes, failed
  statements and days are not. Reconcile recurs every five minutes. `ControllerLearnsEnd` excepts jobs
  whose last row write failed and those in `aged`.
* `LogStream`: the job's goroutines are weakly fair; viewers are not, they may stall for ever.
* `StackUpdate`: calls of the library return, waits poll, and their time runs out, each weakly fair;
  cancels and deadlines of the whole phase are never forced.
* `FleetView`: the steps of the feed, of the checker and of a job that has deployed are weakly fair
  (the goroutines run as long as the process does, their timers fire again and again, a deployed job
  completes); the subscript of each is what every step of that goroutine changes. Requests, faults and everything that happens to the host are not; calls that fail do so
  finitely often, because `fuel` ends.
* `Idempotency`, `ProjectOps`, `ImageWrite` and `OwnerRegistry` are checked for safety only.

## Proofs

`ProjectLockProofs` proves, for any finite set of processes and any sets of keys and lock objects,
`TypeOK`, `MutualExclusion`, `CountsAreExact`, `HolderIsTrue` and that `ProjectLock` implements
`KeyedMutex`. Assumptions: `Procs` is finite, and the sentinels for no key, no holder and no lock
are not values of the sets they stand beside; TLC evaluates them in the run `lock`.

The argument. Mutual exclusion is not inductive: it holds because all users of a key work with one
object, and that is so because `drop` forgets an object only at `refs = 0`. The inductive
invariant `IInv` therefore joins

* `TypeOK`;
* `PointersOK`: a process between `acquire` and `drop` points to the object the map has for its
  key, and an object is in the map for one key only;
* `CountsOK`: `refs` is the number of users of the object (Cardinality of a set), and an object in
  the map has a user;
* `SlotOK`: the slot is full exactly when a process has its token in it, and at most one has;
* `HolderIsTrue`.

`GetOrCreateEffect` to `QuietEffect` say how each action changes the sets of users and occupants;
the `...Keeps` lemmas preserve `IInv` action by action; `NextIInv` puts them together. Two holders
of one key then have one object (`PointersOK`) and both their tokens in its slot, against `SlotOK`.
For the refinement, `SetHolder` maps to the abstract `Acquire`, `ClearHolder` to `Release`, and
every other step to a stutter; that the acquiring process owns no other key follows because a
process has one `pc`.

`StackUpdateProofs` proves `ClampFits` (the clamp as arithmetic, for every word, maximum, minimum and
reserve), and from it `BudgetsFit` and `SameBudgetBothWays` for every stack and every behaviour. The
inductive invariant `BudgetInv` says that each of the two budgets is unknown or the clamp of what was
asked, and that what was asked does not change. Assumptions: `BudgetAssumption` (all constants are
positive, the maximum fits the word) and `CasesAssumption`, with node budgets that are not negative.

It also proves `CompletedIsVerified`, `DiskMatchesContainers`, `RollbackHealthyIsTrue` and
`RollbackScopeIsKept`, for any set of services, any stacks and any number of faults. Each speaks of the
end of an update, so `UpdateInv` says what holds on the way there. It divides an update into the steps
before its `up` is through, those after it (`Forward`), the recovery (`Undoing`) and what follows the
rollback's redeploy (`Undone`):

* `Placed`: which phase, flags and verdict go with which step;
* `FilesAre`: the files name the old images until they are written, the new ones until they are
  reverted, and after that the old ones for the scope only;
* `ContainersAre`: the containers run the old images until the `up`, the new ones after it, part of
  them after one that failed, and after the redeploy what the reverted files name;
* `BaseIs` and `ScopeIs`: the baseline is the stack as it was unless the snapshot failed, all of it is
  looked at, and the scope is the whole baseline or the unhealthy;
* `Seen`: when a wait has ended well, every container looked at has been seen well.

The four properties follow from these parts; three of them (`Ended`) are conjuncts of `UpdateInv`,
because the last step of an update is where they are established.

`ImageWriteProofs` proves the four properties of `ImageWrite` for any number of files,
any services and plans, and any number of reverts and edits by hand. The assumptions are
`NAssumption` (there is a file) and `PlansAssumption` (a plan gives each file a set of edits). A
failed write is correct only at its end, so the inductive invariant `IInv` carries the loops:

* `Shape`: the types the arguments need;
* `Undone`: while files are written, those from the current one on hold nothing of the agent's
  (`Unwritten`: the original bytes or a hand's edit); while they are restored, neither do those before
  the current one and those after the last one to restore;
* `Passed`: while a revert has nothing to report, every file it has passed is `Settled`: it is what
  `Kept` makes of it or an edit by hand, and no service the revert names keeps its image in it.

`SameRevert` says that what a revert makes of a file does not depend on the disk, so a replacement
of one file or an edit by hand cannot unsettle another. `UndisturbedRevertWorks` and
`RevertsSpareHandEdits` need what the agent knows of the disk. `Trusted`, inductive beside `IInv`, says that nothing the agent
has written is a hand's, that a file about to be replaced holds a hand's edit only if the edit came
after the look at it, and that without a fault or an edit the disk is what the agent left.

`OwnerRegistryProofs` proves all four properties of `OwnerRegistry`, for any names, directories, tools
and requests and any number of faults, restarts and requests. The assumptions are those the module
states: marks exist under the root only, and the values for nobody, for a mark that cannot be read
and for "keep" are no tools. The inductive invariant comes in layers, each preserved with the help of
those below it:

* `Located`: types, and a request under way has a project and a directory, files only under the root;
* `Locked`: from its admission to its entry in the index it has the lock of its directory;
* `Named`: no owner stored anywhere, or about to be stored, is the sentinel (`SentinelIsNeverStored`);
* `Claimed`: what was acknowledged for a directory is what its mark says. Admission reads that mark,
  or the sentinel, which no request can declare; and by `Locked` nobody else changes the directory
  between an admission and the write (`OwnedFilesAreKept`);
* `Backed`: an entry's owner is its directory's mark, but for a project whose request is between its
  two writes (`OwnersAreRecorded`);
* `Saved`: whoever writes `projects.json` has `persistMu` and the newest index, or somebody who has
  changed it since will write it again (`SavedIsNewest`).

`IdempotencyProofs` proves all four properties of `Idempotency`, for any requests, keys, fingerprints
and bodies, any size of the table and of the memory and any number of failing statements, prunes and
restarts. The assumptions say that the values the model adds (`None` and the tags) are no value of the
other sets. The inductive invariant `IInv` has these parts:

* `Typed`, `Placed`, `Down`: types; which fields of a request mean something at which step; a store
  that is down runs nothing and remembers nothing;
* `Claims`: a request from its claim to the record of its answer finds its row in flight with its own
  fingerprint, and `Alone`: no other request with that key is between those steps (`OneHandler`). The
  insert that finds no row is what makes it so, and no prune takes a row that is `InUse`;
* `Books`: what is owed is in the table, pending, or still claimed (`Kept`, which is `OwedIsKept`); a
  request that has not yet acted owes nothing (`Owes`); and an answer in the table or in memory that
  says its request acted is the one owed (`Truthful`).

`AtMostOnce` follows because only a record changes what is owed to something new, and whoever records
has the claim, which by `Kept` and `Alone` nobody had while another answer was owed. `ReplaysAreTrue`
follows from `Truthful` and the comparison of fingerprints.

`ProjectOpsProofs` proves `NoSharedDirectory`, `OneChangePerDirectory`, `UsesTheMutex` and `TypeOK`, for
any projects, directories, jobs and requests. It assumes that a job is not a request, a project not a
directory, `None` none of them, and that every project has a home. The parts of its invariant:

* `Typed`, and `At`: what an actor has at each of its steps;
* `Locked`: a key's owner is the actor that is between its acquire and its release with that key, so
  the steps of jobs and requests on `owner` are steps of `KeyedMutex`;
* `Steered`: the key of a request, and of a job whose project is `stable`, is that of the directory it
  works in, so two of them in one directory would own one key;
* `Apart`: while a request writes a directory, only adopted entries of other projects have it. What it
  decided under the lock stays true, because whoever else enters that directory needs its lock.

`JobProofs` proves, about `JobLifecycle`, `RecordsConverge`, `NoZombieRows` and `OutcomeIsFinal`, for
any jobs and cancel requests, any days, and any bounds on retained jobs and on restarts, failed
statements and skipped rows; it assumes that jobs, cancels and the two values for nobody differ. A state changes in one step and is recorded in three others, so the
invariant follows the announcement:

* `Staged`, `Cancelled`: which states a job can have at each step of its goroutine, and what a cancel
  request that has marked a job still has to announce;
* `Hooked`: one actor at a time is between its snapshot and its last write (`emitMu`);
* `Settled`: of a job that has ended, somebody wants to announce it, or the one in the hook carries its
  final state, or its row (but for a failed write) and the controller have it;
* `Quiet`, `Rowed`: at boot nothing runs until the sweep is through, and after its first half no row of
  a job without an operation says it works.

The second part of `JobProofs` proves `EachLineOnce`, `NoSilentGap`, `ClosingLineArrives`,
`VerdictIsLast` and `StreamTypeOK` of `LogStream`, for any number of workers and viewers and any sizes of
the semaphore, the ring and the channels. It assumes that the workers are finite in number and not the
job's own goroutine, and that the sizes are positive. A viewer's lines are spread over its backlog, what
it has received, its channel, and goroutines that have copied it as a subscriber and not sent to it yet;
the invariant speaks of all four:

* `Phased`, `Judged`: where the goroutines are, and the verdict that belongs to it;
* `Counted`: `LineCount` is the opening line, one per worker that has reported, and the closing line of
  a job that went well; with `Phased` this is `VerdictIsLast`;
* `Numbered`: a goroutine inside `appendLine` has a line of its own, and the ring is the last lines in
  order, so a backlog has no line twice and none after `LineCount`;
* `Delivered`: what a viewer has received or has in its channel are different lines, all later than its
  subscription, and a goroutine that still owes it a line has one that is not among them. From it, and
  the order of the backlog, `EachLineOnce`;
* `Noticed`: a viewer that has more to read than a channel holds is in `lagged`; and `Behind`: so is
  the viewer of a goroutine that is about to drop a line. A full channel holds different unread lines
  and not the one being sent, so there are more of these than places (`Crowd`, the pigeonhole
  principle). `NoSilentGap` is inductive with both (`Abreast`);
* `Last`: once the closing line is written nobody else appends, so it is the newest of every channel it
  is in; after the oldest has been dropped there is room, and the retry cannot fail
  (`ClosingLineArrives`).

The parts were first checked by TLC as invariants, with two viewers on channels of one line and with
three workers.

`FleetViewProofs` proves the safety properties of `FleetView`, for any listers,
lists, entries, services and budgets. It assumes that listers and services are finite sets, that a
container keeps its labels (as Docker has it), that the feed is a lister, and that `None` is no list,
view, message or container ID.

* `SelfInv` is about lists. Each one under way has an `Instant` of its own; a published view is that
  of a list under way which has it (`ViewIs`), or of one that is settled and not later than `newest`
  (`ViewOwned`), and so for the recorded failure (`ErrorIs`, `ErrorOwned`); a list that went well or
  failed has left a view or a failure at least as late (`Good`, `Bad`, `Decided`). When none is under
  way, view and failure are pinned between the last two (`NewestListDecides`). `StartListKeeps` shows
  that renumbering the instants changes no comparison: counting the instants in use up to one of
  them is strictly monotone on those in use.
* `ForcedRecheckIsKept` is inductive as it stands, and so is `StatusIsOnItsWay` with the types of the
  checker and the messages and with `Stamped` (`StatusInv`): only a pass stores results, it sets the
  nudge, and only the feed clears it, on its way to a new stamp. `Stamped` is for the look-ups between:
  what the feed has found is what the cache holds, unless a nudge waits or is about to be set.
* `FeedIs`: a payload with a revision is the stamp of the list it was made from; `RevisionIsShown` says
  what the vote over the services returns (`ProvenanceIsTrue`).
* `RequestIs`: what a request was answered, the daemon could answer at some moment since it arrived.
  `OnlyDecideEnds` and `FallbackProtects` then give `DecisionsAreFounded`.

Every safety property that a passing run checks is proved. Only model-checked is liveness
(`AcquireReturns`, `ControllerLearnsEnd`, `BulkEnds`, `UpdateEnds`, `ControllerIsTold`), which is out of
the prover's reach here, as are ENABLED, induction over data and RECURSIVE operators.

## Observations

What the models show of the code and no run forbids, because nothing in the repository says otherwise,
or because the effect is small. The hazards in `PROJECT.json` refer here.

* Two jobs on one project. The lock is the directory's. A project that is re-pointed, or deregistered
  and resolved from its containers, while a job runs gets a second job beside the first, in another
  directory (README.md:207-209 of the repository speaks of jobs of one project as serialised).
* A deregister whose write of `projects.json` fails answers 500; the retry finds no entry and answers
  200 without writing, and a restart brings the project back (projects.go:404).
* A project that moves clears the mark of its old directory without that directory's lock
  (projects.go:381). A register of another project there at the same time can lose its mark; the next
  boot writes it again from the index. `OwnersAreRecorded` excepts such directories.
* Two requests for one new name with different directories are both admitted, since the name is
  checked before the lock only (compose_handlers.go:614); the later one re-points the project.
* `observeFailed` looks at the view and writes the failure in two steps (selfid.go:283). A failure
  older than the published view can stay recorded until the next success.
* A forced pass whose snapshot fails has consumed the force (imagecheck.go:349); the next pass of the
  timer makes it good.
* A container verb resolves its targets after the list its self view came from (handlers.go:193-197),
  so a container created in between is judged by a view that does not know it.
* The comment of `stampImageStatus` (imagecheck.go:477) says "updated" if all images are known, else
  "unknown"; the code says "updated" as soon as one known image is.
* A failed release of an idempotency claim is only logged (idempotency.go:722): retries get 409 until
  the next boot.
  The comment above it (idempotency.go:712-713) says that a claim can never be stranded.
* The write and its restore do not look at a file before they replace it (tagwrite.go:158-162, 793-794,
  807-819): a hand's edit made while a write is verified is gone when the verification fails.
  `RevertsSpareHandEdits` excepts these replacements (`Blind`).
* A reconcile posts jobs that ended within a day only (app.go:184-185). Of a job whose event was lost
  with a skipped row of the sweep, before an outage of a day, the controller never learns the end.
* Adoption inserts what it has read of the marks before it took the registry's lock (projects.go:511);
  a register of another project in that directory meanwhile leaves two entries for it, the adopted one
  with the older owner (until the next boot reads the mark). `NoSharedDirectory` excepts adopted entries,
  `OwnersAreRecorded` the directories in `unbacked`.
* A directory that cannot be synced after a rename (tagwrite.go:943) leaves a file replaced although
  the write reports an error; `FailedWriteLeavesNothing` excepts it.
* A failed snapshot is an empty baseline (stackengine.go:127): a running stack is then updated like a
  fresh deploy, without a rollback.
* The comment on `rollback` (stackengine.go:547-550) says it is detached from cancellation entirely, the
  one inside it (stackengine.go:565-569) that it deliberately is not; the code does the latter.

## Plan

Items 1 to 8 are done.

1. `KeyedMutex`, `ProjectLock`, `ProjectLockProofs`.
2. `JobLifecycle`, `LogStream`, `JobProofs`.  3. `Idempotency`, `IdempotencyProofs`.
4. `ProjectOps`, `ProjectOpsProofs`.
5. `HealthBudget`, `StackUpdate`, `StackUpdateProofs`.
6. `ImageWrite`, `ImageWriteProofs`.
7. `OwnerRegistry`, `OwnerRegistryProofs`.
8. `Capability`, `SelfView`, `ImageCheck`, `FleetView`, `FleetViewProofs`.
9. The look-ups of the image sources and their caches; how a container verb resolves its targets;
   the hub and its viewers.

## Not modelled, and why

* Parsing, rendering and digests (compose files, image references, versions, fingerprints): data;
  an outcome or a model value stands for them. So is the look-up of versions at registries and
  GitHub: one outcome per image.
* The Docker daemon, the compose library, registries, GitHub, the WebSocket hub and the agent kit
  (outbox, reconcile, jobstore): outside the repository, modelled by what the code relies on.
* The hub's viewers, the cached networks of a snapshot, and the readiness caches (`refreshShared`,
  `refreshUnmarked`): they only report.
* An override of seconds whose product wraps round to a small positive duration is accepted by
  `budgetOf`, as `Wrap` shows; a request is bounded by its handler, a row is not.
* Read-only routes, logging, configuration, body limits: no state that others depend on.
* Directories outside the root are in `OwnerRegistry` and its proofs, but not in the instance of the
  run `owners`.
* Timeouts are choices that may be taken at any time; no clock is modelled, except that the prune
  does not reach rows in use.
