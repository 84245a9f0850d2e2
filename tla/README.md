# A verification project for Kelpie (dev-agent)

Kelpie runs coding agents on work items. A FastAPI **control plane** keeps all durable
state in PostgreSQL; **worker daemons** (Go) claim work over HTTPS, start one VM per run
and report; a **guest runner** inside the VM drives the agent and uploads a patch; a person
approves the patch; the control plane **delivers** it to GitHub as a pull request. Paths
below are relative to the repository; `app/` is `apps/api/app/`.

## Inventory

| Part | State it keeps | Operations | What makes it correct |
|---|---|---|---|
| Work lifecycle (`app/state_machine.py`, `app/worker_transitions.py`) | `WorkItem.status`, `version` | one transition per transaction, version + 1 | only allow-listed edges; the gate is passed by an approval of exactly that version |
| Claims, leases, accounting (`app/service.py`, `app/worker_leases.py`) | `ResourceLease`, `WorkerHost` room and `active_runs` | claim, renew, expire, release, reconcile, register, heartbeat | one worker per work for good; a slot is given back once, after the work is finished |
| Quarantine (`app/worker_quarantine.py`) | `quarantined_at`, lease, job and work rows | one transaction per worker | a fenced worker owns nothing that can act, for good |
| Review gate (`app/main.py`) | `AuditRecord`s, `DeliveryBundle` row and file | upload, review, approve, reject, feedback, budget | the approved bytes, and no others, can be delivered |
| Central delivery (`app/delivery.py`, `app/delivery_audit.py`) | `DeliveryJob`, process-local `_active_deliveries`, the remote branch and pull request | start, token, look up, clone, push, create, finish, fail; startup recovery | at most one pull request, an outcome that is never overwritten, no approved delivery forgotten |
| Consoles and previews (`app/main.py`) | preview row, console lease | register, take, return, expire | nothing a person may still look at is removed; none outlives a quarantine |
| Event log and stream (`app/service.py`, `app/main.py`) | `AgentEvent` rows, a cursor per stream | append, read beyond the cursor | no event is passed by |
| Credentials, OIDC login, webhook deduplication | rows of their own | issue, rotate, revoke; log in; take a delivery once | fencing, single use |
| Artifacts, retention, backup (`app/artifact_*.py`, `app/local_objects.py`) | files, rows, a checkpoint per retention job, snapshots | upload, register, expire in two transactions, save a page, back up, restore | a row that says its bytes are gone is right; nothing in use goes; no row is passed by; a restored root matches its database |
| Worker daemon (`apps/worker/internal/daemon`) | reservations in memory, run records on disk | claim, execute, settle, release; recover after a restart | reservations match leases; a VM is cleaned up before its lease is reconciled |
| Run store, VM and network of one run | a phase journal and files on disk, a libvirt domain, network and filter | create, advance, clean up | a crash between two commands leaks nothing and hides nothing |
| Network log hook (root, called by libvirt) | append-only records, an nftables table | start, check, stop | no guest runs unlogged; missing records are not taken for a run that never started |
| Guest runner (`apps/runner`) | working tree, the version it holds, attempts, feedback cursor | bootstrap, clone, turn, verify, repair, upload, poll, fail | the gate shows the verified tree, the agent is told what people said, a dead run does not look alive |
| Web, observability, infrastructure | none that others depend on | | |

**How they interact.** Everything meets in database rows. A handler locks the rows it
decides on (worker, then lease, then work, then delivery job), reads them again, changes
them and commits. Three things do not fit that pattern, and they are where the behaviour is
hard. A delivery is a background task of many transactions and remote calls. An external
write keeps its row locks while it waits. And a worker's idea of its own room is overwritten
into the database by each heartbeat. The hard behaviours follow: quarantine, worker reports
and API crashes between any two steps of a delivery; remote requests that are accepted after
their caller gave up; two tasks for one job; repeated releases and reconciliations; a lost
answer to a claim or a release. On the worker's host everything is a command that may fail, or
a daemon that may die, between a record on disk and what the record stands for. In the guest
every call may fail, and a request may be served after the runner gave up on it. Files and rows are never changed in one transaction, so
retention and backup work beside everything else with rows, files and a cursor that disagree for
a while. `PROJECT.json` lists each of them as a hazard at its line.

## Modules

| Module | Models |
|---|---|
| `WorkStates` | the two transition graphs and the status classes the handlers test |
| `Delivery` | the review gate and central delivery, step by step |
| `Publication` | abstract: what the gate promises about approval, publication and outcome |
| `DeliveryProofs` | the inductive invariant of `Delivery`, the theorems that follow; `Delivery` implements `Publication` |
| `ControlPlane` | every transaction on works, workers, leases and jobs; delivery by its transactions only |
| `Reservation` | abstract: what the leases promise about owners and slots |
| `ControlPlaneProofs` | the inductive invariant of `ControlPlane` and the theorems that follow from it |
| `ControlPlaneRefinement` | quarantine is final; `ControlPlane` implements `Reservation` |
| `WorkerDaemon` | one worker: its daemon, its runs, its recovery, and the control plane's view of it |
| `Occupancy` | abstract: what a worker host promises about its room |
| `WorkerDaemonProofs` | the inductive invariant of `WorkerDaemon`, the theorems that follow; `WorkerDaemon` implements `Occupancy` |
| `RunCleanup` | one run on the host, command by command: creation, cleanup, journal and logging hook |
| `RunCleanupProofs` | the inductive invariant of `RunCleanup` and the theorems that follow from it |
| `Runner` | the guest runner against the run API: one run from bootstrap to its end |
| `RunnerProofs` | the inductive invariant of `Runner` and the theorems that follow from it |
| `Retention` | artifact rows and bytes, what keeps them in use, and the retention workers |
| `RetentionProofs` | the inductive invariant of `Retention` and the theorems that follow from it |
| `Backup` | composes `Retention` with dump, snapshot and recovery |
| `BackupProofs` | `Backup` keeps the invariant of `Retention`; recovered roots match |
| `EventStream` | transactions that emit events, and the stream that reads them by id |
| `MCDelivery`, `MCControlPlane`, `MCWorkerDaemon`, `MCRunCleanup`, `MCRunner`, `MCRetention`, `MCBackup`, `MCEventStream` | instances for TLC |

### Delivery

The model begins when a run reaches verification and follows each work through the gate.
Handlers are one action each; their row locks make them so. A delivery task is a program
counter `at[t]`, named after the `stage` variable of `_deliver_work`, and `local[t]`, its
local variables. There are two tasks per work, the one scheduled by the approval request and
the one of startup recovery, because these are the two callers of `_exclusive_delivery`.

* `guard_delivery_write` is `TakeGuard`: it takes the locks, checks `Deliverable` and
  `Authorized`, and enters a `*_write` stage in which `WorkLocked` and `WorkerLocked` keep
  every other handler out. The deadline (`GuardTimeout`) leaves the stage and the locks.
* `inflight` holds what was sent to the remote host. The host accepts, refuses or loses a
  message at any later time, the sender's timeout or death notwithstanding.
* An upload is two actions, `WriteBundleFile` and `CommitBundle`, because the file changes
  before the row; `Crash` between them keeps the file and loses the row.
* `PersistenceError` is the `SQLAlchemyError` path: the transaction rolls back, the task ends,
  the job stays as it was. A recovery task also gives up when it waits two seconds for a lock.
* `Crash` drops tasks, the active set and open transactions; `Restart`, `ScanJobs` and
  `JoinRecovery` are `lifespan`, `resume_pending_deliveries` and the supervising loop of
  `recover_startup_deliveries`.

Not translated from the source, and so assumptions: the remote host refuses a push to an
existing branch, a second open pull request for a branch and a pull request without one.
Maintainers merge or close a pull request only while no attempt and no stray request is under
way for it (`ClosePullRequest`); closing within those seconds and a stray request landing
afterwards would be the host's business, not this code's.

### ControlPlane

One action per handler, over any number of works and workers. `host[k]` is the worker row,
`lease[w]` the lease row (a unique column makes it one per work, for good), `approval[w]` the
last pull-request decision in the audit log, `reconciled` the works with a `lease.reconciled`
audit. Abstractions:

* One resource, counted in runs, stands for cpu and memory, which follow the same rule (taken
  by a claim, given back up to the total). Disk differs (no cap, reset by registration) and is
  left out, as are priorities and totals that change by re-registration.
* `claim_next_work` takes any queued work: which one it gets depends on the rows others have
  locked (`skip_locked`).
* A request with a stale `expected_version`, a wrong token or a missing role changes nothing
  and is not an action. `LeaseExpires` is time passing without a renewing call.
* `TrustedReports` says whether heartbeats agree with the control plane's accounting, or
  report anything between nothing and the worker's capacity.

### WorkerDaemon

The other side of `ControlPlane`: one worker with several runs, and of the API only the rows
and requests that concern it. `row` is the worker's row, `tracker` the local reservations,
`journal` the phase in each run's directory, `at[w]` the place of a run's execution in
`Execute`, `execute` and `settleExecutionFailure`. A run is named by its work, because its lease
is unique and names directory and domain.

* `resourcesMu` is the variable `call`: one heartbeat, claim or release at a time. A release
  keeps it until the daemon has noted the answer (`NoteRelease`).
* An execution is cleaned up at most twice by its process: `Release` first, `execute` after an
  error. A second failure leaves it `stuck`, with its reservation, until a restart.
* `RecoverRun`, `Register`, `ReconcileRun`, `Acknowledge`, `RegisterAgain`, `Admit` and `Refuse`
  are `prepareVMRecovery` and `reconcileVMLeases`. Every error ends the process; systemd starts
  the next one (`Restart=always`).
* `Faults` chooses what may go wrong: `crash`, `lost` (an answer, or a request that never
  arrives), `late` (a request handled after its sender gave up), `torn` (a record or marker
  partly written: nobody can read it, `List` fails and recovery stops there), `command` (a host
  command or a write of the journal reports an error, before or after its effect), `expiry` (a
  lease runs out). `WriteFails` is what becomes of a marker: nothing is written, it is there all the
  same, or it is unreadable. `Stop` cancels the context of executions,
  which shows as any of their steps failing; a settlement has a context of its own.

Left out: records of schema 1 (recovery refuses them always), the mock executor, worker states
other than online and the cancellation of queued work (they are in `ControlPlane`). Cleanup of
one run is one step, or one that stops half-way; its steps are the next module.

### RunCleanup

One run and the host. `pc` follows `Execute` and `networkProvisioner.create` through the disks,
the definitions, the filter, the network, the start intent, the start and the machine, and
`vmCleanup.Cleanup` back. Every command succeeds, or fails before or after its effect.
`receipts` and `table` belong to the hook, which libvirt calls when a network starts or stops:
a start fails with its hook, a stop does not. `Retry` is the second attempt of `execute` or the
recovery of a new process, `Reboot` a restart of the host: nothing starts by itself, and tables
are gone.

Assumptions: what conflicts with the run is there from the start or not at all, so a check and
its command are one step; a client that was killed at its timeout has no effect later. The
second is an abstraction, listed as a hazard.

### Runner

One process, one work, one lease. `pc` follows `run()`: a call is one action when its answer
arrives. When none arrives (`Fault`) the runner raises at once, goes to `failing`
(`fail_execution`), and the request joins `late`: `LateArrives` serves or refuses it at any later
time. `Accepts` is `worker_transition` (lease, version, the worker's own graph), `AcceptsBundle` the
patch upload. `ReadStatus` and `ReadFeedback` are the two reads of `runner_commands`, and people
commit between them and before `TakeCommands` uses the answer. `KillVM` and `WorkerSettles` are
the worker's end of the run and its `settleExecutionFailure`; `LoseLease` is expiry, or the
quarantine that also gives the work its outcome.

* The working tree is told apart by two facts: its last state passed verification (`checked`),
  and the uploaded patch is this tree (`bundle`). A turn that ends has changed the tree; one that
  fails ends the run.
* The first loop of `run()` and the authorised one after the gate have the same control flow and
  share their stages; they differ in the prompt.
* After a conflict on its first report the runner reads the work again. Nobody else moves
  provisioning work on, so the read finds the outcome that caused the refusal: the re-read is part
  of the refusal.
* Approval rows are history to the runner and decide nothing; their cursor is left out.

### Retention

Rows in the database, bytes under `ARTIFACT_ROOT`, and no transaction over both. A handler that
holds its locks from first read to commit is one action. The second transaction of
`expire_artifact` is two, `PurgeFile` and `CommitPurge`, because the unlink cannot be rolled back;
between them `WorkLocked` and `WorkerLocked` keep out whoever waits for its locks. A retention
worker goes `Load`, `Select`, one visit per row, `SaveCheckpoint`; `DatabaseError` and `Crash`
strike anywhere in between. Several rows may name one file (`KeyOf`): the code calls them aliases and
treats them together.

* One policy, one scope, apply mode. A dry run changes nothing but its own checkpoint.
* `console` stands for a preview and its console lease, which are registered and expire together.
* The works of a model ran on one worker host; `fenced` is its quarantine.
* `register_artifact` stores the size the client gives (0 unless it says one), so a row may say
  another size than its bytes have and two rows of a key may disagree: `Sizes` are the sizes a row
  can say, `FileSize` the bytes of each key. `Inspected` is what `inspect_file` finds, `SameSize` the
  part of `inconsistent_aliases` that concerns sizes. Digests are written with the intent, for all
  aliases at once, and agree.
* Policies do not change, no key has more than `MAX_ALIASES` (10 000) rows (the code protects
  them for ever), and keys of other works are refused at registration, so their aliases are left out.
* The checkpoint's version is only compared for equality, so `fresh` says whether it moved since it
  was loaded.
* `owed` and `missed` are history: what the present sweep has still to visit, and what a finished
  one never did.

### Backup

`Backup` EXTENDS `Retention`: its next step is a step of the command, of the operator, or any
step of the handlers and retention workers while the snapshot stays as it is. The command locks
nothing; `--writers-stopped` is an acknowledgement, so the model lets the writers run. A digest
stands for the content it was taken of, and what was changed after it was written fails its
digest and is refused. `Recover` restores dump and snapshot into a new database and root, with
everything stopped, once. The command refuses rows that name one file with different sizes, and a
file of another size than its row says.

### EventStream

`People` are requests that take the work row FOR UPDATE before they emit an event, `Reports` those
of the run, which lock worker and lease only. An insert takes the next id of the sequence and then
checks the foreign key, which waits for a transaction that holds the work row. People wait for no
worker lock in that order (`ensure_worker_not_quarantined` forbids it), so nothing waits in a
circle here. `Read` is one read of the stream; the page keeps the highest id it was sent.

## Runs

| Run | Instance | Shows |
|---|---|---|
| `delivery` | 1 work, 2 patches, 2 crashes, 1 database error, versions up to 10 | the safety properties of the gate and of delivery, that it implements `Publication`, and that every delivery is settled |
| `stale_review` | 1 work, 2 patches | a violation: see *Findings* |
| `control_plane` | 2 works, 1 worker with room for 2, truthful heartbeats, versions up to 8 | ownership, authority, the fence, accounting and returns, to completion on both paths |
| `worker_safety` | 2 works, 1 slot, any 2 failures of all kinds | nothing without a record; a restarted daemon serves on a clean host only; `Occupancy` is implemented |
| `worker_liveness` | 2 works, 2 slots, any 2 of: crash, lost request or answer, failed command or journal write, expiry | reservations and reports of runs side by side; after every restart the worker serves again, unless the API counts a run that it has taken back; the room of finished work comes back |
| `lost_claim`, `lost_release` | 2 works, 1 slot, 1 lost message | violations: see *Findings* |
| `cleanup` | 1 run, logged or not, 5 failures | a clean, guarded, recognisable and converging life of a run; others' resources |
| `runner` | 1 repair allowed, 2 feedback rows, 2 failures, versions up to 10 | what the gate shows, what the agent is told, how a run ends, and that decisions are served |
| `retention` | 3 rows of right or wrong size, 2 naming one file, 2 works, 1 retention worker, pages of 1, 1 failure | what goes, when, and that every sweep visits everything |
| `backup` | 2 files of 1 work, rows of right or wrong size, 1 retention worker, pages of 2, 1 failure, 1 recovery | accepted snapshots restore to a root that matches, with writers running |
| `stream` | 2 requests of people, 2 reports, batches of 2 | a violation: see *Findings* |

**Bounds.** `MaxVersion` stops people and runners from sending work round the loop of
implementation and review for ever; delivery and quarantine are not bounded. From
verification (version 5), version 10 allows a full second round before approval; version 8 of the
control plane covers submission to completion with one detour. Two crashes let a recovery be interrupted by another crash; two works are the
fewest that contend, and no action relates more than two. Two failures of a worker are the
fewest that meet in one run (a lost answer and a crash, a torn record in a recovery).
`worker_liveness` leaves out `torn`, since an unreadable record keeps the host out on purpose
(`Start` does not get past `List`), and `late`, for size only; five on
the host let a run fail, be cleaned up half-way three times, and crash. Both bounds count
failures only: what succeeds is not bounded. In `runner` one repair lets the limit be reached and
passed, two rows let feedback fall on both sides of a decision, and the second failure is the one
that meets the settlement of the first; versions up to 10 allow two decisions at the
gate. In `retention` three rows on pages of one give a page before, between and after, and the
alias is not beside its row; one failure interrupts any step, and what it leaves is found by the
next run of the same worker, however often. Two workers on one checkpoint are covered by the
theorems, which bound nothing. `MaxVersion` of `Runner` bounds people only. The runs with interchangeable works
and workers use symmetry, except those that check liveness. `CHECK_DEADLOCK FALSE` is set because
the models do stop: finished work is finished, and the bounds end the rest.

**Fairness.** A running API gives every delivery task its next step and runs its startup
recovery: these are coroutines of an event loop, and every wait among them has a deadline or
ends with a database error. A pending upload commits. Nothing restarts a dead API (the
service has no restart policy in `docker-compose.yml`), so both liveness properties assume
`StaysUp`: somebody starts it each time, and at some point it stays up. `ApprovalSettles`
also assumes that no database error happens; `RestartSettles` says what is true with them. Nothing is assumed of
people, runners, quarantine or the remote host.

A worker's daemon is restarted by systemd and takes every step it can take without a failure
(`Undisturbed`): its loops and goroutines wait for timers and bounded requests only. A release
is strongly fair because it shares a mutex with heartbeats, and Go's mutex does not starve a
waiter. Stops, claims, failures and moves of the work are not fair. On the host, cleanup goes on
when nothing fails and is retried after a failure; failures are finite by their bound, and
`Uncertain` names what no retry can settle: a conflict with another's resource, or logging that
was begun and whose stop was never recorded, for which `docs/en/worker-public-egress.md` asks
for an operator.

The guest runner is one coroutine whose HTTP calls have timeouts, so each of its own steps is taken
in the end (`RunnerStep`), that the agent opens a thread included. Nothing makes a turn end
(`run_turn` has no limit) and nobody has to decide, so neither is fair. A retention worker takes its
next step; it leaves its loop when a page fails, and an operator starts it again
(`docs/en/scheduled-retention.md`), so `Load` is part of the fair step. `PurgesDue` assumes
`Intact`: no row that could go fails its inspection, for want of its bytes or because it says
another size than theirs. One that does fails at every visit, its page is never saved, and nothing
behind it goes; the code stops there on purpose. Rows of one key with different sizes are not
`Due`, as the code protects them for ever. A client's registration can bring about either.

## Properties

*Delivery.* `ApprovedBytesStay`: from approval to outcome the file, the row and the
approval agree. `GuardedWriteHolds`: while a remote write is under way nothing it was
allowed by has changed. `AttemptOwnsItsJob`: recovery never takes a job from a live attempt.
`AtMostOnePullRequest` needs three parts of the code to agree: the deterministic branch name,
the lookup that asks for pull requests in *all* states, and the branch lookup that skips the
push. `OnlyDatabaseErrorsOrphan`: with no database error no committing work is left without
a task. `OutcomeIsFinal`: no late failure overwrites what quarantine decided.
`PublishesWhatWasApproved` is the refinement of `Publication`. `ApprovalSettles` and
`RestartSettles` are the liveness properties.

The second is stated for works that the start finds without a request task. An approval that
is accepted while the scan runs has a task of its own, which recovery leaves alone; when that
task meets a database error after the scan, the work waits for the next start. The first
formulation of the property overlooked this, and TLC found the trace.

*Control plane.* `LeaseMatchesAssignment`, `ReturnedMeansFinished`, `QuarantineFences` and
`CompletionAuthorised` relate the lease, work, job and audit rows; `CapacityConserved` is the
exact account of slots under truthful heartbeats; `QuarantineIsFinal` says that nothing moves
what a quarantine fenced; `KeepsReservations` is the refinement of `Reservation`.

*Worker.* `AdmittedClean`: no work is taken while anything of an earlier run is on the host or
unreleased. `KeepsRoom` is the refinement of `Occupancy`: never more machines than slots, a
run is booted at most until its room is returned, and its room is returned after its machine is
gone. `RecordedBeforeBoot`, `TrackerExact`, `ReportIsCurrent` relate host and journal,
reservations and executions, reports and reservations. `ServesUnlessOvercounted` and
`RoomReturned` are the liveness properties; their exception is `Unresolved`: a lease whose work is
not over, or that has no record. The code refuses these on purpose. The first also excepts
`Overcounted`: the API counts a run that it has taken back, which nothing corrects while the daemon
is kept out. That is no purpose of the code but the finding `lost_release`, whose property
`ServesAgain` is the same statement without the exception. `RoomReturned` also excepts a run that is
`stuck`: its process keeps the room until a restart, which nobody promises.

*Runner.* `AgentIsTold`: the commands call reads the work and its feedback in two statements; the
order is what makes the property true. `ApprovalShowsVerifiedTree` and `NoSilentDeath` hold
against requests that are served late because a settlement takes a version and a late report
carries the old one. `NoSilentDeath` allows one failure: with two (the report and its
settlement) the work stays executing until its lease ends, and with none but a person who resumes
work after the runner's end, too. `RepairsAreBounded` counts verifications between two decisions.
`ServedWhenConnected` is liveness. A single failed poll ends the runner while the work waits
for people, so it can promise nothing beyond its own calls' success.

*Artifacts.* `PurgedIsGone` relates rows, aliases and bytes across interrupted attempts;
`RemovesOnlyUnused` says what a removal needs at the moment of the unlink and not when the intent was
recorded; `SweepVisitsAll` and `PurgesDue` are the two sides of the checkpoint: it never passes a row
by, and protected rows never keep it from the others. `RecoveredRootMatches` is the promise of a
backup.

*Host.* `CleanedIsGone`, `OwnIsRecorded`, `GuestIsGuarded`; `TeardownOrder` and
`ForeignUntouched` say what no step may do; `Converges` is the liveness property.

One consequence of the source is worth knowing: the worker's graph permits
`committing -> failed` while the delivery job is unfinished. No shipped worker or runner
does it, but the job would then never end, and reconciliation of that lease would be refused
for ever (`delivery is not safely finished`). The model has the behaviour, and
`ReturnedMeansFinished` holds with it because reconciliation refuses.

## Findings

`stale_review`: `docs/en/architecture.md:32` says that a transition supplies its expected
version, which turns concurrent feedback into one success or a 409. A budget decision does. A
pull-request decision does not: `decide_approval` uses the version of the locked row
(`app/main.py:804`). An approver who looked at one patch can commit the next one. The
publication itself stays consistent: what is published is what the *audit* of the approval
names (`ApprovedBytesStay`). `docs/en/budget-approval-version.md:17` acknowledges the gap.

`lost_claim`: `docs/en/worker-lifecycle.md:33` says that lost claim responses block admission
and that a zero heartbeat cannot overwrite them. The fresh process sends none before the check;
but the process that lost the answer gives its reservation back and reports all of its room
with its next heartbeat. After a restart the row looks empty, and the worker is admitted while
the lease is active.

`lost_release`: after a lost answer to a release the daemon keeps its reservation, so its next
heartbeat counts a run that the API has taken off. After a restart the lease is reconciled as
already released, which returns nothing, registration keeps the row, and the daemon refuses
to start with one active run, for good. `docs/en/worker-lease-reconciliation.md:7` names the lost
release response as a case that reconciliation is for. No message need be lost: when the answer
arrives and the journal's `released` marker cannot be written (`NoteRelease`; `resources.go:90`,
`run_store.go:280`), the reservation stays just the same, and the end is the same. The run has the
lost answer because that is what the document speaks of. `worker_liveness` has both causes and
excepts the state they lead to (`Overcounted`): whatever else is lost or fails in it, the worker
serves again or has an unresolved lease.

`stream`: `README.en.md:5` says that Kelpie "streams every action to a dashboard". Events are read by
id, and ids are given out at the insert, not at the commit. A report of the run takes an id and
waits for a person who holds the work row; the person's event takes the next id and commits; the
stream moves its cursor to it; the report commits behind the cursor. The page asks to go on from the
highest id it has seen, so only loading it afresh shows the event.

## Proofs

Every safety invariant, action property and refinement of the passing runs is proved, for every
value of the constants. TLC checked each inductive invariant on instances before its proof was begun.

`DeliveryProofs` proves, for any works and workers, however the works are shared out,
`Spec => []IInv` with

    IInv == TypeOK /\ ActiveStage /\ GateStage /\ AttemptStage
            /\ PublicationStage /\ RecoveryStage

The five parts are the five things that keep a publication right. `ActiveStage`, the
reservation: of the two tasks of a work one is engaged, and the active set names its work.
`GateStage`: approval happens once, while the work waits, and fixes row, file and job from then
on, because an upload needs a status that an approved work never has again. `AttemptStage`: what a
task loaded is still the authority of its job, and its attempt is the running one. Here one needs
that the holder of the reservation is the only one who starts, and that whoever finds a running
job to take over is alone. `PublicationStage`: whatever reached the remote host, or is on its way,
is the approved patch, and while a closed pull request is all there is nobody stands between the
lookup and the request for another. This part rules out a duplicate for any number of delayed
requests. `RecoveryStage`: as long as the database answers, a committing work has a task, or a scan
that will find it, or a failed recovery that scans again.

Most steps concern one work. `TaskFlow` says so once for all steps of a task: it leaves other
works alone, and it reserves, returns or goes on. `GateByWork` and `AttemptByTask` turn the parts
into statements per work and per task, so that every lemma on a step looks at one of them. The
theorems are `BytesStay`, `WritesGuarded` (what allowed a write holds until its end, with any
number of deliveries contending for one worker's lock), `JobsAreOwned`, `OnePullRequest`,
`NobodyElseOrphans`, `FinalOutcome`, and `Implements`: each step is a step of `Publication` or
changes nothing it can see.

`ControlPlaneProofs` proves, for any works, workers, capacities and bounds and for truthful
and untruthful heartbeats alike, `Spec => []Inv`, with

    Inv == TypeOK /\ LeaseMatchesAssignment /\ ReturnedMeansFinished
           /\ QuarantineFences /\ CompletionAuthorised /\ NothingEarly

The properties need each other. An approval gives work a job, which is authorised only if
there was no job before: `NothingEarly`. That a claim cannot touch a quarantined worker's
work needs that queued work was never claimed: `LeaseMatchesAssignment`. That quarantine
leaves no work past the gate unauthorised needs that jobs and statuses agree:
`CompletionAuthorised`. And that a reconciled lease stays settled needs that finished work
never gets a new job, which is the transition graph's doing (`GraphEdge`, `LeaseEdge`). There
is one lemma per action with one step per conjunct; `NextKeeps` puts them together, and each
property is a theorem of its own.

`Conserved` (`Spec => []CapacityConserved`) needs an invariant of its own, `Ledger`: under truthful
reports a registered worker is `Balanced`. Its counts are the number of leases it holds, and those
are finitely many, though there may be infinitely many works: the set starts empty and a claim
adds one. The steps that matter are the returns. `return_lease_resources` caps what it gives back;
with the invariant the caps never bite, since a lease that is returned was counted. A worker that
never registered holds nothing (`StrangersHoldNothing`), so that registration starts a true
account. With untruthful reports the theorem says nothing; that is its hypothesis in the
property itself.

`ControlPlaneRefinement` proves the two statements about steps from the same invariant:
`FenceIsFinal` (`Spec => QuarantineIsFinal`) and `Implements` (`Spec => KeepsReservations`):
each transaction is a step of `Reservation` or changes nothing it can see.

`RunCleanupProofs` proves, for any number of failures and with and without logging,
`Spec => []IInv` with `IInv == TypeOK /\ Stages`. The safety properties alone are not
inductive: that a guest is guarded when it starts depends on what was confirmed two commands
earlier, and that a run is gone when it is marked depends on all the commands before. `Stages`
says what holds at each place: `JournalStage` (the phase), `CreationStage` (what has been put
there), `TeardownStage` (what has been taken away) and `TableStage` (a table belongs to a run that
was begun and not stopped). Each command has one case in `StagesStep`; `StopOutcome` first lists
what stopping a network can lead to, because there two programs fail independently. The theorems
`CleanedMeansGone`, `OwnershipRecorded`, `GuestGuarded`, `TeardownOrdered` and `ForeignSafe`
follow.

`RunnerProofs` proves `Spec => []IInv` for any repair limit and any number of feedback rows,
failures and late requests. `IInv` is `TypeOK` and seven parts, one per question. `LateStage`: a
request is late only when the runner has given up, so the tree is still what it was. `GateStage`
leads to `ApprovalShowsVerifiedTree`. `DecisionStage`: nobody resumes work while the runner is busy,
and an answer "implementing" stays true until it is used. With it, `ToldStage` gives `AgentIsTold` and
`RepairStage` gives `RepairsAreBounded`. `PlaceStage` (while the lease holds, the runner's version
is the work's) and `FailureStage` (what a failure leaves) give `NoSilentDeath`. One lemma per part
has one step per action.

`RetentionProofs` proves `Spec => []IInv` for any works, files, aliases, page size and number of
retention workers on one checkpoint. `PurgeStage`: bytes that are to go belong to work nobody runs
again, a worker stays with the row it recorded the intent for, and only one holds the locks of an
unlink. `SweepStage`: what the sweep owes lies beyond the cursor and, for a worker whose load is still
current, on its page or beyond it. That a page is a beginning of what it was taken from
(`PageIsFirst`) rests on `FirstIsLowest` and `LastIsHighest`, because the page is defined by
counting. `BackupProofs` extends this: dumps are databases retention could have left (`DumpStage`),
snapshots hold exactly the kept rows copied so far, of the size they say (`SnapshotStage`), a recovery yields a matching
root and re-establishes `IInv`, so the guarantees of retention outlive it (`RetentionOutlives`).

`WorkerDaemonProofs` proves `Spec => []IInv` for any works, slots, kinds and number of
failures. Its notion is `Gone(w)`: nothing of the run is on the host, no execution is on its way to
put something there, and it is not queued. A run that is gone stays gone, and only such a run asks
for its release. So a release that is handled long after its sender gave up returns room that is free (`LateOK`), and the same holds of
the acknowledgement of a recovery. `RunOK` relates lease, record, host and execution of each run,
`TrackerOK` the reservations and the executions, `CallOK` the request under the mutex and what it
reports, `ProcessOK` the phases of a process. From it follow `AlwaysRecorded`, `ExactTracker`,
`CurrentReport` and `CleanAdmission`. `Implements` (`Spec => KeepsRoom`) also counts:
every machine belongs to an execution that holds a slot, a machine appears only for an execution
that had none, and the reservations never pass the slots.

Working on this invariant corrected the model. A failed cleanup used to be able to turn an
unreadable record into a pending one, which `writeExclusive` and `load` in `run_store.go` do not allow; with it
`LeaseOK` would not have been inductive. No run had told the two apart.

**Assumptions** are those named in the modules: `None` is no worker, digest or work; capacities, slots,
limits and bounds are natural numbers; `Assigned` gives each work a worker (`Delivery`); `Faults`
names known kinds (`WorkerDaemon`); artifact ids are a finite set of positive numbers, every row
has one key, every key one work and one size, pages have at least one row (`Retention`). About the remote
host the proofs assume what `Delivery` does.

**Proved only**: that every variable of `ControlPlane`, `RunCleanup`, `Runner`, `Retention` and
`WorkerDaemon` stays in its domain (`active_runs` of a worker never goes below zero, whatever its
heartbeats report); the properties of `ControlPlane` with several workers and untruthful
heartbeats; those of `Delivery` with several works that share workers, and of `WorkerDaemon`
with several slots and all failures together.

**Model-checked only**: the liveness properties (`ApprovalSettles`, `RestartSettles`, `ServesUnlessOvercounted`,
`RoomReturned`, `Converges`, `ServedWhenConnected`, `PurgesDue`), which need fairness and `ENABLED`
and are out of the prover's reach. The violations are traces, so there is nothing to prove.

## Plan

1. `RowLocks`: the order in which each handler takes its row locks, and that no set of them
   waits in a circle (`delivery.py:73`, the comment of `ensure_worker_not_quarantined`).
2. `RunCleanup` with commands whose effect comes late.
3. Theorems that tie the levels together: that `ControlPlane`'s view of one delivery is what
   `Delivery` does, and `WorkerDaemon`'s view of a lease what `ControlPlane` does.

## Not modelled

Worker credentials, OIDC login and webhook deduplication are protocols of a row each, checked and
written in one locked transaction; they are left for later. One API process is assumed, as
`docker-compose.yml` deploys it: the set that keeps two tasks off one delivery is local to a process.
Roles and token formats, redaction, presentation, metrics and deployment files are text,
I/O or configuration without a protocol of their own. What the agent does to its working tree, the
gateway's proxying and the rules of the packet filter are outside the models. Policies that change
while an expiration is pending, bytes left by a failed upload and feedback that is queued while a
run executes are behaviours of the code that no property forbids; the first two are listed as hazards.
