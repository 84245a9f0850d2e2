------------------------------ MODULE Delivery ------------------------------
(***************************************************************************)
(* The review gate and central GitHub delivery (apps/api/app/delivery.py,  *)
(* delivery_audit.py and the approval, bundle and run handlers of          *)
(* main.py).  A work item already runs on a worker; its runner uploads a   *)
(* patch bundle, a person approves it, and the API process publishes it.   *)
(*                                                                         *)
(* A request handler that keeps its row locks from its first read to its   *)
(* commit is one action.  Delivery is not: it is a background task of many *)
(* steps, each database transaction and each external call one action, so  *)
(* that quarantine, worker reports, API crashes and late remote acceptance *)
(* fall between any two of them.  Two tasks can want the same work: the    *)
(* one scheduled by the approval request and the one of startup recovery.  *)
(***************************************************************************)
EXTENDS WorkStates, FiniteSets

CONSTANTS
  Works,        \* work items, each already claimed by a worker
  Workers,
  Assigned,     \* Assigned[w]: the worker that claimed w (never changes after a claim)
  Digests,      \* patch contents, told apart by their SHA-256
  None,
  MaxVersion,   \* bound: people and runners act only below this version
  MaxCrashes,   \* bound on API crashes
  MaxDbErrors   \* bound on database errors that hit a delivery task

ASSUME AssignedAssumption == Assigned \in [Works -> Workers]
ASSUME NoneAssumption == None \notin Digests
ASSUME BoundsAssumption == MaxVersion \in Nat /\ MaxCrashes \in Nat /\ MaxDbErrors \in Nat

VARIABLES
  status, version,  \* WorkItem.status, WorkItem.version
  row,              \* DeliveryBundle.sha256, None without a row
  file,             \* what the shared delivery.patch holds
  upload,           \* a bundle written to disk whose transaction has not committed
  reviewed,         \* the version of the work the approver last looked at, None before
  audits,           \* append-only approval.decided records that queue a delivery
  job,              \* DeliveryJob: state, approval_audit_id and attempts
  quarantined,      \* WorkerHost.quarantined_at is set
  api,              \* API process: "down", or its startup recovery's progress
  recoveryFailed,   \* a recovery task of the current scan ended with an error
  active,           \* _active_deliveries of the API process
  at, local,        \* stage and local variables of each delivery task
  branch, pr,       \* the remote repository: agent branch and pull request
  inflight,         \* external writes sent and neither applied nor refused yet
  crashes, dbErrors

workVars   == <<status, version, row, file, upload>>
gateVars   == <<reviewed, audits>>
taskVars   == <<active, at, local>>
remoteVars == <<branch, pr, inflight>>
vars == <<workVars, gateVars, job, quarantined, api, recoveryFailed, taskVars,
          remoteVars, crashes, dbErrors>>

Tasks == Works \X { "request", "recovery" }
WorkOf(t) == t[1]

\* Stages of _deliver_work, named as its `stage` variable, plus what surrounds it.
\* In a write stage the task waits for the remote host inside guard_delivery_write.
WriteStages == { "token_write", "push_write", "pull_request_write" }
Stages == { "idle", "scheduled", "recovery", "authorization", "bundle", "token",
            "existing_pull_request", "existing_branch", "workspace", "push",
            "pull_request", "finalize", "failing" } \cup WriteStages

LiveJob == { "pending", "retry", "running" }
JobStates == LiveJob \cup { "absent", "completed", "failed", "quarantined" }
AuditRecord == [work : Works, version : Nat, digest : Digests]
NoLocal == [authority |-> None, attempt |-> 0, content |-> None]
Message == [work : Works, kind : { "push", "pull_request" }, digest : Digests, attempt : Nat]

\* The work has just reached verification: queued, provisioning, analyzing, implementing.
Init ==
  /\ status = [w \in Works |-> "verifying"]
  /\ version = [w \in Works |-> 5]
  /\ row = [w \in Works |-> None]
  /\ file = [w \in Works |-> None]
  /\ upload = [w \in Works |-> None]
  /\ reviewed = [w \in Works |-> None]
  /\ audits = {}
  /\ job = [w \in Works |-> [state |-> "absent", approval |-> None, attempts |-> 0]]
  /\ quarantined = [k \in Workers |-> FALSE]
  /\ api = "done"
  /\ recoveryFailed = FALSE
  /\ active = {}
  /\ at = [t \in Tasks |-> "idle"]
  /\ local = [t \in Tasks |-> NoLocal]
  /\ branch = [w \in Works |-> None]
  /\ pr = [w \in Works |-> [opened |-> 0, open |-> FALSE, digest |-> None]]
  /\ inflight = {}
  /\ crashes = 0
  /\ dbErrors = 0

-----------------------------------------------------------------------------
(* Row locks.  A guarded external write and a bundle upload keep the       *)
(* worker, the work and (for delivery) the job row locked while they wait. *)

\* Locks without the guard of external writes.
WorkLockedDuringUploads(w) == upload[w] # None
WorkLocked(w) == upload[w] # None \/ \E t \in Tasks : WorkOf(t) = w /\ at[t] \in WriteStages
WorkerLocked(k) == \E w \in Works : Assigned[w] = k /\ WorkLocked(w)

Up == api # "down"

\* transition_work_item: the graph decides and the version moves by one.
Transition(w, target) ==
  /\ target \in AllowedTransitions[status[w]]
  /\ status' = [status EXCEPT ![w] = target]
  /\ version' = [version EXCEPT ![w] = @ + 1]

\* validate_lease: the lease of a quarantined worker opens nothing.
LeaseValid(w) == Up /\ ~WorkerLocked(Assigned[w]) /\ ~quarantined[Assigned[w]]

-----------------------------------------------------------------------------
(* The runner and the people around the gate.                              *)

\* worker_transition: a report of the runner; the worker is not a mock, so the
\* edges that belong to central delivery are refused.
WorkerTransition(w) ==
  /\ LeaseValid(w)
  /\ version[w] < MaxVersion
  /\ \E target \in WorkerTransitions[status[w]] \ MockOnly : Transition(w, target)
  /\ UNCHANGED <<row, file, upload, gateVars, job, quarantined, api, recoveryFailed,
                 taskVars, remoteVars, crashes, dbErrors>>

\* upload_delivery_bundle replaces the shared file first ...
WriteBundleFile(w, d) ==
  /\ LeaseValid(w)
  /\ status[w] \in { "verifying", "awaiting_approval" }
  /\ file' = [file EXCEPT ![w] = d]
  /\ upload' = [upload EXCEPT ![w] = d]
  /\ UNCHANGED <<status, version, row, gateVars, job, quarantined, api, recoveryFailed,
                 taskVars, remoteVars, crashes, dbErrors>>

\* ... and then commits its digest.
CommitBundle(w) ==
  /\ Up
  /\ upload[w] # None
  /\ row' = [row EXCEPT ![w] = upload[w]]
  /\ upload' = [upload EXCEPT ![w] = None]
  /\ UNCHANGED <<status, version, file, gateVars, job, quarantined, api, recoveryFailed,
                 taskVars, remoteVars, crashes, dbErrors>>

\* validate_delivery_ready that leaves the check of the bytes to the delivery.
DeliveryReadyByRow(w) == row[w] # None

\* validate_delivery_ready: there is a bundle row and the file still matches it.
DeliveryReady(w) == row[w] # None /\ file[w] = row[w]

\* The approver reads the work and downloads its patch, which is served only while
\* file and row agree.
Review(w) ==
  /\ Up
  /\ status[w] = "awaiting_approval"
  /\ DeliveryReady(w)
  /\ reviewed' = [reviewed EXCEPT ![w] = version[w]]
  /\ UNCHANGED <<workVars, audits, job, quarantined, api, recoveryFailed, taskVars,
                 remoteVars, crashes, dbErrors>>

\* add_feedback, a rejected pull request, an approved budget extension: the
\* decisions of people that send the work back to implementation.
SendBack(w) ==
  /\ Up
  /\ ~WorkLocked(w)
  /\ ~quarantined[Assigned[w]]
  /\ version[w] < MaxVersion
  /\ status[w] \in ResumedByFeedback \cup { "budget_exhausted" }
  /\ Transition(w, "implementing")
  /\ UNCHANGED <<row, file, upload, gateVars, job, quarantined, api, recoveryFailed,
                 taskVars, remoteVars, crashes, dbErrors>>

\* A slip of queue_delivery: a state no reader of the job knows.
QueueDeliveryMisnamed(w, audit) ==
  job' = [job EXCEPT ![w] = [state |-> "queued", approval |-> audit, attempts |-> 0]]

\* queue_delivery: a new job, or an unfinished one re-armed with this approval.
QueueDelivery(w, audit) ==
  job' = [job EXCEPT ![w] =
            IF @.state = "absent" THEN [state |-> "pending", approval |-> audit, attempts |-> 0]
            ELSE IF @.state = "completed" THEN @
            ELSE [@ EXCEPT !.state = "retry", !.approval = audit]]

\* decide_approval and the Slack command: audit, transition and job in one
\* transaction, then a background task that has not run yet.
Approve(w) ==
  /\ Up
  /\ ~WorkLocked(w)
  /\ ~quarantined[Assigned[w]]
  /\ version[w] < MaxVersion
  /\ reviewed[w] # None
  /\ status[w] = "awaiting_approval"
  /\ DeliveryReady(w)
  /\ Transition(w, "committing")
  /\ LET audit == [work |-> w, version |-> version[w] + 1, digest |-> row[w]]
     IN  /\ audits' = audits \cup { audit }
         /\ QueueDelivery(w, audit)
  /\ at' = [at EXCEPT ![<<w, "request">>] = "scheduled"]
  /\ UNCHANGED <<row, file, upload, reviewed, quarantined, api, recoveryFailed, active,
                 local, remoteVars, crashes, dbErrors>>

\* Quarantine that stops whatever the transition graph lets it stop.
StoppedByGraph(k) ==
  { w \in Works : Assigned[w] = k /\ QuarantineOutcome(status[w]) \in AllowedTransitions[status[w]] }

\* The works of a worker that quarantine gives an outcome: those that have none yet.
Stopped(k) == { w \in Works : Assigned[w] = k /\ status[w] \notin TerminalWork }

\* quarantine_worker, run on the control host whether the API is up or not: one
\* transaction over the worker, its jobs and its works; it waits for every lock.
Quarantine(k) ==
  /\ ~quarantined[k]
  /\ ~WorkerLocked(k)
  /\ quarantined' = [quarantined EXCEPT ![k] = TRUE]
  /\ status' = [w \in Works |-> IF w \in Stopped(k) THEN QuarantineOutcome(status[w])
                                ELSE status[w]]
  /\ version' = [w \in Works |-> IF w \in Stopped(k) THEN version[w] + 1 ELSE version[w]]
  /\ job' = [w \in Works |-> IF Assigned[w] = k /\ job[w].state \in LiveJob
                             THEN [job[w] EXCEPT !.state = "quarantined"] ELSE job[w]]
  /\ UNCHANGED <<row, file, upload, gateVars, api, recoveryFailed, taskVars, remoteVars,
                 crashes, dbErrors>>

-----------------------------------------------------------------------------
(* Delivery tasks: _exclusive_delivery and _deliver_work.                  *)

\* lock_delivery: what must hold under the three locks, or DeliveryStopped.
Deliverable(w, states) ==
  /\ ~quarantined[Assigned[w]]
  /\ status[w] = "committing"
  /\ job[w].state \in states

\* delivery_authority: the job's approval still covers this version and this bundle.
Authorized(w) ==
  /\ job[w].approval \in audits
  /\ job[w].approval.work = w
  /\ job[w].approval.version = version[w]
  /\ job[w].approval.digest = row[w]

Advance(t, stage) == at' = [at EXCEPT ![t] = stage] /\ UNCHANGED <<active, local>>

\* The task returns: it leaves the active set and drops its local variables.
Return(t) ==
  /\ at' = [at EXCEPT ![t] = "idle"]
  /\ local' = [local EXCEPT ![t] = NoLocal]
  /\ active' = active \ { WorkOf(t) }

\* fail_delivery: job and work fail in one transaction.
FailDelivery(w, attempts) ==
  /\ Transition(w, "failed")
  /\ job' = [job EXCEPT ![w].state = "failed", ![w].attempts = attempts]

\* A task that starts without looking at _active_deliveries.
ReserveUnchecked(t) ==
  /\ at[t] = "scheduled"
  /\ active' = active \cup { WorkOf(t) }
  /\ at' = [at EXCEPT ![t] = IF t[2] = "recovery" THEN "recovery" ELSE "authorization"]
  /\ UNCHANGED <<local, workVars, gateVars, job, quarantined, api, recoveryFailed,
                 remoteVars, crashes, dbErrors>>

\* The process-local reservation, taken before the first await.
Reserve(t) ==
  /\ at[t] = "scheduled"
  /\ IF WorkOf(t) \in active
     THEN Advance(t, "idle")
     ELSE /\ active' = active \cup { WorkOf(t) }
          /\ at' = [at EXCEPT ![t] = IF t[2] = "recovery" THEN "recovery" ELSE "authorization"]
          /\ UNCHANGED local
  /\ UNCHANGED <<workVars, gateVars, job, quarantined, api, recoveryFailed, remoteVars,
                 crashes, dbErrors>>

\* Recovery re-arms a job that a dead process left running.
Rearm(t) ==
  LET w == WorkOf(t) IN
  /\ at[t] = "recovery"
  /\ ~WorkerLocked(Assigned[w])
  /\ IF Deliverable(w, LiveJob)
     THEN /\ Advance(t, "authorization")
          /\ job' = [job EXCEPT ![w].state = IF @ = "running" THEN "retry" ELSE @]
     ELSE Return(t) /\ UNCHANGED job
  /\ UNCHANGED <<workVars, gateVars, quarantined, api, recoveryFailed, remoteVars,
                 crashes, dbErrors>>

\* First transaction: the job becomes running and the approval is checked.
Start(t) ==
  LET w == WorkOf(t)
      attempt == job[w].attempts + 1
  IN
  /\ at[t] = "authorization"
  /\ ~WorkerLocked(Assigned[w])
  /\ IF ~Deliverable(w, { "pending", "retry" })
     THEN Return(t) /\ UNCHANGED <<status, version, job>>
     ELSE IF Authorized(w)
     THEN /\ job' = [job EXCEPT ![w].state = "running", ![w].attempts = attempt]
          /\ at' = [at EXCEPT ![t] = "bundle"]
          /\ local' = [local EXCEPT ![t] = [authority |-> job[w].approval,
                                            attempt |-> attempt, content |-> None]]
          /\ UNCHANGED <<status, version, active>>
     ELSE FailDelivery(w, attempt) /\ Return(t)
  /\ UNCHANGED <<row, file, upload, gateVars, quarantined, api, recoveryFailed,
                 remoteVars, crashes, dbErrors>>

\* verified_bundle_bytes: the shared file's bytes, if they hash to the approved digest.
VerifiedBytes(w, digest) == IF file[w] = digest THEN file[w] ELSE None

ReadBundle(t) ==
  LET content == VerifiedBytes(WorkOf(t), local[t].authority.digest) IN
  /\ at[t] = "bundle"
  /\ at' = [at EXCEPT ![t] = IF content = None THEN "failing" ELSE "token"]
  /\ local' = [local EXCEPT ![t].content = content]
  /\ UNCHANGED <<workVars, gateVars, job, quarantined, api, recoveryFailed, active,
                 remoteVars, crashes, dbErrors>>

\* guard_delivery_write: take the locks, check again, and only then let the
\* external write start.  A denied check fails or stops the attempt.
TakeGuard(t) ==
  LET w == WorkOf(t)
      write == [ stage \in { "token", "push", "pull_request" } |->
                   CASE stage = "token" -> "token_write"
                     [] stage = "push" -> "push_write"
                     [] OTHER -> "pull_request_write" ]
  IN
  /\ at[t] \in DOMAIN write
  /\ ~WorkerLocked(Assigned[w])
  /\ IF ~Deliverable(w, { "running" })
     THEN Return(t) /\ UNCHANGED inflight
     ELSE IF Authorized(w) /\ job[w].approval = local[t].authority
     THEN /\ Advance(t, write[at[t]])
          /\ inflight' = IF at[t] = "token" THEN inflight
                         ELSE inflight \cup { [work |-> w, kind |-> at[t],
                                               digest |-> local[t].content,
                                               attempt |-> local[t].attempt] }
     ELSE Advance(t, "failing") /\ UNCHANGED inflight
  /\ UNCHANGED <<workVars, gateVars, job, quarantined, api, recoveryFailed, branch, pr,
                 crashes, dbErrors>>

\* The 45 second deadline, which covers the wait for the locks too.  A request
\* already sent may still be accepted afterwards.
GuardTimeout(t) ==
  /\ \/ at[t] \in WriteStages
     \/ at[t] \in { "token", "push", "pull_request" } /\ WorkerLocked(Assigned[WorkOf(t)])
  /\ Advance(t, "failing")
  /\ UNCHANGED <<workVars, gateVars, job, quarantined, api, recoveryFailed, remoteVars,
                 crashes, dbErrors>>

\* The installation token arrives.
ReceiveToken(t) ==
  /\ at[t] = "token_write"
  /\ Advance(t, "existing_pull_request")
  /\ UNCHANGED <<workVars, gateVars, job, quarantined, api, recoveryFailed, remoteVars,
                 crashes, dbErrors>>

\* find_pull_request that asks for open pull requests only, the API's default.
FoundOpenPullRequest(w) == pr[w].open

\* find_pull_request asks for pull requests in every state, closed ones included.
FoundPullRequest(w) == pr[w].opened > 0

LookupPullRequest(t) ==
  /\ at[t] = "existing_pull_request"
  /\ Advance(t, IF FoundPullRequest(WorkOf(t)) THEN "finalize" ELSE "existing_branch")
  /\ UNCHANGED <<workVars, gateVars, job, quarantined, api, recoveryFailed, remoteVars,
                 crashes, dbErrors>>

\* An attempt that takes an existing branch for a finished delivery.
LookupBranchFinishes(t) ==
  /\ at[t] = "existing_branch"
  /\ Advance(t, IF branch[WorkOf(t)] # None THEN "finalize" ELSE "workspace")
  /\ UNCHANGED <<workVars, gateVars, job, quarantined, api, recoveryFailed, remoteVars,
                 crashes, dbErrors>>

LookupBranch(t) ==
  /\ at[t] = "existing_branch"
  /\ Advance(t, IF branch[WorkOf(t)] # None THEN "pull_request" ELSE "workspace")
  /\ UNCHANGED <<workVars, gateVars, job, quarantined, api, recoveryFailed, remoteVars,
                 crashes, dbErrors>>

\* Clone, apply the private snapshot, commit.
PrepareCommit(t) ==
  /\ at[t] = "workspace"
  /\ Advance(t, "push")
  /\ UNCHANGED <<workVars, gateVars, job, quarantined, api, recoveryFailed, remoteVars,
                 crashes, dbErrors>>

\* Any unguarded remote call or git command can fail; the attempt then fails.
StageFails(t) ==
  /\ at[t] \in { "existing_pull_request", "existing_branch", "workspace" }
  /\ Advance(t, "failing")
  /\ UNCHANGED <<workVars, gateVars, job, quarantined, api, recoveryFailed, remoteVars,
                 crashes, dbErrors>>

\* Last transaction: approval checked once more, then pr_created, completed and the job.
Finalize(t) ==
  LET w == WorkOf(t) IN
  /\ at[t] = "finalize"
  /\ ~WorkerLocked(Assigned[w])
  /\ IF ~Deliverable(w, { "running" })
     THEN Return(t) /\ UNCHANGED <<status, version, job>>
     ELSE IF Authorized(w) /\ job[w].approval = local[t].authority
     THEN /\ status' = [status EXCEPT ![w] = "completed"]
          /\ version' = [version EXCEPT ![w] = @ + 2]
          /\ job' = [job EXCEPT ![w].state = "completed"]
          /\ Return(t)
     ELSE Advance(t, "failing") /\ UNCHANGED <<status, version, job>>
  /\ UNCHANGED <<row, file, upload, gateVars, quarantined, api, recoveryFailed,
                 remoteVars, crashes, dbErrors>>

\* The except clause: fail the work, unless it no longer permits publication.
RecordFailure(t) ==
  LET w == WorkOf(t) IN
  /\ at[t] = "failing"
  /\ ~WorkerLocked(Assigned[w])
  /\ IF Deliverable(w, { "running" })
     THEN FailDelivery(w, job[w].attempts)
     ELSE UNCHANGED <<status, version, job>>
  /\ Return(t)
  /\ UNCHANGED <<row, file, upload, gateVars, quarantined, api, recoveryFailed,
                 remoteVars, crashes, dbErrors>>

\* SQLAlchemyError: the transaction rolled back and the task ends, leaving the job
\* as it is.  A recovery task also gives up when it waits 2 seconds for a lock.
PersistenceError(t) ==
  /\ \/ /\ at[t] \in { "recovery", "authorization", "token", "push", "pull_request",
                       "finalize", "failing" }
        /\ dbErrors < MaxDbErrors
        /\ dbErrors' = dbErrors + 1
     \/ /\ at[t] = "recovery"
        /\ WorkerLocked(Assigned[WorkOf(t)])
        /\ UNCHANGED dbErrors
  /\ Return(t)
  /\ recoveryFailed' = (recoveryFailed \/ t[2] = "recovery")
  /\ UNCHANGED <<workVars, gateVars, job, quarantined, api, remoteVars, crashes>>

-----------------------------------------------------------------------------
(* The remote host.  Its answer to a write reaches the task that sent it   *)
(* only if that task still waits for it.                                   *)

Waiting(t, m) ==
  /\ WorkOf(t) = m.work
  /\ local[t].attempt = m.attempt
  /\ at[t] = IF m.kind = "push" THEN "push_write" ELSE "pull_request_write"

Answer(m, stage) ==
  at' = [t \in Tasks |-> IF Waiting(t, m) THEN stage ELSE at[t]]

\* git push creates the branch; it is not a force push.
AcceptPush(m) ==
  /\ m.kind = "push"
  /\ branch[m.work] = None
  /\ branch' = [branch EXCEPT ![m.work] = m.digest]
  /\ Answer(m, "pull_request")
  /\ UNCHANGED pr

\* The host refuses a second open pull request for a branch, and one without a branch.
AcceptPullRequest(m) ==
  /\ m.kind = "pull_request"
  /\ branch[m.work] # None
  /\ ~pr[m.work].open
  /\ pr' = [pr EXCEPT ![m.work] = [opened |-> @.opened + 1, open |-> TRUE,
                                   digest |-> branch[m.work]]]
  /\ Answer(m, "finalize")
  /\ UNCHANGED branch

\* A refused write, or one lost on the way.
RefuseWrite(m) ==
  /\ Answer(m, "failing")
  /\ UNCHANGED <<branch, pr>>

RemoteStep ==
  \E m \in inflight :
    /\ inflight' = inflight \ { m }
    /\ AcceptPush(m) \/ AcceptPullRequest(m) \/ RefuseWrite(m)
    /\ UNCHANGED <<workVars, gateVars, job, quarantined, api, recoveryFailed, active,
                   local, crashes, dbErrors>>

\* A maintainer merges or closes the pull request, and may delete the branch.  Bound:
\* not within the seconds during which an attempt or a stray request is under way.
ClosePullRequest(w) ==
  /\ pr[w].open
  /\ w \notin active
  /\ \A m \in inflight : m.work # w
  /\ pr' = [pr EXCEPT ![w].open = FALSE]
  /\ \E kept \in { branch[w], None } : branch' = [branch EXCEPT ![w] = kept]
  /\ UNCHANGED <<workVars, gateVars, job, quarantined, api, recoveryFailed, taskVars,
                 inflight, crashes, dbErrors>>

-----------------------------------------------------------------------------
(* The API process.                                                        *)

\* The process dies: tasks, the active set and open transactions are gone (an
\* upload rolls back and leaves its file behind); sent writes are not recalled.
Crash ==
  /\ Up
  /\ crashes < MaxCrashes
  /\ crashes' = crashes + 1
  /\ api' = "down"
  /\ recoveryFailed' = FALSE
  /\ upload' = [w \in Works |-> None]
  /\ active' = {}
  /\ at' = [t \in Tasks |-> "idle"]
  /\ local' = [t \in Tasks |-> NoLocal]
  /\ UNCHANGED <<status, version, row, file, gateVars, job, quarantined, remoteVars, dbErrors>>

Restart ==
  /\ api = "down"
  /\ api' = "scanning"
  /\ UNCHANGED <<workVars, gateVars, job, quarantined, recoveryFailed, taskVars,
                 remoteVars, crashes, dbErrors>>

\* A recovery scan that skips the jobs the dead process left running.
ScannedPendingOnly(w) == job[w].state \in { "pending", "retry" }
Scanned(w) == job[w].state \in LiveJob

\* resume_pending_deliveries: one recovery task per unfinished job.
ScanJobs ==
  /\ api = "scanning"
  /\ api' = "recovering"
  /\ recoveryFailed' = FALSE
  /\ at' = [t \in Tasks |-> IF t[2] = "recovery" /\ Scanned(WorkOf(t))
                            THEN "scheduled" ELSE at[t]]
  /\ UNCHANGED <<workVars, gateVars, job, quarantined, active, local, remoteVars,
                 crashes, dbErrors>>

\* A supervisor that ignores the errors gather collected.
JoinRecoveryOnce ==
  /\ api = "recovering"
  /\ \A w \in Works : at[<<w, "recovery">>] = "idle"
  /\ api' = "done"
  /\ UNCHANGED <<workVars, gateVars, job, quarantined, recoveryFailed, taskVars,
                 remoteVars, crashes, dbErrors>>

\* gather returns; recover_startup_deliveries scans again after an error, else it is done.
JoinRecovery ==
  /\ api = "recovering"
  /\ \A w \in Works : at[<<w, "recovery">>] = "idle"
  /\ api' = IF recoveryFailed THEN "scanning" ELSE "done"
  /\ UNCHANGED <<workVars, gateVars, job, quarantined, recoveryFailed, taskVars,
                 remoteVars, crashes, dbErrors>>

-----------------------------------------------------------------------------
TaskStep(t) ==
  \/ Reserve(t) \/ Rearm(t) \/ Start(t) \/ ReadBundle(t)
  \/ TakeGuard(t) \/ GuardTimeout(t) \/ ReceiveToken(t)
  \/ LookupPullRequest(t) \/ LookupBranch(t) \/ PrepareCommit(t) \/ StageFails(t)
  \/ Finalize(t) \/ RecordFailure(t) \/ PersistenceError(t)

GateStep(w) ==
  \/ WorkerTransition(w) \/ (\E d \in Digests : WriteBundleFile(w, d)) \/ CommitBundle(w)
  \/ Review(w) \/ SendBack(w) \/ Approve(w) \/ ClosePullRequest(w)

Next ==
  \/ \E w \in Works : GateStep(w)
  \/ \E k \in Workers : Quarantine(k)
  \/ \E t \in Tasks : TaskStep(t)
  \/ RemoteStep
  \/ Crash \/ Restart \/ ScanJobs \/ JoinRecovery

Spec == Init /\ [][Next]_vars

\* The event loop of a running API runs every task and its startup recovery.  Nothing
\* restarts a dead API by itself, and people, runners and the remote host owe nothing;
\* an unanswered write ends in GuardTimeout.
Fairness ==
  /\ \A t \in Tasks : WF_vars(TaskStep(t))
  /\ \A w \in Works : WF_vars(CommitBundle(w))
  /\ WF_vars(ScanJobs) /\ WF_vars(JoinRecovery)

FairSpec == Spec /\ Fairness

-----------------------------------------------------------------------------
(* Invariants.                                                             *)

\* Every variable stays in its domain; an audit record, once cited by a job, is one
\* of the recorded approvals.
TypeOK ==
  /\ status \in [Works -> WorkStatus]
  /\ version \in [Works -> Nat]
  /\ row \in [Works -> Digests \cup { None }]
  /\ file \in [Works -> Digests \cup { None }]
  /\ upload \in [Works -> Digests \cup { None }]
  /\ reviewed \in [Works -> Nat \cup { None }]
  /\ audits \subseteq AuditRecord
  /\ job \in [Works -> [state : JobStates, approval : audits \cup { None }, attempts : Nat]]
  /\ quarantined \in [Workers -> BOOLEAN]
  /\ api \in { "down", "scanning", "recovering", "done" }
  /\ recoveryFailed \in BOOLEAN
  /\ active \subseteq Works
  /\ at \in [Tasks -> Stages]
  /\ local \in [Tasks -> [authority : audits \cup { None }, attempt : Nat,
                          content : Digests \cup { None }]]
  /\ branch \in [Works -> Digests \cup { None }]
  /\ pr \in [Works -> [opened : Nat, open : BOOLEAN, digest : Digests \cup { None }]]
  /\ inflight \subseteq Message
  /\ crashes \in 0..MaxCrashes
  /\ dbErrors \in 0..MaxDbErrors

\* From the approval until delivery ends, the job cites an approval of exactly the
\* current version and bundle row, and the bytes on disk are the approved ones: no
\* upload, crash or later decision slips between approval and publication
\* (delivery_authority, validate_delivery_ready, the upload handler's locks).
ApprovedBytesStay ==
  \A w \in Works : status[w] = "committing" =>
    /\ Authorized(w)
    /\ file[w] = row[w]

\* While the remote host works on an external write, the work is still committing,
\* its worker is not quarantined and the approval that let the write start still
\* holds: the guard's locks keep quarantine and worker reports out
\* (guard_delivery_write, quarantine_worker).
GuardedWriteHolds ==
  \A t \in Tasks : at[t] \in WriteStages =>
    /\ Deliverable(WorkOf(t), { "running" })
    /\ Authorized(WorkOf(t))
    /\ job[WorkOf(t)].approval = local[t].authority

\* A running job belongs to the attempt that is executing it: startup recovery never
\* re-arms a job under a live attempt, which would count it twice and let one attempt
\* fail the work the other is about to complete (_active_deliveries).
AttemptOwnsItsJob ==
  \A t \in Tasks :
    /\ at[t] \in Stages \ { "idle", "scheduled", "recovery", "authorization" }
    /\ job[WorkOf(t)].state \in LiveJob
    => job[WorkOf(t)].state = "running" /\ job[WorkOf(t)].attempts = local[t].attempt

\* However often delivery is interrupted, late writes land and maintainers close what
\* was opened, a work item gets at most one pull request (find_pull_request,
\* branch_exists; "without creating duplicate PRs" in architecture.md).
AtMostOnePullRequest == \A w \in Works : pr[w].opened <= 1

\* An approved delivery is lost by nobody but a database error: once recovery is done,
\* a committing work has a task that will deliver it (recover_startup_deliveries).
Orphaned(w) ==
  /\ api = "done"
  /\ status[w] = "committing"
  /\ at[<<w, "request">>] = "idle" /\ at[<<w, "recovery">>] = "idle"
OnlyDatabaseErrorsOrphan == dbErrors = 0 => \A w \in Works : ~Orphaned(w)

-----------------------------------------------------------------------------
(* Action properties and liveness.                                         *)

\* A terminal outcome is final, whichever late task, answer or recovery comes after it
\* (DeliveryStopped: "do not overwrite its current outcome").
OutcomeIsFinal ==
  [][\A w \in Works : status[w] \in TerminalWork => status'[w] = status[w]
                                                   /\ version'[w] = version[w]]_vars

\* A decision takes effect only on the version the approver looked at
\* (architecture.md: a transition supplies its expected version).
DecisionOnReviewedVersion ==
  [][\A a \in audits' \ audits : reviewed[a.work] + 1 = a.version]_vars

\* An operator starts the API again each time it dies, and at some point it stays up.
StaysUp == <>[]Up

\* Without database errors every approved delivery ends, whatever crashes and remote
\* failures it meets, once the API stays up (recover_startup_deliveries).
ApprovalSettles ==
  StaysUp /\ [](dbErrors = 0) => \A w \in Works : status[w] = "committing" ~> status[w] # "committing"

\* Database errors may orphan a delivery, but a start of the API settles every one it
\* finds without a task, repeating its scan after errors.  (An approval accepted during
\* the scan has its own task, which recovery leaves alone, errors included.)
LeftBehind(w) ==
  api = "scanning" /\ status[w] = "committing" /\ at[<<w, "request">>] = "idle"
RestartSettles ==
  StaysUp => \A w \in Works : LeftBehind(w) ~> status[w] # "committing"

-----------------------------------------------------------------------------
(* What the gate promises: see module Publication.                         *)

ApprovedDigest(w) ==
  IF \E a \in audits : a.work = w THEN (CHOOSE a \in audits : a.work = w).digest ELSE None

Gate == INSTANCE Publication WITH
  decision  <- [w \in Works |-> ApprovedDigest(w)],
  published <- [w \in Works |-> pr[w].digest],
  outcome   <- [w \in Works |-> IF status[w] = "completed" THEN "succeeded"
                                ELSE IF status[w] \in TerminalWork THEN "ended" ELSE "open"]

PublishesWhatWasApproved == Gate!Spec
=============================================================================
