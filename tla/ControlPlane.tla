---------------------------- MODULE ControlPlane ----------------------------
(***************************************************************************)
(* The control plane's transactions over many work items and workers:      *)
(* service.py, worker_transitions.py, worker_leases.py,                    *)
(* worker_quarantine.py and the handlers of main.py that call them.        *)
(*                                                                         *)
(* Every handler locks the rows it decides on (worker, lease, work, job)   *)
(* before it reads them and commits at its end, so each is one action.  A  *)
(* request with a stale version or a wrong token changes nothing and is    *)
(* not an action.  Central delivery appears through its transactions only; *)
(* module Delivery has its steps.                                          *)
(***************************************************************************)
EXTENDS WorkStates, FiniteSets

CONSTANTS
  Works, Workers,
  None,
  Capacity,        \* Capacity[k]: the runs worker k has room for when idle
  TrustedReports,  \* whether heartbeats agree with the control plane's own accounting
  MaxVersion       \* bound: people and runners act only below this version

ASSUME NoneAssumption == None \notin Workers
ASSUME CapacityAssumption == Capacity \in [Workers -> Nat]
ASSUME ReportsAssumption == TrustedReports \in BOOLEAN
ASSUME MaxVersionAssumption == MaxVersion \in Nat

VARIABLES
  items,            \* works that were submitted
  status, version,  \* WorkItem.status, WorkItem.version
  assigned,         \* WorkItem.assigned_worker_id
  lease,            \* the ResourceLease of a work: at most one ever (unique column)
  host,             \* WorkerHost: state, free room, active_runs, label, quarantined_at
  job,              \* DeliveryJob.state
  approval,         \* the last pull-request decision in the audit log
  reconciled        \* works whose lease has a lease.reconciled audit record

workVars == <<items, status, version>>
vars == <<workVars, assigned, lease, host, job, approval, reconciled>>

HostStates == { "absent", "online", "draining", "offline" }
LeaseStates == { "none", "active", "released", "quarantined" }
LiveJob == { "pending", "retry", "running" }
JobStates == LiveJob \cup { "absent", "completed", "failed", "quarantined" }

LeaseRecord == [state : LeaseStates, worker : Workers \cup { None }, expired : BOOLEAN]
HostRecord ==
  [state : HostStates, free : Nat, runs : Nat, mock : BOOLEAN, quarantined : BOOLEAN]

NoLease == [state |-> "none", worker |-> None, expired |-> FALSE]
NoDecision == [decision |-> "none", version |-> 0, queued |-> FALSE]
UnknownHost ==
  [state |-> "absent", free |-> 0, runs |-> 0, mock |-> FALSE, quarantined |-> FALSE]

Init ==
  /\ items = {}
  /\ status = [w \in Works |-> "queued"]
  /\ version = [w \in Works |-> 1]
  /\ assigned = [w \in Works |-> None]
  /\ lease = [w \in Works |-> NoLease]
  /\ host = [k \in Workers |-> UnknownHost]
  /\ job = [w \in Works |-> "absent"]
  /\ approval = [w \in Works |-> NoDecision]
  /\ reconciled = {}

-----------------------------------------------------------------------------
(* Shared checks and updates.                                              *)

\* transition_work_item: the graph decides and the version moves by one.
Transition(w, target) ==
  /\ target \in AllowedTransitions[status[w]]
  /\ status' = [status EXCEPT ![w] = target]
  /\ version' = [version EXCEPT ![w] = @ + 1]
  /\ UNCHANGED items

Registered(k) == host[k].state # "absent"

\* ensure_worker_not_quarantined
NotFenced(w) == \A k \in Workers : assigned[w] = k => ~host[k].quarantined

\* validate_lease
LeaseValid(w) ==
  /\ lease[w].state = "active"
  /\ ~lease[w].expired
  /\ ~host[lease[w].worker].quarantined

\* return_lease_resources: capped by the total, never below zero runs.
ReturnResources(k) ==
  [host[k] EXCEPT !.free = IF @ + 1 > Capacity[k] THEN Capacity[k] ELSE @ + 1,
                  !.runs = IF @ = 0 THEN 0 ELSE @ - 1]

\* The worker's label alone as authority for completing a run.
MockByLabel(w) == host[assigned[w]].mock

\* authorize_worker_transition: a mock run may complete without central delivery, and
\* only what its last recorded decision approved at exactly this version.
MockAuthority(w) ==
  /\ host[assigned[w]].mock
  /\ job[w] = "absent"
  /\ approval[w].decision = "approve"
  /\ ~approval[w].queued
  /\ approval[w].version = IF status[w] = "pr_created" THEN version[w] - 1 ELSE version[w]

-----------------------------------------------------------------------------
(* Submitting, claiming and reporting.                                     *)

\* submit_work, github_webhook
Submit(w) ==
  /\ w \notin items
  /\ items' = items \cup { w }
  /\ UNCHANGED <<status, version, assigned, lease, host, job, approval, reconciled>>

\* cancel_queued_work: only work that never had a worker.
Cancel(w) ==
  /\ w \in items
  /\ status[w] = "queued"
  /\ assigned[w] = None
  /\ lease[w].state = "none"
  /\ Transition(w, "cancelled")
  /\ UNCHANGED <<assigned, lease, host, job, approval, reconciled>>

\* A known worker keeps its accounting and gets the label it sent.
RegisteredHost(k, mock) ==
  IF Registered(k)
  THEN [host[k] EXCEPT !.mock = mock,
                       !.state = IF host[k].state = "offline" THEN "online" ELSE host[k].state]
  ELSE [state |-> "online", free |-> Capacity[k], runs |-> 0, mock |-> mock,
        quarantined |-> FALSE]

\* register_worker
Register(k, mock) ==
  /\ ~host[k].quarantined
  /\ host' = [host EXCEPT ![k] = RegisteredHost(k, mock)]
  /\ UNCHANGED <<workVars, assigned, lease, job, approval, reconciled>>

\* A heartbeat that is taken from anybody.
HeartbeatUnfenced(k, state, free, runs) ==
  /\ Registered(k)
  /\ host' = [host EXCEPT ![k].state = state, ![k].free = free, ![k].runs = runs]
  /\ UNCHANGED <<workVars, assigned, lease, job, approval, reconciled>>

\* worker_heartbeat overwrites state and accounting with what the worker reports.
Heartbeat(k, state, free, runs) ==
  /\ Registered(k)
  /\ ~host[k].quarantined
  /\ host' = [host EXCEPT ![k].state = state, ![k].free = free, ![k].runs = runs]
  /\ UNCHANGED <<workVars, assigned, lease, job, approval, reconciled>>

Report(k) ==
  \E state \in HostStates \ { "absent" } :
    IF TrustedReports THEN Heartbeat(k, state, host[k].free, host[k].runs)
    ELSE \E free \in 0..Capacity[k], runs \in 0..Capacity[k] : Heartbeat(k, state, free, runs)

\* A claim that leaves the assignment to a later update.
ClaimUnassigned(k, w) ==
  /\ host[k].state = "online"
  /\ ~host[k].quarantined
  /\ host[k].free >= 1
  /\ w \in items
  /\ status[w] = "queued"
  /\ Transition(w, "provisioning")
  /\ lease' = [lease EXCEPT ![w] = [state |-> "active", worker |-> k, expired |-> FALSE]]
  /\ host' = [host EXCEPT ![k].free = @ - 1, ![k].runs = @ + 1]
  /\ UNCHANGED <<assigned, job, approval, reconciled>>

\* claim_next_work.  Which queued work a claim gets depends on the row locks others
\* hold (skip_locked): any.
Claim(k, w) ==
  /\ host[k].state = "online"
  /\ ~host[k].quarantined
  /\ host[k].free >= 1
  /\ w \in items
  /\ status[w] = "queued"
  /\ assigned' = [assigned EXCEPT ![w] = k]
  /\ Transition(w, "provisioning")
  /\ lease' = [lease EXCEPT ![w] = [state |-> "active", worker |-> k, expired |-> FALSE]]
  /\ host' = [host EXCEPT ![k].free = @ - 1, ![k].runs = @ + 1]
  /\ UNCHANGED <<job, approval, reconciled>>

\* lease_seconds pass without a call that renews the lease.
LeaseExpires(w) ==
  /\ lease[w].state = "active"
  /\ ~lease[w].expired
  /\ lease' = [lease EXCEPT ![w].expired = TRUE]
  /\ UNCHANGED <<workVars, assigned, host, job, approval, reconciled>>

\* worker_transition
WorkerTransition(w, target) ==
  /\ LeaseValid(w)
  /\ version[w] < MaxVersion
  /\ assigned[w] = lease[w].worker
  /\ target \in WorkerTransitions[status[w]]
  /\ target \in MockOnly => MockAuthority(w)
  /\ Transition(w, target)
  /\ UNCHANGED <<assigned, lease, host, job, approval, reconciled>>

-----------------------------------------------------------------------------
(* Decisions of people.                                                    *)

\* add_feedback and the Slack command, when they resume the work.
Feedback(w) ==
  /\ version[w] < MaxVersion
  /\ NotFenced(w)
  /\ status[w] \in ResumedByFeedback
  /\ Transition(w, "implementing")
  /\ UNCHANGED <<assigned, lease, host, job, approval, reconciled>>

\* decide_approval on a budget: work that ran out of budget goes on.
ExtendBudget(w) ==
  /\ version[w] < MaxVersion
  /\ NotFenced(w)
  /\ status[w] = "budget_exhausted"
  /\ Transition(w, "implementing")
  /\ UNCHANGED <<assigned, lease, host, job, approval, reconciled>>

\* decide_approval (and the Slack command): central delivery is queued unless the
\* worker is labelled as a mock at that moment.
Approve(w) ==
  /\ version[w] < MaxVersion
  /\ NotFenced(w)
  /\ status[w] = "awaiting_approval"
  /\ Transition(w, "committing")
  /\ LET queued == ~host[assigned[w]].mock IN
     /\ approval' = [approval EXCEPT ![w] =
                       [decision |-> "approve", version |-> version[w] + 1, queued |-> queued]]
     /\ job' = [job EXCEPT ![w] = IF ~queued \/ @ = "completed" THEN @
                                  ELSE IF @ = "absent" THEN "pending" ELSE "retry"]
  /\ UNCHANGED <<assigned, lease, host, reconciled>>

Reject(w) ==
  /\ version[w] < MaxVersion
  /\ NotFenced(w)
  /\ status[w] = "awaiting_approval"
  /\ Transition(w, "implementing")
  /\ approval' = [approval EXCEPT ![w] =
                    [decision |-> "reject", version |-> version[w] + 1, queued |-> FALSE]]
  /\ UNCHANGED <<assigned, lease, host, job, reconciled>>

-----------------------------------------------------------------------------
(* Central delivery, by its transactions.                                  *)

\* lock_delivery
Deliverable(w, states) ==
  /\ assigned[w] # None
  /\ ~host[assigned[w]].quarantined
  /\ status[w] = "committing"
  /\ job[w] \in states

\* delivery_authority (its bundle part is in module Delivery)
Authorized(w) ==
  /\ approval[w].decision = "approve"
  /\ approval[w].queued
  /\ approval[w].version = version[w]

StartDelivery(w) ==
  /\ Deliverable(w, { "pending", "retry" })
  /\ Authorized(w)
  /\ job' = [job EXCEPT ![w] = "running"]
  /\ UNCHANGED <<workVars, assigned, lease, host, approval, reconciled>>

\* Recovery after a restart of the API.
RearmDelivery(w) ==
  /\ Deliverable(w, { "running" })
  /\ job' = [job EXCEPT ![w] = "retry"]
  /\ UNCHANGED <<workVars, assigned, lease, host, approval, reconciled>>

\* The last transaction: pr_created and completed at once.
FinishDelivery(w) ==
  /\ Deliverable(w, { "running" })
  /\ Authorized(w)
  /\ status' = [status EXCEPT ![w] = "completed"]
  /\ version' = [version EXCEPT ![w] = @ + 2]
  /\ job' = [job EXCEPT ![w] = "completed"]
  /\ UNCHANGED <<items, assigned, lease, host, approval, reconciled>>

FailDelivery(w) ==
  /\ Deliverable(w, LiveJob)
  /\ Transition(w, "failed")
  /\ job' = [job EXCEPT ![w] = "failed"]
  /\ UNCHANGED <<assigned, lease, host, approval, reconciled>>

-----------------------------------------------------------------------------
(* Returning and fencing a worker's resources.                             *)

\* A release that any holder of the lease may ask for.
ReleaseAnyTime(w) ==
  /\ LeaseValid(w)
  /\ host' = [host EXCEPT ![lease[w].worker] = ReturnResources(lease[w].worker)]
  /\ lease' = [lease EXCEPT ![w].state = "released"]
  /\ UNCHANGED <<workVars, assigned, job, approval, reconciled>>

\* release_run
Release(w) ==
  /\ LeaseValid(w)
  /\ status[w] \in TerminalWork
  /\ host' = [host EXCEPT ![lease[w].worker] = ReturnResources(lease[w].worker)]
  /\ lease' = [lease EXCEPT ![w].state = "released"]
  /\ UNCHANGED <<workVars, assigned, job, approval, reconciled>>

\* A reconciliation that never looks at the delivery job.
DeliverySettledUnchecked(w) == w \in items

\* Delivery of the work has finished or was never needed.
DeliverySettled(w) == job[w] \in { "absent", "completed", "failed" }

\* A reconciliation that returns the resources of every lease it is asked about.
ReconciledHostAlways(w) ==
  [host EXCEPT ![lease[w].worker] = ReturnResources(lease[w].worker)]

\* Reconciliation returns capacity only if no release did.
ReconciledHost(w) ==
  IF lease[w].state = "active"
  THEN [host EXCEPT ![lease[w].worker] = ReturnResources(lease[w].worker)]
  ELSE host

\* reconcile_terminal_lease: the worker, after a restart, declares the run cleaned up.
\* Expired leases qualify; a repeated call changes nothing.
Reconcile(w) ==
  /\ lease[w].state \in { "active", "released" }
  /\ ~host[lease[w].worker].quarantined
  /\ assigned[w] = lease[w].worker
  /\ status[w] \in TerminalWork
  /\ DeliverySettled(w)
  /\ w \notin reconciled
  /\ host' = ReconciledHost(w)
  /\ lease' = [lease EXCEPT ![w].state = "released"]
  /\ reconciled' = reconciled \cup { w }
  /\ UNCHANGED <<workVars, assigned, job, approval>>

\* Quarantine that stops only the delivery it finds running.
FencedRunningJob(w) == IF job[w] = "running" THEN "quarantined" ELSE job[w]

\* Quarantine blocks every unfinished delivery.
FencedJob(w) == IF job[w] \in LiveJob THEN "quarantined" ELSE job[w]

\* Reservations stay held: revocation does not prove that a VM has stopped.
RevokedHost(k) == [host[k] EXCEPT !.quarantined = TRUE, !.state = "offline"]

\* quarantine_worker: one transaction over the worker, its leases, jobs and works.
Quarantine(k) ==
  /\ Registered(k)
  /\ ~host[k].quarantined
  /\ host' = [host EXCEPT ![k] = RevokedHost(k)]
  /\ lease' = [w \in Works |->
                 IF lease[w].worker = k /\ lease[w].state = "active"
                 THEN [state |-> "quarantined", worker |-> k, expired |-> TRUE]
                 ELSE lease[w]]
  /\ job' = [w \in Works |-> IF assigned[w] = k THEN FencedJob(w) ELSE job[w]]
  /\ LET stopped == { w \in Works : assigned[w] = k /\ status[w] \notin TerminalWork } IN
     /\ status' = [w \in Works |-> IF w \in stopped THEN QuarantineOutcome(status[w])
                                   ELSE status[w]]
     /\ version' = [w \in Works |-> IF w \in stopped THEN version[w] + 1 ELSE version[w]]
  /\ UNCHANGED <<items, assigned, approval, reconciled>>
-----------------------------------------------------------------------------
PeopleStep(w) ==
  Submit(w) \/ Cancel(w) \/ Feedback(w) \/ ExtendBudget(w) \/ Approve(w) \/ Reject(w)
DeliveryStep(w) == StartDelivery(w) \/ RearmDelivery(w) \/ FinishDelivery(w) \/ FailDelivery(w)
LeaseStep(w) == LeaseExpires(w) \/ Release(w) \/ Reconcile(w)

Next ==
  \/ \E w \in Works : PeopleStep(w) \/ DeliveryStep(w) \/ LeaseStep(w)
  \/ \E w \in Works, target \in WorkStatus : WorkerTransition(w, target)
  \/ \E k \in Workers, w \in Works : Claim(k, w)
  \/ \E k \in Workers : Report(k) \/ Quarantine(k) \/ \E mock \in BOOLEAN : Register(k, mock)

Spec == Init /\ [][Next]_vars

-----------------------------------------------------------------------------
(* Invariants.                                                             *)

\* Every variable stays in its domain; active_runs in particular never goes negative,
\* whatever a worker reported before its leases are returned.
TypeOK ==
  /\ items \subseteq Works
  /\ status \in [Works -> WorkStatus]
  /\ version \in [Works -> Nat]
  /\ assigned \in [Works -> Workers \cup { None }]
  /\ lease \in [Works -> LeaseRecord]
  /\ host \in [Workers -> HostRecord]
  /\ job \in [Works -> JobStates]
  /\ approval \in [Works -> [decision : { "none", "approve", "reject" }, version : Nat,
                             queued : BOOLEAN]]
  /\ reconciled \subseteq Works

\* The lease row and the work row agree on the worker for good: work has a lease exactly
\* when it was claimed, and only work that was never claimed is queued or cancelled by
\* an administrator (claim_next_work, cancel_queued_work, owned_lease's 409).
LeaseMatchesAssignment ==
  \A w \in Works :
    /\ lease[w].worker = assigned[w]
    /\ lease[w].state = "none" <=> assigned[w] = None
    /\ assigned[w] = None => status[w] \in { "queued", "cancelled" } /\ job[w] = "absent"
    /\ assigned[w] # None => status[w] # "queued" /\ Registered(assigned[w])

\* Capacity goes back only for finished work, and a reconciled lease never hides a
\* delivery that may still publish (release_run, reconcile_terminal_lease).
ReturnedMeansFinished ==
  /\ \A w \in Works : lease[w].state = "released" => status[w] \in TerminalWork
  /\ \A w \in reconciled : /\ lease[w].state = "released"
                           /\ job[w] \notin LiveJob \cup { "quarantined" }

\* A quarantined worker owns nothing that can still act: no active lease, no unfinished
\* delivery, no open work, and no state in which it could claim (quarantine_worker; the
\* checks of every later handler).
QuarantineFences ==
  \A k \in Workers : host[k].quarantined =>
    /\ host[k].state = "offline"
    /\ \A w \in Works : assigned[w] = k =>
         /\ lease[w].state # "active"
         /\ job[w] \notin LiveJob
         /\ status[w] \in TerminalWork

\* Work past the review gate got there by a recorded approval of exactly that version,
\* one step after it per transition; central delivery completes what was queued for it
\* and a mock run only what was not, however often the worker changes its label
\* (authorize_worker_transition, delivery_authority).
StepsSinceApproval == [ s \in { "committing", "pr_created", "completed" } |->
  CASE s = "committing" -> 0 [] s = "pr_created" -> 1 [] OTHER -> 2 ]
CompletionAuthorised ==
  \A w \in Works : status[w] \in DOMAIN StepsSinceApproval =>
    /\ approval[w].decision = "approve"
    /\ version[w] = approval[w].version + StepsSinceApproval[status[w]]
    /\ job[w] \in IF ~approval[w].queued THEN { "absent" }
                  ELSE IF status[w] = "committing" THEN LiveJob ELSE { "completed" }

\* With truthful heartbeats the accounting is exact: each claim takes one slot and gives
\* it back once, by release or by reconciliation, in any order and however often either
\* is repeated; quarantine gives nothing back (return_lease_resources).
HeldBy(k) ==
  { w \in Works : lease[w].worker = k /\ lease[w].state \in { "active", "quarantined" } }
CapacityConserved ==
  TrustedReports => \A k \in Workers : Registered(k) =>
    /\ host[k].runs = Cardinality(HeldBy(k))
    /\ host[k].free = Capacity[k] - Cardinality(HeldBy(k))

\* Before the review gate there is no delivery job, and a work that was not submitted is
\* in its initial state.
NothingEarly ==
  \A w \in Works :
    /\ w \notin items => status[w] = "queued"
    /\ status[w] \notin { "committing", "pr_created", "completed", "failed" } =>
         job[w] = "absent"

\* The inductive invariant: what the properties above need of each other to survive
\* every transaction.
Inv ==
  /\ TypeOK
  /\ LeaseMatchesAssignment
  /\ ReturnedMeansFinished
  /\ QuarantineFences
  /\ CompletionAuthorised
  /\ NothingEarly

-----------------------------------------------------------------------------
(* Action properties.                                                      *)

\* Nothing changes a quarantined worker's reservations or what became of its work: no
\* late heartbeat, release, reconciliation, approval or delivery.
QuarantineIsFinal ==
  [][\A k \in Workers : host[k].quarantined =>
       /\ host'[k] = host[k]
       /\ \A w \in Works : assigned[w] = k =>
            lease'[w] = lease[w] /\ status'[w] = status[w]]_vars

-----------------------------------------------------------------------------
(* What the leases promise: see module Reservation.                        *)

Phase(w) ==
  IF w \notin items \/ status[w] = "queued" THEN "waiting"
  ELSE IF status[w] \in TerminalWork THEN "finished" ELSE "running"

Slot(w) ==
  CASE lease[w].state = "none"     -> "free"
    [] lease[w].state = "active"   -> "held"
    [] lease[w].state = "released" -> "returned"
    [] OTHER                       -> "kept"

Run == INSTANCE Reservation WITH
  owner <- assigned,
  phase <- [w \in Works |-> Phase(w)],
  slot  <- [w \in Works |-> Slot(w)]

KeepsReservations == Run!Spec
=============================================================================
