---------------------------- MODULE DeliveryProofs ----------------------------
(***************************************************************************)
(* Proofs about Delivery, for any works and workers, however they are      *)
(* shared out, any patches, crashes, database errors and remote delays.    *)
(***************************************************************************)
EXTENDS Delivery, TLAPS

-----------------------------------------------------------------------------
(* The inductive invariant.                                                *)

\* A task past its reservation, past its first transaction, and with its bytes in hand.
Engaged == Stages \ { "idle", "scheduled" }
Started == Engaged \ { "recovery", "authorization" }
Loaded == Started \ { "bundle", "failing" }

\* From the answer that there is no pull request to the request for one.
Publishing == { "existing_branch", "workspace", "push", "push_write", "pull_request",
                "pull_request_write" }

\* The reservation: of the tasks of a work one is engaged at a time, and the active set
\* says of which works one is; recovery tasks live between a scan and its end.
ActiveStage ==
  /\ \A t \in Tasks : at[t] \in Engaged => WorkOf(t) \in active
  /\ \A t, u \in Tasks : WorkOf(t) = WorkOf(u) /\ at[t] \in Engaged /\ at[u] \in Engaged => t = u
  /\ \A w \in active : \E t \in Tasks : WorkOf(t) = w /\ at[t] \in Engaged
  /\ \A t \in Tasks : at[t] = "recovery" => t[2] = "recovery"
  /\ \A t \in Tasks : t[2] = "recovery" /\ at[t] # "idle" => api = "recovering"
  /\ ~Up => \A t \in Tasks : at[t] = "idle"

\* The gate: a work is approved once at most, while it waits, and from then on the row, the
\* file and the job are the approval's; a fenced worker's works have an outcome.
GateStage ==
  /\ \A w \in Works : upload[w] # None =>
       status[w] \in { "verifying", "awaiting_approval" } /\ upload[w] = file[w]
  /\ \A w \in Works : status[w] # "pr_created"
  /\ \A a \in audits :
       /\ status[a.work] \in { "committing" } \cup TerminalWork
       /\ status[a.work] = "committing" => a.version = version[a.work]
       /\ row[a.work] = a.digest /\ file[a.work] = a.digest
  /\ \A a, b \in audits : a.work = b.work => a = b
  /\ \A w \in Works : job[w].state = "absent" => \A a \in audits : a.work # w
  /\ \A w \in Works : job[w].state # "absent" =>
       job[w].approval \in audits /\ job[w].approval.work = w
  /\ \A w \in Works : status[w] = "committing" => job[w].state \in LiveJob
  /\ \A w \in Works : quarantined[Assigned[w]] => status[w] \in TerminalWork

\* What a task was given stays true of its job, and its locks keep the work as it was.
AttemptStage ==
  /\ \A t \in Tasks : at[t] # "idle" => job[WorkOf(t)].state # "absent"
  /\ \A t \in Tasks : at[t] \in Started =>
       local[t].authority \in audits /\ local[t].authority.work = WorkOf(t)
  /\ \A t \in Tasks : at[t] \in Loaded => local[t].content = local[t].authority.digest
  /\ \A t \in Tasks : at[t] \in WriteStages => status[WorkOf(t)] = "committing"
  /\ AttemptOwnsItsJob

\* What reached the remote host, or is on its way, is the approved patch; while a closed
\* pull request is all there is, nobody is about to ask for another.
Approved(w, digest) == \E a \in audits : a.work = w /\ a.digest = digest
PublicationStage ==
  /\ \A m \in inflight : Approved(m.work, m.digest)
  /\ \A w \in Works : branch[w] # None => Approved(w, branch[w])
  /\ \A w \in Works : pr[w].opened > 0 => Approved(w, pr[w].digest)
  /\ \A w \in Works : pr[w].opened = 0 => pr[w].digest = None /\ ~pr[w].open
  /\ \A w \in Works : pr[w].opened > 0 /\ ~pr[w].open =>
       /\ \A m \in inflight : m.work = w => m.kind # "pull_request"
       /\ \A t \in Tasks : WorkOf(t) = w => at[t] \notin Publishing
  /\ \A t \in Tasks : at[t] = "finalize" => pr[WorkOf(t)].opened > 0
  /\ AtMostOnePullRequest

\* While the database answers: whoever a committing work's job waits for is there, will be
\* started by a scan, or has failed in a way that repeats the scan.
Attended(w) ==
  \/ api \in { "down", "scanning" }
  \/ api = "recovering" /\ recoveryFailed
  \/ \E t \in Tasks : WorkOf(t) = w /\ at[t] # "idle"
RecoveryStage ==
  dbErrors = 0 => \A w \in Works : status[w] = "committing" =>
    /\ Attended(w)
    /\ \A t \in Tasks : WorkOf(t) = w /\ at[t] = "authorization" => job[w].state # "running"
    /\ job[w].state = "running" /\ at[<<w, "request">>] = "scheduled" =>
         \E t \in Tasks : WorkOf(t) = w /\ at[t] \in Started

\* The inductive invariant.
IInv == TypeOK /\ ActiveStage /\ GateStage /\ AttemptStage /\ PublicationStage /\ RecoveryStage

-----------------------------------------------------------------------------
(* Facts about tasks and graphs.                                           *)

\* A work has two tasks.
LEMMA TaskFacts ==
  /\ \A t \in Tasks : WorkOf(t) \in Works /\ t[2] \in { "request", "recovery" }
  /\ \A t, u \in Tasks : WorkOf(t) = WorkOf(u) /\ t[2] = u[2] => t = u
  /\ \A w \in Works : /\ <<w, "request">> \in Tasks /\ WorkOf(<<w, "request">>) = w
                      /\ <<w, "recovery">> \in Tasks /\ WorkOf(<<w, "recovery">>) = w
                      /\ <<w, "request">>[2] = "request" /\ <<w, "recovery">>[2] = "recovery"
  /\ \A t \in Tasks : t = <<WorkOf(t), "request">> \/ t = <<WorkOf(t), "recovery">>
BY DEF Tasks, WorkOf

\* The gate is opened from awaiting_approval only; delivery may always fail; a quarantine
\* always finds an outcome.
LEMMA Graphs ==
  /\ \A s \in WorkStatus : AllowedTransitions[s] \subseteq WorkStatus
  /\ \A s \in WorkStatus : QuarantineOutcome(s) \in TerminalWork
  /\ \A s \in WorkStatus : WorkerTransitions[s] \subseteq WorkStatus \ { "committing" }
  /\ \A s \in TerminalWork : WorkerTransitions[s] = {}
  /\ WorkerTransitions["committing"] \ MockOnly = { "failed" }
  /\ "failed" \in AllowedTransitions["committing"]
  /\ TerminalWork \subseteq WorkStatus
BY DEF WorkStatus, TerminalWork, MockOnly, AllowedTransitions, WorkerTransitions,
   QuarantineOutcome

-----------------------------------------------------------------------------
(* What a step of a task, and an answer of the remote host, may touch.     *)

\* A task changes its own stage and locals, and the state of its own work and job.
Own(t) ==
  /\ at' = [at EXCEPT ![t] = at'[t]]
  /\ local' = [local EXCEPT ![t] = local'[t]]
  /\ UNCHANGED <<row, file, upload, gateVars, quarantined, api, branch, pr, crashes>>
  /\ \A w \in Works \ { WorkOf(t) } :
       status'[w] = status[w] /\ version'[w] = version[w] /\ job'[w] = job[w]

\* It reserves its work, returns and gives the reservation back, or goes on with it.
Flow(t) ==
  \/ Reserve(t)
  \/ at[t] \in Engaged /\ Return(t)
  \/ /\ at[t] \in Engaged
     /\ at'[t] \in Engaged \ { "recovery" }
     /\ active' = active

\* Every step of a task is confined to its own work and follows that flow.
LEMMA TaskFlow ==
  ASSUME TypeOK, NEW t \in Tasks, TaskStep(t)
  PROVE  Own(t) /\ Flow(t)
<1> USE TaskFacts DEF TypeOK, Own, Flow, Engaged, Stages, WriteStages, workVars, gateVars,
        remoteVars, taskVars
<1>1. CASE Reserve(t)
  BY <1>1 DEF Reserve, Advance
<1>2. CASE Rearm(t)
  BY <1>2 DEF Rearm, Advance, Return
<1>3. CASE Start(t)
  BY <1>3 DEF Start, Return, FailDelivery, Transition
<1>4. CASE ReadBundle(t)
  BY <1>4 DEF ReadBundle
<1>5. CASE TakeGuard(t)
  BY <1>5 DEF TakeGuard, Advance, Return
<1>6. CASE GuardTimeout(t)
  BY <1>6 DEF GuardTimeout, Advance
<1>7. CASE ReceiveToken(t) \/ LookupPullRequest(t) \/ LookupBranch(t) \/ PrepareCommit(t)
           \/ StageFails(t)
  BY <1>7 DEF ReceiveToken, LookupPullRequest, LookupBranch, PrepareCommit, StageFails, Advance
<1>8. CASE Finalize(t)
  BY <1>8 DEF Finalize, Advance, Return
<1>9. CASE RecordFailure(t)
  BY <1>9 DEF RecordFailure, Return, FailDelivery, Transition
<1>10. CASE PersistenceError(t)
  BY <1>10 DEF PersistenceError, Return
<1>11. QED
  BY <1>1, <1>2, <1>3, <1>4, <1>5, <1>6, <1>7, <1>8, <1>9, <1>10 DEF TaskStep

\* An answer moves only tasks that wait for it.
LEMMA RemoteFlow ==
  ASSUME TypeOK, RemoteStep, NEW t \in Tasks
  PROVE  \/ at'[t] = at[t]
         \/ /\ at[t] \in { "push_write", "pull_request_write" }
            /\ at'[t] \in { "pull_request", "finalize", "failing" }
BY DEF TypeOK, RemoteStep, AcceptPush, AcceptPullRequest, RefuseWrite, Answer, Waiting, Stages

-----------------------------------------------------------------------------
(* The steps.                                                              *)

\* One task of a work is engaged at a time, and the active set knows it.
LEMMA ActiveStep ==
  ASSUME IInv, [Next]_vars
  PROVE  ActiveStage'
<1> USE TaskFacts DEF Engaged, Up
<1>1. TypeOK /\ ActiveStage /\ GateStage /\ AttemptStage
  BY DEF IInv
<1>2. ASSUME UNCHANGED <<active, at, api>>  PROVE ActiveStage'
  BY <1>1, <1>2 DEF ActiveStage
<1>3. ASSUME NEW w \in Works, GateStep(w)  PROVE ActiveStage'
  <2>1. CASE Approve(w)
    <3> DEFINE t == <<w, "request">>
    <3>1. at[t] = "idle"
      <4>1. status[w] = "awaiting_approval" /\ t \in Tasks /\ WorkOf(t) = w
        BY <2>1 DEF Approve
      <4>2. job[w].state = "absent"
        BY <1>1, <4>1 DEF GateStage, TerminalWork
      <4> QED  BY <1>1, <4>1, <4>2 DEF AttemptStage
    <3>2. at' = [at EXCEPT ![t] = "scheduled"] /\ UNCHANGED <<active, api>> /\ api # "down"
      BY <2>1 DEF Approve
    <3> HIDE DEF t
    <3>3. t \in Tasks /\ t[2] = "request"
      BY DEF t
    <3> QED
      BY <1>1, <3>1, <3>2, <3>3 DEF TypeOK, ActiveStage
  <2>2. CASE ~Approve(w)
    <3>1. UNCHANGED <<active, at, api>>
      BY <1>3, <2>2 DEF GateStep, WorkerTransition, WriteBundleFile, CommitBundle, Review,
         SendBack, ClosePullRequest, Transition, taskVars
    <3> QED  BY <1>2, <3>1
  <2> QED  BY <2>1, <2>2
<1>4. ASSUME NEW k \in Workers, Quarantine(k)  PROVE ActiveStage'
  BY <1>2, <1>4 DEF Quarantine, taskVars
<1>5. ASSUME NEW t \in Tasks, TaskStep(t)  PROVE ActiveStage'
  <2>1. /\ Flow(t) /\ api' = api
        /\ at' = [at EXCEPT ![t] = at'[t]]
    BY <1>1, <1>5, TaskFlow DEF Own
  <2>2. CASE Reserve(t)
    <3>1. CASE WorkOf(t) \in active
      <4>1. at' = [at EXCEPT ![t] = "idle"] /\ active' = active /\ at[t] = "scheduled"
        BY <2>2, <3>1 DEF Reserve, Advance
      <4> QED  BY <1>1, <2>1, <4>1 DEF TypeOK, ActiveStage
    <3>2. CASE WorkOf(t) \notin active
      <4>1. /\ at'[t] = IF t[2] = "recovery" THEN "recovery" ELSE "authorization"
            /\ active' = active \cup { WorkOf(t) } /\ at[t] = "scheduled"
        BY <1>1, <2>2, <3>2 DEF Reserve, TypeOK
      <4>2. at'[t] \in Engaged
        BY <4>1 DEF Stages
      <4>3. \A u \in Tasks : u # t => at'[u] = at[u]
        BY <1>1, <2>1 DEF TypeOK
      <4>4. \A u \in Tasks : u # t /\ at'[u] \in Engaged => WorkOf(u) # WorkOf(t)
        BY <1>1, <3>2, <4>3 DEF ActiveStage
      <4> HIDE DEF Engaged
      <4> QED  BY <1>1, <2>1, <4>1, <4>2, <4>3, <4>4 DEF ActiveStage
    <3> QED  BY <3>1, <3>2
  <2>3. CASE at[t] \in Engaged /\ Return(t)
    BY <1>1, <2>1, <2>3 DEF Return, TypeOK, ActiveStage
  <2>4. CASE at[t] \in Engaged /\ at'[t] \in Engaged \ { "recovery" } /\ active' = active
    <3>1. \A u \in Tasks : u # t => at'[u] = at[u]
      BY <1>1, <2>1 DEF TypeOK
    <3>2. at[t] # "idle"
      BY <2>4
    <3>3. at'[t] # "recovery"
      BY <2>4
    <3> HIDE DEF Engaged
    <3> QED  BY <1>1, <2>1, <2>4, <3>1, <3>2, <3>3 DEF ActiveStage
  <2> QED  BY <2>1, <2>2, <2>3, <2>4 DEF Flow
<1>6. CASE RemoteStep
  <2>1. \A t \in Tasks : at'[t] = at[t] \/ (at[t] \in Engaged /\ at'[t] \in Engaged \ { "recovery" })
    BY <1>1, <1>6, RemoteFlow DEF Stages, WriteStages
  <2>2. UNCHANGED <<active, api>>
    BY <1>6 DEF RemoteStep
  <2> QED  BY <1>1, <2>1, <2>2 DEF ActiveStage
<1>7. CASE Crash
  BY <1>7 DEF Crash, ActiveStage
<1>8. CASE Restart
  BY <1>1, <1>8 DEF Restart, ActiveStage, taskVars
<1>9. CASE ScanJobs
  BY <1>1, <1>9 DEF ScanJobs, ActiveStage, TypeOK
<1>10. CASE JoinRecovery
  BY <1>1, <1>10 DEF JoinRecovery, ActiveStage, taskVars
<1>11. CASE UNCHANGED vars
  BY <1>2, <1>11 DEF vars, taskVars
<1> QED
  BY <1>3, <1>4, <1>5, <1>6, <1>7, <1>8, <1>9, <1>10, <1>11 DEF Next

-----------------------------------------------------------------------------
(* What the gate gives to a committing work.                               *)

\* While a work is committing its approval covers its version, its row and its file, its
\* worker is not fenced and no upload is under way.
LEMMA Committing ==
  ASSUME TypeOK, GateStage, NEW w \in Works, status[w] = "committing"
  PROVE  /\ Authorized(w)
         /\ file[w] = row[w]
         /\ upload[w] = None
         /\ ~quarantined[Assigned[w]]
         /\ job[w].state \in LiveJob
<1>1. job[w].state \in LiveJob /\ upload[w] = None /\ ~quarantined[Assigned[w]]
  BY DEF GateStage, TerminalWork
<1>2. job[w].approval \in audits /\ job[w].approval.work = w
  BY <1>1 DEF GateStage, LiveJob
<1> QED  BY <1>1, <1>2 DEF GateStage, Authorized

\* A work that no lock or verdict holds back has no upload under way.
LEMMA Unlocked ==
  ASSUME TypeOK, NEW w \in Works, ~WorkLocked(w) \/ ~WorkerLocked(Assigned[w])
  PROVE  /\ upload[w] = None
         /\ \A t \in Tasks : WorkOf(t) = w => at[t] \notin WriteStages
BY DEF WorkerLocked, WorkLocked

\* A task leaves the records alone, keeps a committing work's job unfinished and its
\* approval, or ends work and job together.
LEMMA TaskOutcome ==
  ASSUME TypeOK, NEW t \in Tasks, TaskStep(t)
  PROVE  LET w == WorkOf(t) IN
         \/ UNCHANGED <<status, version, job>>
         \/ /\ UNCHANGED <<status, version>>
            /\ status[w] = "committing"
            /\ job'[w].state \in LiveJob /\ job'[w].approval = job[w].approval
         \/ /\ status[w] = "committing" /\ job[w].state \in LiveJob
            /\ ~WorkerLocked(Assigned[w])
            /\ status'[w] \in { "failed", "completed" } /\ version'[w] \in Nat
            /\ job'[w].state \in { "failed", "completed" }
            /\ job'[w].approval = job[w].approval
<1> USE TaskFacts DEF TypeOK, LiveJob, workVars
<1>1. CASE Reserve(t) \/ ReadBundle(t) \/ TakeGuard(t) \/ GuardTimeout(t) \/ ReceiveToken(t)
           \/ LookupPullRequest(t) \/ LookupBranch(t) \/ PrepareCommit(t) \/ StageFails(t)
           \/ PersistenceError(t)
  BY <1>1 DEF Reserve, ReadBundle, TakeGuard, GuardTimeout, ReceiveToken, LookupPullRequest,
     LookupBranch, PrepareCommit, StageFails, PersistenceError
<1>2. CASE Rearm(t)
  BY <1>2 DEF Rearm, Deliverable
<1> DEFINE w == WorkOf(t)
<1>3. CASE Start(t)
  <2>1. CASE ~Deliverable(w, { "pending", "retry" })
    BY <1>3, <2>1 DEF Start
  <2>2. CASE Deliverable(w, { "pending", "retry" }) /\ Authorized(w)
    <3>1. /\ UNCHANGED <<status, version>>
          /\ job' = [job EXCEPT ![w].state = "running", ![w].attempts = job[w].attempts + 1]
      BY <1>3, <2>2 DEF Start
    <3> QED  BY <2>2, <3>1 DEF Deliverable
  <2>3. CASE Deliverable(w, { "pending", "retry" }) /\ ~Authorized(w)
    <3>1. FailDelivery(w, job[w].attempts + 1) /\ ~WorkerLocked(Assigned[w])
      BY <1>3, <2>3 DEF Start
    <3> QED  BY <2>3, <3>1 DEF Deliverable, FailDelivery, Transition
  <2> QED  BY <2>1, <2>2, <2>3
<1>4. CASE Finalize(t)
  <2>1. CASE UNCHANGED <<status, version, job>>
    BY <2>1
  <2>2. CASE ~UNCHANGED <<status, version, job>>
    <3>1. /\ Deliverable(w, { "running" }) /\ ~WorkerLocked(Assigned[w])
          /\ status' = [status EXCEPT ![w] = "completed"]
          /\ version' = [version EXCEPT ![w] = @ + 2]
          /\ job' = [job EXCEPT ![w].state = "completed"]
      BY <1>4, <2>2 DEF Finalize
    <3> QED  BY <3>1 DEF Deliverable
  <2> QED  BY <2>1, <2>2
<1>5. CASE RecordFailure(t)
  <2>1. CASE UNCHANGED <<status, version, job>>
    BY <2>1
  <2>2. CASE ~UNCHANGED <<status, version, job>>
    <3>1. /\ Deliverable(w, { "running" }) /\ ~WorkerLocked(Assigned[w])
          /\ FailDelivery(w, job[w].attempts)
      BY <1>5, <2>2 DEF RecordFailure
    <3> QED  BY <3>1 DEF Deliverable, FailDelivery, Transition
  <2> QED  BY <2>1, <2>2
<1> QED
  BY <1>1, <1>2, <1>3, <1>4, <1>5 DEF TaskStep

-----------------------------------------------------------------------------
(* The gate.                                                               *)

\* The parts of the gate that one work sees.
GateOf(w) ==
  /\ upload[w] # None => status[w] \in { "verifying", "awaiting_approval" } /\ upload[w] = file[w]
  /\ status[w] # "pr_created"
  /\ \A a \in audits : a.work = w =>
       /\ status[w] \in { "committing" } \cup TerminalWork
       /\ status[w] = "committing" => a.version = version[w]
       /\ row[w] = a.digest /\ file[w] = a.digest
  /\ \A a, b \in audits : a.work = w /\ b.work = w => a = b
  /\ job[w].state = "absent" => \A a \in audits : a.work # w
  /\ job[w].state # "absent" => job[w].approval \in audits /\ job[w].approval.work = w
  /\ status[w] = "committing" => job[w].state \in LiveJob
  /\ quarantined[Assigned[w]] => status[w] \in TerminalWork

\* GateStage holds exactly when every work has its part of it.
LEMMA GateByWork ==
  /\ TypeOK => (GateStage <=> \A w \in Works : GateOf(w))
  /\ TypeOK' => (GateStage' <=> \A w \in Works : GateOf(w)')
<1>1. ASSUME TypeOK  PROVE GateStage <=> \A w \in Works : GateOf(w)
  <2>1. \A a \in audits : a.work \in Works
    BY <1>1 DEF TypeOK, AuditRecord
  <2> QED  BY <2>1 DEF GateStage, GateOf
<1>2. ASSUME TypeOK'  PROVE GateStage' <=> \A w \in Works : GateOf(w)'
  <2>1. \A a \in audits' : a.work \in Works
    BY <1>2 DEF TypeOK, AuditRecord
  <2> QED  BY <2>1 DEF GateStage, GateOf
<1> QED  BY <1>1, <1>2

\* A work's gate stays as it was while nothing of it changes.
LEMMA GateUntouched ==
  ASSUME NEW w \in Works, GateOf(w), audits' = audits,
         upload'[w] = upload[w] \/ upload'[w] = None, file'[w] = file[w], row'[w] = row[w],
         status'[w] = status[w], version'[w] = version[w],
         quarantined'[Assigned[w]] = quarantined[Assigned[w]], job'[w] = job[w]
  PROVE  GateOf(w)'
BY DEF GateOf

\* Nobody has approved a work that still verifies or waits.
LEMMA NotApproved ==
  ASSUME NEW w \in Works, GateOf(w), status[w] \notin { "committing" } \cup TerminalWork
  PROVE  job[w].state = "absent" /\ \A a \in audits : a.work # w
BY DEF GateOf

\* People, runners and uploads keep the gate.
LEMMA GateKeptByPeople ==
  ASSUME TypeOK, TypeOK', GateStage, NEW w \in Works, GateStep(w)
  PROVE  GateStage'
<1> SUFFICES ASSUME NEW v \in Works  PROVE GateOf(v)'
  BY GateByWork
<1>1. GateOf(v) /\ GateOf(w)
  BY GateByWork
<1>2. CASE WorkerTransition(w)
  <2>1. PICK target \in WorkerTransitions[status[w]] \ MockOnly : Transition(w, target)
    BY <1>2 DEF WorkerTransition
  <2>2. /\ UNCHANGED <<row, file, upload, audits, job, quarantined>>
        /\ ~WorkerLocked(Assigned[w]) /\ ~quarantined[Assigned[w]]
    BY <1>2 DEF WorkerTransition, gateVars, LeaseValid
  <2>3. CASE v # w
    BY <1>1, <2>1, <2>2, <2>3, GateUntouched DEF Transition, TypeOK
  <2>4. CASE v = w
    <3>1. status[w] \in WorkStatus /\ status'[w] = target
      BY <2>1 DEF TypeOK, Transition
    <3>2. /\ status[w] \notin TerminalWork
          /\ target \notin { "committing", "pr_created" }
          /\ status[w] = "committing" => target = "failed"
      BY <2>1, <3>1, Graphs DEF MockOnly
    <3>3. upload[w] = None
      BY <2>2, Unlocked
    <3> QED  BY <1>1, <2>2, <2>4, <3>1, <3>2, <3>3 DEF GateOf, TerminalWork
  <2> QED  BY <2>3, <2>4
<1>3. ASSUME NEW d \in Digests, WriteBundleFile(w, d)  PROVE GateOf(v)'
  <2>1. UNCHANGED <<status, version, row, audits, job, quarantined>>
    BY <1>3 DEF WriteBundleFile, gateVars
  <2>2. CASE v # w
    BY <1>1, <1>3, <2>1, <2>2, GateUntouched DEF WriteBundleFile, TypeOK
  <2>3. CASE v = w
    <3>1. /\ status[w] \in { "verifying", "awaiting_approval" }
          /\ upload'[w] = file'[w]
      BY <1>3 DEF WriteBundleFile, TypeOK
    <3>2. \A a \in audits : a.work # w
      BY <1>1, <3>1 DEF GateOf, TerminalWork
    <3> QED  BY <1>1, <2>1, <2>3, <3>1, <3>2 DEF GateOf
  <2> QED  BY <2>2, <2>3
<1>4. CASE CommitBundle(w)
  <2>1. UNCHANGED <<status, version, file, audits, job, quarantined>>
    BY <1>4 DEF CommitBundle, gateVars
  <2>2. CASE v # w
    BY <1>1, <1>4, <2>1, <2>2, GateUntouched DEF CommitBundle, TypeOK
  <2>3. CASE v = w
    <3>1. upload[w] # None /\ upload'[w] = None
      BY <1>4 DEF CommitBundle, TypeOK
    <3>2. \A a \in audits : a.work # w
      BY <1>1, <3>1 DEF GateOf, TerminalWork
    <3> QED  BY <1>1, <2>1, <2>3, <3>1, <3>2 DEF GateOf
  <2> QED  BY <2>2, <2>3
<1>5. CASE Review(w) \/ ClosePullRequest(w)
  <2>1. UNCHANGED <<workVars, audits, job, quarantined>>
    BY <1>5 DEF Review, ClosePullRequest, gateVars
  <2> QED  BY <1>1, <2>1, GateUntouched DEF workVars
<1>6. CASE SendBack(w)
  <2>1. /\ UNCHANGED <<row, file, upload, audits, job, quarantined>>
        /\ ~WorkLocked(w) /\ ~quarantined[Assigned[w]]
        /\ Transition(w, "implementing")
        /\ status[w] \in ResumedByFeedback \cup { "budget_exhausted" }
    BY <1>6 DEF SendBack, gateVars
  <2>2. CASE v # w
    BY <1>1, <2>1, <2>2, GateUntouched DEF Transition, TypeOK
  <2>3. CASE v = w
    <3>1. upload[w] = None /\ status'[w] = "implementing"
      BY <2>1, Unlocked DEF Transition, TypeOK
    <3>2. \A a \in audits : a.work # w
      BY <1>1, <2>1 DEF GateOf, TerminalWork, ResumedByFeedback
    <3> QED  BY <1>1, <2>1, <2>3, <3>1, <3>2 DEF GateOf
  <2> QED  BY <2>2, <2>3
<1>7. CASE Approve(w)
  <2> DEFINE audit == [work |-> w, version |-> version[w] + 1, digest |-> row[w]]
  <2>1. /\ UNCHANGED <<row, file, upload, quarantined>>
        /\ ~WorkLocked(w) /\ ~quarantined[Assigned[w]]
        /\ Transition(w, "committing") /\ status[w] = "awaiting_approval"
        /\ audits' = audits \cup { audit } /\ QueueDelivery(w, audit)
        /\ DeliveryReady(w)
    BY <1>7 DEF Approve
  <2>2. job[w].state = "absent" /\ \A a \in audits : a.work # w
    BY <1>1, <2>1, NotApproved DEF TerminalWork
  <2>3. job' = [job EXCEPT ![w] = [state |-> "pending", approval |-> audit, attempts |-> 0]]
    BY <2>1, <2>2 DEF QueueDelivery
  <2>4. /\ status' = [status EXCEPT ![w] = "committing"]
        /\ version' = [version EXCEPT ![w] = @ + 1]
    BY <2>1 DEF Transition
  <2>5. audit.work = w /\ audit.version = version[w] + 1 /\ audit.digest = row[w]
    OBVIOUS
  <2> HIDE DEF audit
  <2>6. CASE v # w
    <3>1. /\ status'[v] = status[v] /\ version'[v] = version[v] /\ job'[v] = job[v]
      BY <2>3, <2>4, <2>6 DEF TypeOK
    <3>2. \A a : a.work = v => (a \in audits' <=> a \in audits)
      BY <2>1, <2>5, <2>6
    <3> QED  BY <1>1, <2>1, <3>1, <3>2 DEF GateOf
  <2>7. CASE v = w
    <3>1. status'[w] = "committing" /\ version'[w] = version[w] + 1
      BY <2>4 DEF TypeOK
    <3>2. job'[w].state = "pending" /\ job'[w].approval = audit
      BY <2>3 DEF TypeOK
    <3>3. \A a \in audits' : a.work = w => a = audit
      BY <2>1, <2>2
    <3>4. upload[w] = None /\ file[w] = row[w]
      BY <2>1, Unlocked DEF DeliveryReady
    <3> QED  BY <2>1, <2>5, <2>7, <3>1, <3>2, <3>3, <3>4 DEF GateOf, LiveJob
  <2> QED  BY <2>6, <2>7
<1> QED  BY <1>2, <1>3, <1>4, <1>5, <1>6, <1>7 DEF GateStep

\* A fence, a task, an answer, a crash and a scan keep the gate.
LEMMA GateKept ==
  ASSUME IInv, TypeOK', [Next]_vars
  PROVE  GateStage'
<1>1. TypeOK /\ GateStage
  BY DEF IInv
<1> SUFFICES ASSUME NEW v \in Works  PROVE GateOf(v)'
  BY <1>1, GateByWork
<1>2. GateOf(v)
  BY <1>1, GateByWork
<1>3. ASSUME NEW w \in Works, GateStep(w)  PROVE GateOf(v)'
  BY <1>1, <1>3, GateKeptByPeople, GateByWork
<1>4. ASSUME NEW k \in Workers, Quarantine(k)  PROVE GateOf(v)'
  <2>1. UNCHANGED <<row, file, upload, audits>> /\ ~WorkerLocked(k)
        /\ quarantined' = [quarantined EXCEPT ![k] = TRUE]
    BY <1>4 DEF Quarantine, gateVars
  <2>2. CASE Assigned[v] # k
    <3>1. status'[v] = status[v] /\ version'[v] = version[v] /\ job'[v] = job[v]
      BY <1>1, <1>4, <2>2 DEF Quarantine, Stopped, TypeOK
    <3>2. quarantined'[Assigned[v]] = quarantined[Assigned[v]]
      BY <1>1, <2>1, <2>2, AssignedAssumption DEF TypeOK
    <3> QED  BY <1>2, <2>1, <3>1, <3>2, GateUntouched
  <2>3. CASE Assigned[v] = k
    <3>1. status'[v] \in TerminalWork
      BY <1>1, <1>4, <2>3, Graphs DEF Quarantine, Stopped, TypeOK
    <3>2. upload[v] = None
      BY <1>1, <2>1, <2>3, Unlocked
    <3>3. /\ job'[v].state = "absent" <=> job[v].state = "absent"
          /\ job'[v].approval = job[v].approval
      BY <1>1, <1>4 DEF Quarantine, TypeOK, LiveJob
    <3> QED  BY <1>2, <2>1, <3>1, <3>2, <3>3 DEF GateOf, TerminalWork
  <2> QED  BY <2>2, <2>3
<1>5. ASSUME NEW t \in Tasks, TaskStep(t)  PROVE GateOf(v)'
  <2>1. /\ UNCHANGED <<row, file, upload, audits, quarantined>>
        /\ v # WorkOf(t) =>
             status'[v] = status[v] /\ version'[v] = version[v] /\ job'[v] = job[v]
    BY <1>1, <1>5, TaskFlow DEF Own, gateVars
  <2>2. CASE v # WorkOf(t) \/ UNCHANGED <<status, version, job>>
    BY <1>2, <2>1, <2>2, GateUntouched
  <2>3. CASE v = WorkOf(t) /\ ~UNCHANGED <<status, version, job>>
    <3>1. status[v] = "committing" /\ upload[v] = None /\ job[v].state \in LiveJob
      BY <1>1, <1>5, <2>3, TaskOutcome, Committing
    <3>2. /\ job'[v].approval = job[v].approval /\ job'[v].state # "absent"
          /\ \/ status' = status /\ version' = version /\ job'[v].state \in LiveJob
             \/ status'[v] \in { "failed", "completed" }
      BY <1>1, <1>5, <2>3, TaskOutcome DEF LiveJob
    <3> QED  BY <1>2, <2>1, <3>1, <3>2 DEF GateOf, LiveJob, TerminalWork
  <2> QED  BY <2>2, <2>3
<1>6. CASE RemoteStep
  BY <1>2, <1>6, GateUntouched DEF RemoteStep, workVars, gateVars
<1>7. CASE Crash
  BY <1>2, <1>7, GateUntouched DEF Crash, gateVars
<1>8. CASE Restart \/ ScanJobs \/ JoinRecovery
  <2>1. UNCHANGED <<workVars, gateVars, job, quarantined>>
    BY <1>8 DEF Restart, ScanJobs, JoinRecovery
  <2> QED  BY <1>2, <2>1, GateUntouched DEF workVars, gateVars
<1>9. CASE UNCHANGED vars
  BY <1>2, <1>9, GateUntouched DEF vars, workVars, gateVars
<1> QED
  BY <1>3, <1>4, <1>5, <1>6, <1>7, <1>8, <1>9 DEF Next

-----------------------------------------------------------------------------
(* The domains.                                                            *)

JobRecord == [state : JobStates, approval : audits \cup { None }, attempts : Nat]
PullRecord == [opened : Nat, open : BOOLEAN, digest : Digests \cup { None }]
LocalRecord == [authority : audits \cup { None }, attempt : Nat, content : Digests \cup { None }]

\* A failed delivery stays in its domains.
LEMMA FailRecords ==
  ASSUME TypeOK, NEW w \in Works, NEW n \in Nat, FailDelivery(w, n)
  PROVE  /\ status' \in [Works -> WorkStatus] /\ version' \in [Works -> Nat]
         /\ job' \in [Works -> JobRecord]
<1>1. "failed" \in JobStates /\ "failed" \in WorkStatus
  BY DEF JobStates, WorkStatus
<1>2. job \in [Works -> JobRecord]
  BY DEF TypeOK, JobRecord
<1>3. [job[w] EXCEPT !.state = "failed", !.attempts = n] \in JobRecord
  BY <1>1, <1>2 DEF JobRecord
<1>4. job' = [job EXCEPT ![w] = [job[w] EXCEPT !.state = "failed", !.attempts = n]]
  BY <1>2 DEF FailDelivery
<1>5. job' \in [Works -> JobRecord]
  BY <1>2, <1>3, <1>4
<1> QED  BY <1>1, <1>5 DEF FailDelivery, Transition, TypeOK

\* What a task does to the records of its work stays in their domains.
LEMMA TaskRecords ==
  ASSUME TypeOK, NEW t \in Tasks, TaskStep(t)
  PROVE  /\ status' \in [Works -> WorkStatus] /\ version' \in [Works -> Nat]
         /\ job' \in [Works -> JobRecord]
<1> DEFINE w == WorkOf(t)
<1>1. /\ w \in Works /\ status \in [Works -> WorkStatus] /\ version \in [Works -> Nat]
      /\ job \in [Works -> JobRecord]
  BY TaskFacts DEF TypeOK, JobRecord
<1>2. job[w] \in JobRecord /\ job[w].attempts \in Nat
  BY <1>1 DEF JobRecord
<1>3. CASE Rearm(t)
  <2>1. UNCHANGED <<status, version>>
    BY <1>3 DEF Rearm, workVars
  <2>2. CASE job' = job
    BY <1>1, <2>1, <2>2
  <2>3. CASE job' # job
    <3> DEFINE s == IF job[w].state = "running" THEN "retry" ELSE job[w].state
    <3>1. s \in JobStates
      BY <1>2 DEF JobStates, LiveJob, JobRecord
    <3>2. job' = [job EXCEPT ![w] = [job[w] EXCEPT !.state = s]]
      <4>1. job' = [job EXCEPT ![w].state = IF @ = "running" THEN "retry" ELSE @]
        BY <1>3, <2>3 DEF Rearm
      <4> QED  BY <1>1, <4>1
    <3> HIDE DEF s
    <3>3. [job[w] EXCEPT !.state = s] \in JobRecord
      BY <1>2, <3>1 DEF JobRecord
    <3> QED  BY <1>1, <2>1, <3>2, <3>3
  <2> QED  BY <2>2, <2>3
<1>4. CASE Start(t)
  <2>1. CASE UNCHANGED <<status, version>> /\ job' = job
    BY <1>1, <2>1
  <2>2. CASE FailDelivery(w, job[w].attempts + 1)
    BY <1>1, <1>2, <2>2, FailRecords
  <2>3. CASE /\ UNCHANGED <<status, version>>
             /\ job' = [job EXCEPT ![w].state = "running", ![w].attempts = job[w].attempts + 1]
    <3> DEFINE n == job[w].attempts + 1
    <3>1. n \in Nat /\ "running" \in JobStates
      BY <1>2 DEF JobStates, LiveJob
    <3>2. job' = [job EXCEPT ![w] = [job[w] EXCEPT !.state = "running", !.attempts = n]]
      BY <1>1, <2>3
    <3> HIDE DEF n
    <3>3. [job[w] EXCEPT !.state = "running", !.attempts = n] \in JobRecord
      BY <1>2, <3>1 DEF JobRecord
    <3> QED  BY <1>1, <2>3, <3>2, <3>3
  <2> QED  BY <1>4, <2>1, <2>2, <2>3 DEF Start
<1>5. CASE Finalize(t)
  <2>1. CASE UNCHANGED <<status, version>> /\ job' = job
    BY <1>1, <2>1
  <2>2. CASE /\ status' = [status EXCEPT ![w] = "completed"]
             /\ version' = [version EXCEPT ![w] = @ + 2]
             /\ job' = [job EXCEPT ![w].state = "completed"]
    <3>1. [job[w] EXCEPT !.state = "completed"] \in JobRecord
      BY <1>2 DEF JobStates, JobRecord
    <3>2. job' = [job EXCEPT ![w] = [job[w] EXCEPT !.state = "completed"]]
      BY <1>1, <2>2
    <3>3. "completed" \in WorkStatus
      BY DEF WorkStatus
    <3> QED  BY <1>1, <2>2, <3>1, <3>2, <3>3
  <2> QED  BY <1>5, <2>1, <2>2 DEF Finalize
<1>6. CASE RecordFailure(t)
  BY <1>1, <1>2, <1>6, FailRecords DEF RecordFailure
<1>7. CASE Reserve(t) \/ ReadBundle(t) \/ TakeGuard(t) \/ GuardTimeout(t) \/ ReceiveToken(t)
           \/ LookupPullRequest(t) \/ LookupBranch(t) \/ PrepareCommit(t) \/ StageFails(t)
           \/ PersistenceError(t)
  <2>1. UNCHANGED <<status, version, job>>
    BY <1>7 DEF Reserve, ReadBundle, TakeGuard, GuardTimeout, ReceiveToken, LookupPullRequest,
       LookupBranch, PrepareCommit, StageFails, PersistenceError, workVars
  <2> QED  BY <1>1, <2>1
<1> QED
  BY <1>3, <1>4, <1>5, <1>6, <1>7 DEF TaskStep

\* A task's stage, its locals and what it sends stay in their domains.
LEMMA TaskTypes ==
  ASSUME TypeOK, AttemptStage, NEW t \in Tasks, TaskStep(t)
  PROVE  /\ at' \in [Tasks -> Stages] /\ local' \in [Tasks -> LocalRecord]
         /\ active' \subseteq Works /\ inflight' \subseteq Message
         /\ recoveryFailed' \in BOOLEAN /\ dbErrors' \in 0..MaxDbErrors
<1> DEFINE w == WorkOf(t)
<1>1. /\ w \in Works /\ t[2] \in { "request", "recovery" }
      /\ at \in [Tasks -> Stages] /\ local \in [Tasks -> LocalRecord]
      /\ active \subseteq Works /\ inflight \subseteq Message
      /\ recoveryFailed \in BOOLEAN /\ dbErrors \in 0..MaxDbErrors
  BY TaskFacts DEF TypeOK, LocalRecord
<1>2. NoLocal \in LocalRecord
  BY DEF NoLocal, LocalRecord
<1>3. ASSUME Return(t)
      PROVE  /\ at' \in [Tasks -> Stages] /\ local' \in [Tasks -> LocalRecord]
             /\ active' \subseteq Works
  BY <1>1, <1>2, <1>3 DEF Return, Stages
<1>4. ASSUME NEW stage \in Stages, Advance(t, stage)
      PROVE  /\ at' \in [Tasks -> Stages] /\ local' \in [Tasks -> LocalRecord]
             /\ active' \subseteq Works
  BY <1>1, <1>4 DEF Advance
<1>5. { "idle", "recovery", "authorization", "failing", "existing_pull_request", "finalize", "token",
        "bundle", "existing_branch", "pull_request", "workspace", "push" } \cup WriteStages
        \subseteq Stages
  BY DEF Stages
<1>6. CASE Reserve(t)
  <2>1. UNCHANGED <<local, inflight, recoveryFailed, dbErrors>>
    BY <1>6 DEF Reserve, Advance, remoteVars
  <2>2. at' \in [Tasks -> Stages] /\ active' \subseteq Works
    BY <1>1, <1>5, <1>6 DEF Reserve, Advance
  <2> QED  BY <1>1, <2>1, <2>2
<1>7. CASE Rearm(t) \/ RecordFailure(t) \/ Finalize(t)
  <2>1. UNCHANGED <<inflight, recoveryFailed, dbErrors>>
    BY <1>7 DEF Rearm, RecordFailure, Finalize, remoteVars
  <2>2. Return(t) \/ \E stage \in Stages : Advance(t, stage)
    BY <1>5, <1>7 DEF Rearm, RecordFailure, Finalize
  <2> QED  BY <1>1, <1>3, <1>4, <2>1, <2>2
<1>8. CASE Start(t)
  <2>1. UNCHANGED <<inflight, recoveryFailed, dbErrors>>
    BY <1>8 DEF Start, remoteVars
  <2>2. CASE Return(t)
    BY <1>1, <1>3, <2>1, <2>2
  <2>3. CASE ~Return(t)
    <3> DEFINE l == [authority |-> job[w].approval, attempt |-> job[w].attempts + 1,
                     content |-> None]
    <3>1. /\ at' = [at EXCEPT ![t] = "bundle"] /\ active' = active
          /\ local' = [local EXCEPT ![t] = l]
      BY <1>8, <2>3 DEF Start
    <3>2. l \in LocalRecord
      BY <1>1 DEF TypeOK, LocalRecord
    <3> HIDE DEF l
    <3> QED  BY <1>1, <1>5, <2>1, <3>1, <3>2
  <2> QED  BY <2>2, <2>3
<1>9. CASE ReadBundle(t)
  <2> DEFINE c == VerifiedBytes(w, local[t].authority.digest)
  <2>1. /\ UNCHANGED <<inflight, recoveryFailed, dbErrors, active>>
        /\ at' = [at EXCEPT ![t] = IF c = None THEN "failing" ELSE "token"]
        /\ local' = [local EXCEPT ![t].content = c]
    BY <1>9 DEF ReadBundle, remoteVars
  <2>2. c \in Digests \cup { None }
    BY <1>1 DEF VerifiedBytes, TypeOK
  <2> HIDE DEF c
  <2>3. [local[t] EXCEPT !.content = c] \in LocalRecord
    BY <1>1, <2>2 DEF LocalRecord
  <2>4. local' = [local EXCEPT ![t] = [local[t] EXCEPT !.content = c]]
    BY <1>1, <2>1
  <2> QED  BY <1>1, <1>5, <2>1, <2>3, <2>4
<1>10. CASE TakeGuard(t)
  <2>1. UNCHANGED <<recoveryFailed, dbErrors>>
    BY <1>10 DEF TakeGuard
  <2>2. Return(t) \/ \E stage \in Stages : Advance(t, stage)
    BY <1>5, <1>10 DEF TakeGuard, WriteStages
  <2>3. CASE inflight' = inflight
    BY <1>1, <1>3, <1>4, <2>1, <2>2, <2>3
  <2>4. CASE inflight' # inflight
    <3> DEFINE m == [work |-> w, kind |-> at[t], digest |-> local[t].content,
                     attempt |-> local[t].attempt]
    <3>1. inflight' = inflight \cup { m } /\ at[t] \in { "push", "pull_request" }
      BY <1>10, <2>4 DEF TakeGuard
    <3>2. local[t].content \in Digests
      <4>1. at[t] \in Loaded /\ at[t] \in Started
        BY <3>1 DEF Loaded, Started, Engaged, Stages
      <4>2. local[t].authority \in audits /\ local[t].content = local[t].authority.digest
        BY <4>1 DEF AttemptStage
      <4> QED  BY <4>2 DEF TypeOK, AuditRecord
    <3>3. local[t].attempt \in Nat
      BY <1>1 DEF LocalRecord
    <3>4. m \in Message
      BY <1>1, <3>1, <3>2, <3>3 DEF Message
    <3> HIDE DEF m
    <3> QED  BY <1>1, <1>3, <1>4, <2>1, <2>2, <3>1, <3>4
  <2> QED  BY <2>3, <2>4
<1>11. CASE GuardTimeout(t) \/ ReceiveToken(t) \/ LookupPullRequest(t) \/ LookupBranch(t)
            \/ PrepareCommit(t) \/ StageFails(t)
  <2>1. UNCHANGED <<inflight, recoveryFailed, dbErrors>>
    BY <1>11 DEF GuardTimeout, ReceiveToken, LookupPullRequest, LookupBranch, PrepareCommit,
       StageFails, remoteVars
  <2>2. \E stage \in Stages : Advance(t, stage)
    BY <1>5, <1>11 DEF GuardTimeout, ReceiveToken, LookupPullRequest, LookupBranch, PrepareCommit,
       StageFails
  <2> QED  BY <1>1, <1>4, <2>1, <2>2
<1>12. CASE PersistenceError(t)
  <2>1. Return(t) /\ inflight' = inflight /\ recoveryFailed' \in BOOLEAN
    BY <1>1, <1>12 DEF PersistenceError, remoteVars
  <2>2. dbErrors' \in 0..MaxDbErrors
    BY <1>1, <1>12, BoundsAssumption DEF PersistenceError
  <2> QED  BY <1>1, <1>3, <2>1, <2>2
<1> QED
  BY <1>6, <1>7, <1>8, <1>9, <1>10, <1>11, <1>12 DEF TaskStep

\* People, runners and uploads stay in the domains.
LEMMA GateTypes ==
  ASSUME TypeOK, NEW w \in Works, GateStep(w)
  PROVE  TypeOK'
<1> USE TaskFacts, Graphs DEF Transition
<1>1. CASE WorkerTransition(w)
  BY <1>1 DEF WorkerTransition, TypeOK, gateVars, taskVars, remoteVars
<1>2. ASSUME NEW d \in Digests, WriteBundleFile(w, d)  PROVE TypeOK'
  BY <1>2 DEF WriteBundleFile, TypeOK, gateVars, taskVars, remoteVars
<1>3. CASE CommitBundle(w)
  BY <1>3 DEF CommitBundle, TypeOK, gateVars, taskVars, remoteVars
<1>4. CASE Review(w)
  BY <1>4 DEF Review, TypeOK, workVars, taskVars, remoteVars
<1>5. CASE SendBack(w)
  BY <1>5 DEF SendBack, TypeOK, WorkStatus, gateVars, taskVars, remoteVars
<1>6. CASE ClosePullRequest(w)
  <2>1. pr \in [Works -> PullRecord] /\ branch \in [Works -> Digests \cup { None }]
    BY DEF TypeOK, PullRecord
  <2>2. [pr[w] EXCEPT !.open = FALSE] \in PullRecord
    <3>1. \A A, B, C : \A p \in [opened : A, open : B, digest : C], b \in B :
            [p EXCEPT !.open = b] \in [opened : A, open : B, digest : C]
      OBVIOUS
    <3>2. pr[w] \in PullRecord /\ FALSE \in BOOLEAN
      BY <2>1
    <3> QED  BY <3>1, <3>2, Zenon DEF PullRecord
  <2>3. pr' = [pr EXCEPT ![w] = [pr[w] EXCEPT !.open = FALSE]]
    <3>1. pr' = [pr EXCEPT ![w].open = FALSE]
      BY <1>6 DEF ClosePullRequest
    <3> QED  BY <2>1, <3>1
  <2>4. pr' \in [Works -> PullRecord]
    BY <2>1, <2>2, <2>3
  <2>5. branch' \in [Works -> Digests \cup { None }]
    BY <1>6, <2>1 DEF ClosePullRequest
  <2> QED  BY <1>6, <2>4, <2>5 DEF PullRecord, ClosePullRequest, TypeOK, workVars, gateVars, taskVars
<1>7. CASE Approve(w)
  <2> DEFINE audit == [work |-> w, version |-> version[w] + 1, digest |-> row[w]]
  <2>1. /\ UNCHANGED <<row, file, upload, reviewed, quarantined, api, recoveryFailed, active,
                       local, branch, pr, inflight, crashes, dbErrors>>
        /\ status' = [status EXCEPT ![w] = "committing"]
        /\ version' = [version EXCEPT ![w] = @ + 1]
        /\ audits' = audits \cup { audit } /\ QueueDelivery(w, audit)
        /\ at' = [at EXCEPT ![<<w, "request">>] = "scheduled"]
        /\ DeliveryReady(w)
    BY <1>7 DEF Approve, remoteVars
  <2>2. audit \in AuditRecord
    BY <2>1 DEF AuditRecord, TypeOK, DeliveryReady
  <2> HIDE DEF audit
  <2>3. audits' \subseteq AuditRecord
    BY <2>1, <2>2 DEF TypeOK
  <2>4. /\ status' \in [Works -> WorkStatus] /\ version' \in [Works -> Nat]
        /\ at' \in [Tasks -> Stages]
    <3>1. "committing" \in WorkStatus /\ "scheduled" \in Stages
      BY DEF WorkStatus, Stages
    <3>2. at' \in [Tasks -> Stages]
      BY <2>1, <3>1 DEF TypeOK
    <3>3. status' \in [Works -> WorkStatus] /\ version' \in [Works -> Nat]
      BY <2>1, <3>1 DEF TypeOK
    <3> QED  BY <3>2, <3>3
  <2>5. local' \in [Tasks -> [authority : audits' \cup { None }, attempt : Nat,
                              content : Digests \cup { None }]]
    <3>1. [authority : audits \cup { None }, attempt : Nat, content : Digests \cup { None }]
            \subseteq [authority : audits' \cup { None }, attempt : Nat,
                       content : Digests \cup { None }]
      BY <2>1
    <3> QED  BY <2>1, <3>1 DEF TypeOK
  <2>6. job' \in [Works -> [state : JobStates, approval : audits' \cup { None }, attempts : Nat]]
    <3> DEFINE R == [state : JobStates, approval : audits' \cup { None }, attempts : Nat]
               new == [state |-> "pending", approval |-> audit, attempts |-> 0]
               again == [job[w] EXCEPT !.state = "retry", !.approval = audit]
    <3>1. job \in [Works -> R]
      <4>1. [state : JobStates, approval : audits \cup { None }, attempts : Nat] \subseteq R
        BY <2>1
      <4> QED  BY <4>1 DEF TypeOK
    <3>2. new \in R
      BY <2>1 DEF JobStates, LiveJob
    <3>3. again \in R
      <4>1. job[w] \in R /\ audit \in audits' \cup { None } /\ "retry" \in JobStates
        BY <2>1, <3>1 DEF JobStates, LiveJob
      <4> QED  BY <4>1
    <3>4. job' = [job EXCEPT ![w] = IF job[w].state = "absent" THEN new
                                    ELSE IF job[w].state = "completed" THEN job[w] ELSE again]
      BY <2>1, <3>1 DEF QueueDelivery
    <3> HIDE DEF R, new, again
    <3>5. job' \in [Works -> R]
      BY <3>1, <3>2, <3>3, <3>4
    <3> QED  BY <3>5 DEF R
  <2> QED  BY <2>1, <2>3, <2>4, <2>5, <2>6 DEF TypeOK
<1> QED  BY <1>1, <1>2, <1>3, <1>4, <1>5, <1>6, <1>7 DEF GateStep

\* Every step leaves every variable in its domain.
LEMMA TypeStep ==
  ASSUME TypeOK, AttemptStage, [Next]_vars
  PROVE  TypeOK'
<1>1. ASSUME NEW w \in Works, GateStep(w)  PROVE TypeOK'
  BY <1>1, GateTypes
<1>2. ASSUME NEW k \in Workers, Quarantine(k)  PROVE TypeOK'
  <2>1. /\ UNCHANGED <<row, file, upload, reviewed, audits, api, recoveryFailed, active, at, local,
                       branch, pr, inflight, crashes, dbErrors>>
        /\ quarantined' \in [Workers -> BOOLEAN]
    BY <1>2 DEF Quarantine, TypeOK, gateVars, taskVars, remoteVars
  <2>2. status' \in [Works -> WorkStatus] /\ version' \in [Works -> Nat]
    BY <1>2, Graphs DEF Quarantine, TypeOK
  <2>3. job' \in [Works -> JobRecord]
    <3>1. \A w \in Works : job[w] \in JobRecord
      BY DEF TypeOK, JobRecord
    <3>2. \A w \in Works : [job[w] EXCEPT !.state = "quarantined"] \in JobRecord
      BY <3>1 DEF JobRecord, JobStates
    <3> QED  BY <1>2, <3>1, <3>2 DEF Quarantine
  <2> QED  BY <2>1, <2>2, <2>3 DEF TypeOK, JobRecord
<1>3. ASSUME NEW t \in Tasks, TaskStep(t)  PROVE TypeOK'
  <2>1. UNCHANGED <<row, file, upload, reviewed, audits, quarantined, api, branch, pr, crashes>>
    BY <1>3, TaskFlow DEF Own, gateVars
  <2>2. /\ at' \in [Tasks -> Stages] /\ local' \in [Tasks -> LocalRecord]
        /\ active' \subseteq Works /\ inflight' \subseteq Message
        /\ recoveryFailed' \in BOOLEAN /\ dbErrors' \in 0..MaxDbErrors
    BY <1>3, TaskTypes
  <2>3. /\ status' \in [Works -> WorkStatus] /\ version' \in [Works -> Nat]
        /\ job' \in [Works -> JobRecord]
    BY <1>3, TaskRecords
  <2> QED  BY <2>1, <2>2, <2>3 DEF TypeOK, JobRecord, LocalRecord
<1>4. CASE RemoteStep
  <2>1. PICK m \in inflight : inflight' = inflight \ { m }
                              /\ (AcceptPush(m) \/ AcceptPullRequest(m) \/ RefuseWrite(m))
    BY <1>4 DEF RemoteStep
  <2>2. UNCHANGED <<status, version, row, file, upload, reviewed, audits, job, quarantined, api,
                    recoveryFailed, active, local, crashes, dbErrors>>
    BY <1>4 DEF RemoteStep, workVars, gateVars
  <2>3. m.work \in Works /\ m.digest \in Digests
    BY <2>1 DEF TypeOK, Message
  <2>4. at' \in [Tasks -> Stages]
    BY <2>1 DEF AcceptPush, AcceptPullRequest, RefuseWrite, Answer, TypeOK, Stages
  <2>5. branch' \in [Works -> Digests \cup { None }]
    BY <2>1, <2>3 DEF AcceptPush, AcceptPullRequest, RefuseWrite, TypeOK
  <2>6. pr' \in [Works -> PullRecord]
    <3>1. pr \in [Works -> PullRecord] /\ branch[m.work] \in Digests \cup { None }
      BY <2>3 DEF TypeOK, PullRecord
    <3>2. pr[m.work].opened + 1 \in Nat
      BY <2>3, <3>1 DEF PullRecord
    <3>3. [opened |-> pr[m.work].opened + 1, open |-> TRUE, digest |-> branch[m.work]] \in PullRecord
      BY <3>1, <3>2 DEF PullRecord
    <3>4. \/ pr' = pr
          \/ pr' = [pr EXCEPT ![m.work] = [opened |-> pr[m.work].opened + 1, open |-> TRUE,
                                           digest |-> branch[m.work]]]
      BY <2>1 DEF AcceptPush, AcceptPullRequest, RefuseWrite
    <3> QED  BY <3>1, <3>3, <3>4
  <2>7. inflight' \subseteq Message
    BY <2>1 DEF TypeOK
  <2> QED  BY <2>2, <2>4, <2>5, <2>6, <2>7 DEF TypeOK, PullRecord
<1>5. CASE Crash
  <2>1. /\ UNCHANGED <<status, version, row, file, reviewed, audits, job, quarantined, branch, pr,
                       inflight, dbErrors>>
        /\ recoveryFailed' = FALSE /\ active' = {} /\ api' = "down"
        /\ upload' = [w \in Works |-> None]
    BY <1>5 DEF Crash, gateVars, remoteVars
  <2>2. crashes' \in 0..MaxCrashes
    BY <1>5, BoundsAssumption DEF Crash, TypeOK
  <2>3. at' \in [Tasks -> Stages]
    BY <1>5 DEF Crash, Stages
  <2>4. local' \in [Tasks -> LocalRecord]
    <3>1. NoLocal \in LocalRecord
      BY DEF NoLocal, LocalRecord
    <3> QED  BY <1>5, <3>1 DEF Crash
  <2> QED  BY <2>1, <2>2, <2>3, <2>4 DEF TypeOK, LocalRecord
<1>6. CASE Restart
  BY <1>6 DEF Restart, TypeOK, workVars, gateVars, taskVars, remoteVars
<1>7. CASE ScanJobs
  BY <1>7 DEF ScanJobs, TypeOK, Stages, workVars, gateVars, remoteVars
<1>8. CASE JoinRecovery
  BY <1>8 DEF JoinRecovery, TypeOK, workVars, gateVars, taskVars, remoteVars
<1>9. CASE UNCHANGED vars
  BY <1>9 DEF vars, TypeOK, workVars, gateVars, taskVars, remoteVars
<1> QED
  BY <1>1, <1>2, <1>3, <1>4, <1>5, <1>6, <1>7, <1>8, <1>9 DEF Next

-----------------------------------------------------------------------------
(* The attempts.                                                           *)

\* The parts of an attempt that one task sees.
AttemptOf(t) ==
  /\ at[t] # "idle" => job[WorkOf(t)].state # "absent"
  /\ at[t] \in Started => local[t].authority \in audits /\ local[t].authority.work = WorkOf(t)
  /\ at[t] \in Loaded => local[t].content = local[t].authority.digest
  /\ at[t] \in WriteStages => status[WorkOf(t)] = "committing"
  /\ at[t] \in Started /\ job[WorkOf(t)].state \in LiveJob =>
       job[WorkOf(t)].state = "running" /\ job[WorkOf(t)].attempts = local[t].attempt

\* AttemptStage holds exactly when every task has its part of it.
LEMMA AttemptByTask ==
  /\ AttemptStage <=> \A t \in Tasks : AttemptOf(t)
  /\ AttemptStage' <=> \A t \in Tasks : AttemptOf(t)'
<1>1. Started = Stages \ { "idle", "scheduled", "recovery", "authorization" }
  BY DEF Started, Engaged, Stages
<1> QED  BY <1>1 DEF AttemptStage, AttemptOf, AttemptOwnsItsJob

\* The stages of an attempt contain one another.
LEMMA StageOrder ==
  /\ Started \subseteq Engaged /\ Loaded \subseteq Started /\ WriteStages \subseteq Loaded
  /\ \A s \in { "idle", "scheduled", "recovery", "authorization" } : s \notin Started
  /\ \A s \in { "idle", "scheduled" } : s \notin Engaged
  /\ { "bundle", "failing" } \subseteq Started
  /\ { "recovery", "authorization" } \subseteq Engaged
  /\ { "token", "existing_pull_request", "existing_branch", "workspace", "push", "pull_request",
       "finalize" } \subseteq Loaded \ WriteStages
  /\ Loaded \cap { "bundle", "failing" } = {}
BY DEF Started, Loaded, Engaged, WriteStages, Stages

\* An attempt stays as it was while its job goes on as it was or ends, unless it holds the
\* locks of a write.
LEMMA AttemptUntouched ==
  ASSUME NEW u \in Tasks, AttemptOf(u), audits \subseteq audits',
         local'[u] = local[u], at'[u] = at[u],
         \/ job'[WorkOf(u)] = job[WorkOf(u)]
         \/ job'[WorkOf(u)].state \notin LiveJob \cup { "absent" },
         status'[WorkOf(u)] = status[WorkOf(u)] \/ at[u] \notin WriteStages
  PROVE  AttemptOf(u)'
BY DEF AttemptOf

\* A task that is not engaged has nothing but its job.
LEMMA AttemptWaits ==
  ASSUME NEW u \in Tasks, at'[u] \notin Started, job'[WorkOf(u)].state # "absent" \/ at'[u] = "idle"
  PROVE  AttemptOf(u)'
BY StageOrder DEF AttemptOf

\* A task that goes on keeps what it was given.
LEMMA AttemptGoesOn ==
  ASSUME NEW t \in Tasks, AttemptOf(t), audits \subseteq audits', local'[t] = local[t],
         at[t] \in Started, at'[t] \in Loaded => at[t] \in Loaded,
         at'[t] \in WriteStages => status'[WorkOf(t)] = "committing",
         job'[WorkOf(t)] = job[WorkOf(t)]
  PROVE  AttemptOf(t)'
BY StageOrder DEF AttemptOf

\* Each action of a task leaves its own attempt in order.
LEMMA OwnAttempt ==
  ASSUME TypeOK, GateStage, AttemptStage, NEW t \in Tasks, TaskStep(t)
  PROVE  AttemptOf(t)'
<1> DEFINE w == WorkOf(t)
<1>1. /\ w \in Works /\ at \in [Tasks -> Stages] /\ local \in [Tasks -> LocalRecord]
      /\ job \in [Works -> JobRecord]
  BY TaskFacts DEF TypeOK, JobRecord, LocalRecord
<1>2. AttemptOf(t) /\ audits' = audits
  BY AttemptByTask, TaskFlow DEF Own, gateVars
<1>3. ASSUME Return(t)  PROVE AttemptOf(t)'
  <2>1. at'[t] = "idle"
    BY <1>1, <1>3 DEF Return
  <2> QED  BY <2>1, AttemptWaits, StageOrder
<1>4. ASSUME NEW s, Advance(t, s), job' = job, at[t] \in Loaded, s \in { "failing" } \cup Loaded,
             s \in WriteStages => status'[w] = "committing"
      PROVE  AttemptOf(t)'
  <2>1. at'[t] = s /\ local' = local
    BY <1>1, <1>4 DEF Advance
  <2> QED  BY <1>1, <1>2, <1>4, <2>1, AttemptGoesOn, StageOrder
<1>5. CASE Reserve(t)
  <2>1. /\ at[t] = "scheduled" /\ job' = job
        /\ at'[t] \in { "idle", "recovery", "authorization" }
    BY <1>1, <1>5 DEF Reserve, Advance
  <2>2. job[w].state # "absent"
    BY <1>2, <2>1 DEF AttemptOf
  <2> QED  BY <2>1, <2>2, AttemptWaits, StageOrder
<1>6. CASE Rearm(t)
  <2>1. CASE Return(t)
    BY <1>3, <2>1
  <2>2. CASE ~Return(t)
    <3>1. at'[t] = "authorization" /\ job[w].state \in LiveJob
      BY <1>1, <1>6, <2>2 DEF Rearm, Advance, Deliverable
    <3>2. job'[w].state # "absent"
      BY <3>1, TaskOutcome DEF LiveJob
    <3> QED  BY <3>1, <3>2, AttemptWaits, StageOrder
  <2> QED  BY <2>1, <2>2
<1>7. CASE Start(t)
  <2>1. CASE Return(t)
    BY <1>3, <2>1
  <2>2. CASE ~Return(t)
    <3>1. /\ Authorized(w)
          /\ job' = [job EXCEPT ![w].state = "running", ![w].attempts = job[w].attempts + 1]
          /\ at' = [at EXCEPT ![t] = "bundle"]
          /\ local' = [local EXCEPT ![t] = [authority |-> job[w].approval,
                                            attempt |-> job[w].attempts + 1, content |-> None]]
      BY <1>7, <2>2 DEF Start
    <3>2. at'[t] = "bundle" /\ local'[t].authority = job[w].approval
          /\ local'[t].attempt = job[w].attempts + 1
      BY <1>1, <3>1
    <3>3. job'[w].state = "running" /\ job'[w].attempts = job[w].attempts + 1
      <4> DEFINE n == job[w].attempts + 1
      <4>1. job' = [job EXCEPT ![w] = [job[w] EXCEPT !.state = "running", !.attempts = n]]
        BY <1>1, <3>1
      <4> HIDE DEF n
      <4>2. job'[w].state = "running" /\ job'[w].attempts = n
        BY <1>1, <4>1 DEF JobRecord
      <4> QED  BY <4>2 DEF n
    <3>4. job[w].approval \in audits' /\ job[w].approval.work = w
      BY <1>2, <3>1 DEF Authorized
    <3> HIDE DEF w
    <3> QED  BY <3>2, <3>3, <3>4, StageOrder DEF AttemptOf, w
  <2> QED  BY <2>1, <2>2
<1>8. CASE ReadBundle(t)
  <2> DEFINE c == VerifiedBytes(w, local[t].authority.digest)
  <2>1. /\ at[t] = "bundle" /\ job' = job
        /\ at' = [at EXCEPT ![t] = IF c = None THEN "failing" ELSE "token"]
        /\ local' = [local EXCEPT ![t].content = c]
    BY <1>8 DEF ReadBundle
  <2>2. c # None => c = local[t].authority.digest
    BY DEF VerifiedBytes
  <2> HIDE DEF c
  <2>3. /\ local'[t].content = c /\ local'[t].authority = local[t].authority
        /\ local'[t].attempt = local[t].attempt
        /\ at'[t] = IF c = None THEN "failing" ELSE "token"
    BY <1>1, <2>1 DEF LocalRecord
  <2> QED  BY <1>2, <2>1, <2>2, <2>3, StageOrder DEF AttemptOf
<1>9. CASE TakeGuard(t)
  <2>1. at[t] \in Loaded /\ job' = job /\ status' = status
    BY <1>9, StageOrder DEF TakeGuard, workVars
  <2>2. CASE Return(t)
    BY <1>3, <2>2
  <2>3. CASE Advance(t, "failing")
    BY <1>4, <2>1, <2>3, StageOrder
  <2>4. CASE ~Return(t) /\ ~Advance(t, "failing")
    <3>1. PICK s \in WriteStages : Advance(t, s)
      BY <1>9, <2>4 DEF TakeGuard, WriteStages
    <3>2. status[w] = "committing"
      BY <1>9, <2>4 DEF TakeGuard, Deliverable
    <3> QED  BY <1>4, <2>1, <3>1, <3>2, StageOrder
  <2> QED  BY <2>2, <2>3, <2>4
<1>10. CASE GuardTimeout(t) \/ ReceiveToken(t) \/ LookupPullRequest(t) \/ LookupBranch(t)
            \/ PrepareCommit(t) \/ StageFails(t)
  <2>1. at[t] \in Loaded /\ job' = job
    BY <1>10, StageOrder DEF GuardTimeout, ReceiveToken, LookupPullRequest, LookupBranch,
       PrepareCommit, StageFails, WriteStages
  <2>2. \E s \in { "failing" } \cup (Loaded \ WriteStages) : Advance(t, s)
    BY <1>10, StageOrder DEF GuardTimeout, ReceiveToken, LookupPullRequest, LookupBranch,
       PrepareCommit, StageFails
  <2> QED  BY <1>4, <2>1, <2>2, StageOrder
<1>11. CASE Finalize(t)
  <2>1. CASE Return(t)
    BY <1>3, <2>1
  <2>2. CASE ~Return(t)
    <3>1. Advance(t, "failing") /\ job' = job /\ at[t] = "finalize"
      BY <1>11, <2>2 DEF Finalize
    <3> QED  BY <1>4, <3>1, StageOrder
  <2> QED  BY <2>1, <2>2
<1>12. CASE RecordFailure(t) \/ PersistenceError(t)
  BY <1>3, <1>12 DEF RecordFailure, PersistenceError
<1> QED
  BY <1>5, <1>6, <1>7, <1>8, <1>9, <1>10, <1>11, <1>12 DEF TaskStep

\* Every step leaves every attempt in order.
LEMMA AttemptKept ==
  ASSUME IInv, [Next]_vars
  PROVE  AttemptStage'
<1>1. TypeOK /\ ActiveStage /\ GateStage /\ AttemptStage
  BY DEF IInv
<1> SUFFICES ASSUME NEW u \in Tasks  PROVE AttemptOf(u)'
  BY AttemptByTask
<1>2. AttemptOf(u) /\ WorkOf(u) \in Works
  BY <1>1, AttemptByTask, TaskFacts
<1>3. ASSUME UNCHANGED <<at, local, job, audits>>,
             status'[WorkOf(u)] = status[WorkOf(u)] \/ at[u] \notin WriteStages
      PROVE  AttemptOf(u)'
  BY <1>2, <1>3, AttemptUntouched
<1>4. ASSUME NEW w \in Works, GateStep(w)  PROVE AttemptOf(u)'
  <2>1. CASE WorkerTransition(w) \/ SendBack(w)
    <3>1. UNCHANGED <<at, local, job, audits>>
      BY <2>1 DEF WorkerTransition, SendBack, taskVars, gateVars
    <3>2. CASE WorkOf(u) # w
      <4>1. status'[WorkOf(u)] = status[WorkOf(u)]
        BY <1>1, <1>2, <2>1, <3>2 DEF WorkerTransition, SendBack, Transition, TypeOK
      <4> QED  BY <1>3, <3>1, <4>1
    <3>3. CASE WorkOf(u) = w
      <4>1. at[u] \notin WriteStages
        BY <1>1, <2>1, <3>3, Unlocked DEF WorkerTransition, SendBack, LeaseValid
      <4> QED  BY <1>3, <3>1, <4>1
    <3> QED  BY <3>2, <3>3
  <2>2. CASE CommitBundle(w) \/ Review(w) \/ ClosePullRequest(w)
    <3>1. UNCHANGED <<at, local, job, audits, status>>
      BY <2>2 DEF CommitBundle, Review, ClosePullRequest, taskVars, gateVars, workVars
    <3> QED  BY <1>3, <3>1
  <2>3. ASSUME NEW d \in Digests, WriteBundleFile(w, d)  PROVE AttemptOf(u)'
    <3>1. UNCHANGED <<at, local, job, audits, status>>
      BY <2>3 DEF WriteBundleFile, taskVars, gateVars
    <3> QED  BY <1>3, <3>1
  <2>4. CASE Approve(w)
    <3> DEFINE audit == [work |-> w, version |-> version[w] + 1, digest |-> row[w]]
               t == <<w, "request">>
    <3>1. /\ audits \subseteq audits' /\ QueueDelivery(w, audit) /\ local' = local
          /\ at' = [at EXCEPT ![t] = "scheduled"]
          /\ status' = [status EXCEPT ![w] = "committing"] /\ status[w] = "awaiting_approval"
      BY <2>4 DEF Approve, Transition
    <3>2. job[w].state = "absent"
      BY <1>1, <3>1, GateByWork, NotApproved DEF TerminalWork
    <3>3. job'[w].state = "pending" /\ \A v \in Works \ { w } : job'[v] = job[v]
      BY <1>1, <3>1, <3>2 DEF QueueDelivery, TypeOK
    <3> HIDE DEF audit
    <3>4. CASE WorkOf(u) # w
      <4>1. at'[u] = at[u] /\ status'[WorkOf(u)] = status[WorkOf(u)]
            /\ job'[WorkOf(u)] = job[WorkOf(u)]
        BY <1>1, <1>2, <3>1, <3>3, <3>4, TaskFacts DEF TypeOK
      <4> QED  BY <1>2, <3>1, <4>1, AttemptUntouched
    <3>5. CASE WorkOf(u) = w
      <4>1. at[u] = "idle"
        BY <1>2, <3>2, <3>5 DEF AttemptOf
      <4>2. at'[u] \in { "idle", "scheduled" }
        BY <1>1, <3>1, <4>1 DEF TypeOK
      <4> QED  BY <3>3, <3>5, <4>2, AttemptWaits, StageOrder
    <3> QED  BY <3>4, <3>5
  <2> QED  BY <1>4, <2>1, <2>2, <2>3, <2>4 DEF GateStep
<1>5. ASSUME NEW k \in Workers, Quarantine(k)  PROVE AttemptOf(u)'
  <2>1. UNCHANGED <<at, local, audits>> /\ ~WorkerLocked(k)
    BY <1>5 DEF Quarantine, taskVars, gateVars
  <2>2. job'[WorkOf(u)] = job[WorkOf(u)] \/ job'[WorkOf(u)].state = "quarantined"
    BY <1>1, <1>2, <1>5 DEF Quarantine, TypeOK
  <2>3. status'[WorkOf(u)] = status[WorkOf(u)] \/ at[u] \notin WriteStages
    <3>1. CASE Assigned[WorkOf(u)] # k
      BY <1>2, <1>5, <3>1 DEF Quarantine, Stopped
    <3>2. CASE Assigned[WorkOf(u)] = k
      BY <1>1, <1>2, <2>1, <3>2, Unlocked
    <3> QED  BY <3>1, <3>2
  <2> QED  BY <1>2, <2>1, <2>2, <2>3, AttemptUntouched DEF LiveJob
<1>6. ASSUME NEW t \in Tasks, TaskStep(t)  PROVE AttemptOf(u)'
  <2>1. CASE u = t
    BY <1>1, <1>6, <2>1, OwnAttempt
  <2>2. CASE u # t
    <3>1. at'[u] = at[u] /\ local'[u] = local[u] /\ audits' = audits
      BY <1>1, <1>6, <2>2, TaskFlow DEF Own, gateVars, TypeOK
    <3>2. CASE WorkOf(u) # WorkOf(t)
      <4>1. status'[WorkOf(u)] = status[WorkOf(u)] /\ job'[WorkOf(u)] = job[WorkOf(u)]
        BY <1>1, <1>2, <1>6, <3>2, TaskFlow DEF Own
      <4> QED  BY <1>2, <3>1, <4>1, AttemptUntouched
    <3>3. CASE WorkOf(u) = WorkOf(t)
      <4>1. CASE at[u] \in Started
        <5>1. at[t] \notin Engaged
          BY <1>1, <2>2, <3>3, <4>1, StageOrder DEF ActiveStage
        <5>2. Reserve(t)
          BY <1>1, <1>6, <5>1, TaskFlow DEF Flow
        <5>3. status' = status /\ job' = job
          BY <5>2 DEF Reserve, workVars
        <5> QED  BY <1>2, <3>1, <5>3, AttemptUntouched
      <4>2. CASE at[u] \notin Started
        <5>1. at[u] = "idle" \/ job[WorkOf(u)].state # "absent"
          BY <1>2 DEF AttemptOf
        <5>2. job[WorkOf(u)].state # "absent" => job'[WorkOf(u)].state # "absent"
          BY <1>1, <1>6, <3>3, TaskOutcome DEF LiveJob
        <5> QED  BY <3>1, <4>2, <5>1, <5>2, AttemptWaits
      <4> QED  BY <4>1, <4>2
    <3> QED  BY <3>2, <3>3
  <2> QED  BY <2>1, <2>2
<1>7. CASE RemoteStep
  <2>1. UNCHANGED <<status, job, audits, local>>
    BY <1>7 DEF RemoteStep, workVars, gateVars
  <2>2. CASE at'[u] = at[u]
    BY <1>2, <2>1, <2>2, AttemptUntouched
  <2>3. CASE at'[u] # at[u]
    <3>1. /\ at[u] \in Loaded /\ at'[u] \in { "failing" } \cup (Loaded \ WriteStages)
      BY <1>1, <1>7, <2>3, RemoteFlow, StageOrder DEF WriteStages
    <3> QED  BY <1>2, <2>1, <3>1, AttemptGoesOn, StageOrder
  <2> QED  BY <2>2, <2>3
<1>8. CASE Crash
  BY <1>8, AttemptWaits, StageOrder DEF Crash
<1>9. CASE ScanJobs
  <2>1. UNCHANGED <<status, job, audits, local>>
    BY <1>9 DEF ScanJobs, workVars, gateVars
  <2>2. CASE at'[u] = at[u]
    BY <1>2, <2>1, <2>2, AttemptUntouched
  <2>3. CASE at'[u] # at[u]
    BY <1>9, <2>1, <2>3, AttemptWaits, StageOrder DEF ScanJobs, Scanned, LiveJob
  <2> QED  BY <2>2, <2>3
<1>10. CASE Restart \/ JoinRecovery \/ UNCHANGED vars
  <2>1. UNCHANGED <<at, local, job, audits, status>>
    BY <1>10 DEF Restart, JoinRecovery, vars, taskVars, gateVars, workVars
  <2> QED  BY <1>3, <2>1
<1> QED
  BY <1>4, <1>5, <1>6, <1>7, <1>8, <1>9, <1>10 DEF Next

-----------------------------------------------------------------------------
(* What reaches the remote host.                                           *)

\* What is out stays approved, and nothing new goes out, while the remote host and its
\* requests are left alone and tasks stop or stay where they are.
LEMMA PublicationQuiet ==
  ASSUME PublicationStage, UNCHANGED remoteVars, audits \subseteq audits',
         \A t \in Tasks : at'[t] = at[t] \/ at'[t] \notin Publishing \cup { "finalize" }
  PROVE  PublicationStage'
BY DEF PublicationStage, Approved, AtMostOnePullRequest, remoteVars

\* How a task comes to publish or to finalize, and what it sends.
LEMMA TaskPublishes ==
  ASSUME IInv, NEW t \in Tasks, TaskStep(t)
  PROVE  /\ at'[t] \in Publishing => at[t] \in Publishing \/ pr[WorkOf(t)].opened = 0
         /\ at'[t] = "finalize" => pr[WorkOf(t)].opened > 0
         /\ \/ inflight' = inflight
            \/ \E m : /\ inflight' = inflight \cup { m } /\ m.work = WorkOf(t)
                      /\ Approved(m.work, m.digest)
                      /\ m.kind = "pull_request" => at[t] \in Publishing
<1> USE DEF Publishing
<1>1. /\ at \in [Tasks -> Stages] /\ WorkOf(t) \in Works /\ pr[WorkOf(t)].opened \in Nat
      /\ t[2] \in { "request", "recovery" }
  BY TaskFacts DEF IInv, TypeOK
<1>2. CASE Reserve(t) \/ Rearm(t) \/ Start(t) \/ ReadBundle(t) \/ GuardTimeout(t) \/ ReceiveToken(t)
           \/ StageFails(t) \/ Finalize(t) \/ RecordFailure(t) \/ PersistenceError(t)
  <2>1. inflight' = inflight
    BY <1>2 DEF Reserve, Rearm, Start, ReadBundle, GuardTimeout, ReceiveToken, StageFails, Finalize,
       RecordFailure, PersistenceError, remoteVars
  <2>2. at'[t] \in { "idle", "recovery", "authorization", "bundle", "failing", "token",
                     "existing_pull_request" }
    BY <1>1, <1>2 DEF Reserve, Rearm, Start, ReadBundle, GuardTimeout, ReceiveToken, StageFails,
       Finalize, RecordFailure, PersistenceError, Advance, Return
  <2> QED  BY <2>1, <2>2
<1>3. CASE LookupPullRequest(t)
  BY <1>1, <1>3 DEF LookupPullRequest, Advance, FoundPullRequest, remoteVars
<1>4. CASE LookupBranch(t) \/ PrepareCommit(t)
  BY <1>1, <1>4 DEF LookupBranch, PrepareCommit, Advance, remoteVars
<1>5. CASE TakeGuard(t)
  <2>1. at[t] \in { "token", "push", "pull_request" }
    BY <1>5 DEF TakeGuard
  <2>2. CASE Return(t) \/ Advance(t, "failing")
    <3>1. at'[t] \notin Publishing \cup { "finalize" }
      BY <1>1, <2>2 DEF Return, Advance
    <3>2. inflight' = inflight
      BY <1>1, <1>5, <2>1, <2>2 DEF TakeGuard, Return, Advance
    <3> QED  BY <3>1, <3>2
  <2>3. CASE ~Return(t) /\ ~Advance(t, "failing")
    <3> DEFINE m == [work |-> WorkOf(t), kind |-> at[t], digest |-> local[t].content,
                     attempt |-> local[t].attempt]
    <3>1. at[t] = "token" => at'[t] = "token_write" /\ inflight' = inflight
      BY <1>1, <1>5, <2>3 DEF TakeGuard, Advance
    <3>2. at[t] # "token" => at'[t] \in { "push_write", "pull_request_write" }
                             /\ inflight' = inflight \cup { m }
      BY <1>1, <1>5, <2>1, <2>3 DEF TakeGuard, Advance
    <3>3. Approved(WorkOf(t), local[t].content)
      <4>1. AttemptOf(t)
        BY AttemptByTask DEF IInv
      <4> QED  BY <2>1, <4>1, StageOrder DEF AttemptOf, Approved
    <3>4. m.work = WorkOf(t) /\ m.digest = local[t].content /\ m.kind = at[t]
      OBVIOUS
    <3> HIDE DEF m
    <3> QED  BY <2>1, <3>1, <3>2, <3>3, <3>4
  <2> QED  BY <2>2, <2>3
<1> QED
  BY <1>2, <1>3, <1>4, <1>5 DEF TaskStep

\* An answer leaves what is out approved, and the first pull request is the last.
LEMMA RemotePublishes ==
  ASSUME TypeOK, ActiveStage, PublicationStage, RemoteStep
  PROVE  PublicationStage'
<1>1. PICK m \in inflight : inflight' = inflight \ { m }
                            /\ (AcceptPush(m) \/ AcceptPullRequest(m) \/ RefuseWrite(m))
  BY DEF RemoteStep
<1>2. m.work \in Works /\ audits' = audits /\ Approved(m.work, m.digest)
  BY <1>1 DEF TypeOK, Message, RemoteStep, gateVars, PublicationStage
<1>3. /\ pr \in [Works -> PullRecord] /\ branch \in [Works -> Digests \cup { None }]
      /\ at \in [Tasks -> Stages]
  BY DEF TypeOK, PullRecord
<1>4. \A w \in Works : pr[w].opened \in Nat
  BY <1>3 DEF PullRecord
<1>5. CASE AcceptPush(m)
  <2>1. pr' = pr /\ branch' = [branch EXCEPT ![m.work] = m.digest]
    BY <1>5 DEF AcceptPush
  <2>2. \A t \in Tasks : \/ at'[t] = at[t]
                         \/ at[t] = "push_write" /\ at'[t] = "pull_request"
    BY <1>5 DEF AcceptPush, Answer, Waiting
  <2>3. \A w \in Works : branch'[w] # None => Approved(w, branch'[w])
    BY <1>2, <1>3, <2>1 DEF PublicationStage
  <2> QED
    BY <1>1, <1>2, <2>1, <2>2, <2>3 DEF PublicationStage, Publishing, Approved, AtMostOnePullRequest
<1>6. CASE AcceptPullRequest(m)
  <2> DEFINE w == m.work
  <2>1. /\ branch' = branch /\ branch[w] # None /\ ~pr[w].open /\ m.kind = "pull_request"
        /\ pr' = [pr EXCEPT ![w] = [opened |-> pr[w].opened + 1, open |-> TRUE,
                                   digest |-> branch[w]]]
    BY <1>6 DEF AcceptPullRequest
  <2>2. pr[w].opened = 0
    BY <1>2, <1>4, <2>1 DEF PublicationStage
  <2>3. pr'[w].opened = 1 /\ pr'[w].open /\ pr'[w].digest = branch[w]
    BY <1>2, <1>3, <2>1, <2>2
  <2>4. \A v \in Works \ { w } : pr'[v] = pr[v]
    BY <1>3, <2>1
  <2>5. \A t \in Tasks : at'[t] = at[t] \/ (WorkOf(t) = w /\ at'[t] = "finalize")
    BY <1>6 DEF AcceptPullRequest, Answer, Waiting
  <2>6. Approved(w, branch[w])
    BY <1>2, <2>1 DEF PublicationStage
  <2> HIDE DEF w
  <2>7. \A v \in Works : /\ pr'[v].opened > 0 => Approved(v, pr'[v].digest)
                         /\ pr'[v].opened = 0 => pr'[v].digest = None /\ ~pr'[v].open
                         /\ pr'[v].opened <= 1
    BY <2>3, <2>4, <2>6 DEF PublicationStage, AtMostOnePullRequest
  <2>8. \A v \in Works : pr'[v].opened > 0 /\ ~pr'[v].open =>
          /\ \A n \in inflight' : n.work = v => n.kind # "pull_request"
          /\ \A t \in Tasks : WorkOf(t) = v => at'[t] \notin Publishing
    BY <1>1, <2>3, <2>4, <2>5 DEF PublicationStage, Publishing
  <2>9. \A t \in Tasks : at'[t] = "finalize" => pr'[WorkOf(t)].opened > 0
    BY <2>3, <2>4, <2>5, TaskFacts DEF PublicationStage
  <2> QED
    BY <1>1, <1>2, <2>1, <2>7, <2>8, <2>9 DEF PublicationStage, Approved, AtMostOnePullRequest
<1>7. CASE RefuseWrite(m)
  <2>1. pr' = pr /\ branch' = branch
    BY <1>7 DEF RefuseWrite
  <2>2. \A t \in Tasks : at'[t] = at[t] \/ at'[t] = "failing"
    BY <1>7 DEF RefuseWrite, Answer
  <2> QED
    BY <1>1, <1>2, <2>1, <2>2 DEF PublicationStage, Publishing, Approved, AtMostOnePullRequest
<1> QED  BY <1>1, <1>5, <1>6, <1>7

\* Every step keeps to the approved patch and to one pull request.
LEMMA PublicationKept ==
  ASSUME IInv, [Next]_vars
  PROVE  PublicationStage'
<1>1. TypeOK /\ ActiveStage /\ GateStage /\ PublicationStage
  BY DEF IInv
<1>2. ASSUME UNCHANGED <<branch, pr, inflight>>, audits \subseteq audits', at' = at
      PROVE  PublicationStage'
  BY <1>1, <1>2, PublicationQuiet DEF remoteVars
<1>3. ASSUME NEW w \in Works, GateStep(w)  PROVE PublicationStage'
  <2>1. CASE WorkerTransition(w) \/ CommitBundle(w) \/ Review(w) \/ SendBack(w)
    <3>1. UNCHANGED <<branch, pr, inflight, audits, at>>
      BY <2>1 DEF WorkerTransition, CommitBundle, Review, SendBack, remoteVars, gateVars, taskVars
    <3> QED  BY <1>2, <3>1
  <2>2. ASSUME NEW d \in Digests, WriteBundleFile(w, d)  PROVE PublicationStage'
    <3>1. UNCHANGED <<branch, pr, inflight, audits, at>>
      BY <2>2 DEF WriteBundleFile, remoteVars, gateVars, taskVars
    <3> QED  BY <1>2, <3>1
  <2>3. CASE Approve(w)
    <3>1. /\ audits \subseteq audits' /\ UNCHANGED remoteVars
          /\ at' = [at EXCEPT ![<<w, "request">>] = "scheduled"]
      BY <2>3 DEF Approve
    <3>2. \A t \in Tasks : at'[t] = at[t] \/ at'[t] = "scheduled"
      BY <1>1, <3>1 DEF TypeOK
    <3> QED  BY <1>1, <3>1, <3>2, PublicationQuiet DEF Publishing
  <2>4. CASE ClosePullRequest(w)
    <3>1. /\ pr[w].open /\ w \notin active /\ \A m \in inflight : m.work # w
          /\ UNCHANGED <<inflight, audits, at>>
          /\ pr' = [pr EXCEPT ![w].open = FALSE]
      BY <2>4 DEF ClosePullRequest, gateVars, taskVars
    <3>2. \A v \in Works : branch'[v] \in { branch[v], None }
      BY <1>1, <2>4 DEF ClosePullRequest, TypeOK
    <3>3. /\ pr'[w].opened = pr[w].opened /\ pr'[w].digest = pr[w].digest /\ ~pr'[w].open
          /\ \A v \in Works \ { w } : pr'[v] = pr[v]
      BY <1>1, <3>1 DEF TypeOK
    <3>4. \A t \in Tasks : WorkOf(t) = w => at[t] \notin Publishing
      <4>1. Publishing \subseteq Engaged
        BY DEF Publishing, Engaged, Stages, WriteStages
      <4> QED  BY <1>1, <3>1, <4>1 DEF ActiveStage
    <3>5. \A v \in Works : pr'[v].opened > 0 /\ ~pr'[v].open =>
            /\ \A m \in inflight : m.work = v => m.kind # "pull_request"
            /\ \A t \in Tasks : WorkOf(t) = v => at[t] \notin Publishing
      BY <1>1, <3>1, <3>3, <3>4 DEF PublicationStage
    <3>6. \A v \in Works : pr'[v].opened = pr[v].opened /\ pr'[v].digest = pr[v].digest
                           /\ (~pr[v].open => ~pr'[v].open)
      BY <3>3
    <3> QED
      BY <1>1, <3>1, <3>2, <3>5, <3>6, TaskFacts DEF PublicationStage, Approved,
         AtMostOnePullRequest
  <2> QED  BY <1>3, <2>1, <2>2, <2>3, <2>4 DEF GateStep
<1>4. ASSUME NEW k \in Workers, Quarantine(k)  PROVE PublicationStage'
  BY <1>2, <1>4 DEF Quarantine, remoteVars, gateVars, taskVars
<1>5. ASSUME NEW t \in Tasks, TaskStep(t)  PROVE PublicationStage'
  <2>1. UNCHANGED <<branch, pr, audits>> /\ \A u \in Tasks : u # t => at'[u] = at[u]
    BY <1>1, <1>5, TaskFlow DEF Own, gateVars, TypeOK
  <2>2. /\ at'[t] \in Publishing => at[t] \in Publishing \/ pr[WorkOf(t)].opened = 0
        /\ at'[t] = "finalize" => pr[WorkOf(t)].opened > 0
        /\ \/ inflight' = inflight
           \/ \E m : /\ inflight' = inflight \cup { m } /\ m.work = WorkOf(t)
                     /\ Approved(m.work, m.digest)
                     /\ m.kind = "pull_request" => at[t] \in Publishing
    BY <1>5, TaskPublishes
  <2>3. \A m \in inflight' : Approved(m.work, m.digest)
    BY <1>1, <2>2 DEF PublicationStage
  <2>4. \A w \in Works : pr[w].opened > 0 /\ ~pr[w].open =>
          /\ \A m \in inflight' : m.work = w => m.kind # "pull_request"
          /\ \A u \in Tasks : WorkOf(u) = w => at'[u] \notin Publishing
    BY <1>1, <2>1, <2>2 DEF PublicationStage
  <2> QED
    BY <1>1, <2>1, <2>2, <2>3, <2>4 DEF PublicationStage, Approved, AtMostOnePullRequest
<1>6. CASE RemoteStep
  BY <1>1, <1>6, RemotePublishes
<1>7. CASE Crash
  <2>1. UNCHANGED <<remoteVars, audits>> /\ \A t \in Tasks : at'[t] = "idle"
    BY <1>7 DEF Crash, gateVars
  <2> QED  BY <1>1, <2>1, PublicationQuiet DEF Publishing
<1>8. CASE ScanJobs
  <2>1. UNCHANGED <<remoteVars, audits>> /\ \A t \in Tasks : at'[t] = at[t] \/ at'[t] = "scheduled"
    BY <1>8 DEF ScanJobs, gateVars
  <2> QED  BY <1>1, <2>1, PublicationQuiet DEF Publishing
<1>9. CASE Restart \/ JoinRecovery \/ UNCHANGED vars
  <2>1. UNCHANGED <<branch, pr, inflight, audits, at>>
    BY <1>9 DEF Restart, JoinRecovery, vars, remoteVars, gateVars, taskVars
  <2> QED  BY <1>2, <2>1
<1> QED
  BY <1>3, <1>4, <1>5, <1>6, <1>7, <1>8, <1>9 DEF Next

-----------------------------------------------------------------------------
(* Recovery.                                                               *)

\* What a committing work can count on.
RecoveryOf(w) ==
  /\ Attended(w)
  /\ \A t \in Tasks : WorkOf(t) = w /\ at[t] = "authorization" => job[w].state # "running"
  /\ job[w].state = "running" /\ at[<<w, "request">>] = "scheduled" =>
       \E t \in Tasks : WorkOf(t) = w /\ at[t] \in Started

\* It goes on counting on it while its tasks stop nowhere and its job stays as it is.
LEMMA RecoveryGoesOn ==
  ASSUME NEW w \in Works, RecoveryOf(w), UNCHANGED <<api, recoveryFailed>>, job'[w] = job[w],
         \A t \in Tasks : at'[t] = at[t] \/ (at[t] \in Started /\ at'[t] \in Started)
  PROVE  RecoveryOf(w)'
BY TaskFacts, StageOrder DEF RecoveryOf, Attended

\* A task of another work changes nothing of it.
LEMMA RecoveryOfOthers ==
  ASSUME NEW w \in Works, RecoveryOf(w), api' = api, recoveryFailed => recoveryFailed',
         job'[w] = job[w], \A t \in Tasks : WorkOf(t) = w => at'[t] = at[t]
  PROVE  RecoveryOf(w)'
BY TaskFacts DEF RecoveryOf, Attended

\* A task whose work still commits after its step goes on with it, is being started, or is a
\* recovery that gave up and will be repeated.
LEMMA OwnRecovery ==
  ASSUME IInv, dbErrors = 0, dbErrors' = 0, NEW t \in Tasks, TaskStep(t),
         status[WorkOf(t)] = "committing", status'[WorkOf(t)] = "committing"
  PROVE  RecoveryOf(WorkOf(t))'
<1> DEFINE w == WorkOf(t)
<1>1. TypeOK /\ ActiveStage /\ GateStage /\ AttemptStage /\ w \in Works
  BY TaskFacts DEF IInv
<1>2. /\ at \in [Tasks -> Stages] /\ at' = [at EXCEPT ![t] = at'[t]] /\ api' = api
  BY <1>1, TaskFlow DEF Own, TypeOK
<1>3. /\ Authorized(w) /\ ~quarantined[Assigned[w]] /\ job[w].state \in LiveJob
  BY <1>1, Committing
<1>4. RecoveryOf(w) /\ AttemptOf(t)
  BY <1>1, AttemptByTask DEF IInv, RecoveryStage, RecoveryOf
<1>5. at[t] \in Started => Deliverable(w, { "running" })
  BY <1>3, <1>4 DEF Deliverable, AttemptOf
<1>6. \A u \in Tasks : u # t => at'[u] = at[u]
  BY <1>2
<1>7. ASSUME at[t] \in Engaged, at'[t] \in Started  PROVE RecoveryOf(w)'
  <2>1. \A u \in Tasks : WorkOf(u) = w => at'[u] # "authorization"
    BY <1>1, <1>2, <1>7, StageOrder DEF ActiveStage
  <2>2. at'[t] # "idle"
    BY <1>7, StageOrder
  <2> QED  BY <1>7, <2>1, <2>2 DEF RecoveryOf, Attended
<1>8. CASE Reserve(t)
  <2>1. at[t] = "scheduled" /\ UNCHANGED <<api, recoveryFailed, job>>
    BY <1>8 DEF Reserve
  <2>2. \A u \in Tasks : at[u] \in Started => at'[u] = at[u]
    BY <1>6, <2>1, StageOrder
  <2>3. CASE w \in active
    <3>1. at'[t] = "idle"
      BY <1>2, <1>8, <2>3 DEF Reserve, Advance
    <3>2. PICK u \in Tasks : WorkOf(u) = w /\ at[u] \in Engaged
      BY <1>1, <2>3 DEF ActiveStage
    <3>3. at'[u] # "idle"
      BY <1>6, <2>1, <3>2, StageOrder
    <3>4. \A v \in Tasks : at'[v] = at[v] \/ at'[v] = "idle"
      BY <1>6, <3>1
    <3>5. Attended(w)'
      BY <3>2, <3>3 DEF Attended
    <3> QED  BY <1>1, <1>4, <2>1, <2>2, <3>4, <3>5, TaskFacts DEF RecoveryOf
  <2>4. CASE w \notin active
    <3>1. at'[t] = IF t[2] = "recovery" THEN "recovery" ELSE "authorization"
      BY <1>2, <1>8, <2>4 DEF Reserve
    <3>2. \A u \in Tasks : WorkOf(u) = w => at[u] \notin Engaged
      BY <1>1, <2>4 DEF ActiveStage
    <3>3. at'[t] = "authorization" => job[w].state # "running"
      <4>1. SUFFICES ASSUME at'[t] = "authorization"  PROVE job[w].state # "running"
        OBVIOUS
      <4>2. t = <<w, "request">>
        BY <3>1, <4>1, TaskFacts
      <4> HIDE DEF w
      <4> QED  BY <1>4, <2>1, <3>2, <4>2, StageOrder DEF RecoveryOf
    <3>4. \A u \in Tasks : WorkOf(u) = w /\ at'[u] = "authorization" => job[w].state # "running"
      BY <1>4, <1>6, <3>3 DEF RecoveryOf
    <3>5. job[w].state = "running" => at'[<<w, "request">>] # "scheduled"
      <4>1. job[w].state = "running" => at[<<w, "request">>] # "scheduled"
        BY <1>4, <3>2, StageOrder DEF RecoveryOf
      <4> QED  BY <1>1, <1>6, <3>1, <4>1, TaskFacts
    <3>6. Attended(w)'
      BY <3>1 DEF Attended
    <3> QED  BY <2>1, <3>4, <3>5, <3>6 DEF RecoveryOf
  <2> QED  BY <2>3, <2>4
<1>9. CASE Rearm(t)
  <2>1. Deliverable(w, LiveJob)
    BY <1>3 DEF Deliverable
  <2>2. /\ at'[t] = "authorization"
        /\ job' = [job EXCEPT ![w].state = IF @ = "running" THEN "retry" ELSE @]
    BY <1>2, <1>9, <2>1 DEF Rearm, Advance
  <2>3. job'[w].state # "running"
    BY <1>1, <2>2 DEF TypeOK
  <2> QED  BY <2>2, <2>3 DEF RecoveryOf, Attended
<1>10. CASE Start(t)
  <2>1. Deliverable(w, { "pending", "retry" })
    BY <1>3, <1>4, <1>10 DEF Start, Deliverable, RecoveryOf, LiveJob
  <2>2. at[t] = "authorization" /\ at'[t] = "bundle"
    BY <1>2, <1>3, <1>10, <2>1 DEF Start
  <2> QED  BY <1>7, <2>2, StageOrder
<1>11. CASE ReadBundle(t) \/ GuardTimeout(t) \/ ReceiveToken(t) \/ LookupPullRequest(t)
            \/ LookupBranch(t) \/ PrepareCommit(t) \/ StageFails(t)
  <2>1. at[t] \in Started
    BY <1>11, StageOrder DEF ReadBundle, GuardTimeout, ReceiveToken, LookupPullRequest, LookupBranch,
       PrepareCommit, StageFails, WriteStages
  <2>2. at'[t] \in Started
    BY <1>2, <1>11, StageOrder DEF ReadBundle, GuardTimeout, ReceiveToken, LookupPullRequest,
       LookupBranch, PrepareCommit, StageFails, Advance
  <2> QED  BY <1>7, <2>1, <2>2, StageOrder
<1>12. CASE TakeGuard(t)
  <2>1. at[t] \in Started
    BY <1>12, StageOrder DEF TakeGuard
  <2>2. \E s \in WriteStages \cup { "failing" } : Advance(t, s)
    BY <1>5, <1>12, <2>1 DEF TakeGuard, WriteStages
  <2>3. at'[t] \in Started
    BY <1>2, <2>2, StageOrder DEF Advance
  <2> QED  BY <1>7, <2>1, <2>3, StageOrder
<1>13. CASE Finalize(t)
  <2>1. at[t] \in Started /\ status' # [status EXCEPT ![w] = "completed"]
    BY <1>1, <1>13, StageOrder DEF Finalize, TypeOK
  <2>2. Advance(t, "failing")
    BY <1>5, <1>13, <2>1 DEF Finalize
  <2>3. at'[t] \in Started
    BY <1>2, <2>2, StageOrder DEF Advance
  <2> QED  BY <1>7, <2>1, <2>3, StageOrder
<1>14. CASE RecordFailure(t)
  <2>1. at[t] \in Started
    BY <1>14, StageOrder DEF RecordFailure
  <2>2. status' = [status EXCEPT ![w] = "failed"]
    BY <1>5, <1>14, <2>1 DEF RecordFailure, FailDelivery, Transition
  <2>3. status'[w] = "failed"
    BY <1>1, <2>2 DEF TypeOK
  <2> QED  BY <2>3
<1>15. CASE PersistenceError(t)
  <2>1. /\ at[t] = "recovery" /\ recoveryFailed' = (recoveryFailed \/ t[2] = "recovery")
        /\ at'[t] = "idle" /\ job' = job
    BY <1>2, <1>15 DEF PersistenceError, Return
  <2>2. t[2] = "recovery" /\ api = "recovering"
    BY <1>1, <2>1 DEF ActiveStage
  <2>3. Attended(w)'
    BY <1>2, <2>1, <2>2 DEF Attended
  <2>4. \A u \in Tasks : at[u] \in Started => at'[u] = at[u]
    BY <1>6, <2>1, StageOrder
  <2>5. \A v \in Tasks : at'[v] = at[v] \/ at'[v] = "idle"
    BY <1>6, <2>1
  <2> QED  BY <1>1, <1>4, <2>1, <2>3, <2>4, <2>5, TaskFacts DEF RecoveryOf
<1> QED
  BY <1>8, <1>9, <1>10, <1>11, <1>12, <1>13, <1>14, <1>15 DEF TaskStep

\* Every step leaves a committing work something to count on.
LEMMA RecoveryKept ==
  ASSUME IInv, [Next]_vars
  PROVE  RecoveryStage'
<1>1. TypeOK /\ ActiveStage /\ GateStage /\ AttemptStage
  BY DEF IInv
<1>2. dbErrors' = 0 => dbErrors = 0
  <2>1. dbErrors \in Nat
    BY <1>1, BoundsAssumption DEF TypeOK
  <2>2. dbErrors' = dbErrors \/ dbErrors' = dbErrors + 1
    BY DEF Next, vars, GateStep, TaskStep, WorkerTransition, WriteBundleFile, CommitBundle, Review,
       SendBack, Approve, ClosePullRequest, Quarantine, Reserve, Rearm, Start, ReadBundle, TakeGuard,
       GuardTimeout, ReceiveToken, LookupPullRequest, LookupBranch, PrepareCommit, StageFails,
       Finalize, RecordFailure, PersistenceError, RemoteStep, Crash, Restart, ScanJobs, JoinRecovery
  <2> QED  BY <2>1, <2>2
<1> SUFFICES ASSUME dbErrors = 0, dbErrors' = 0, NEW v \in Works, status'[v] = "committing"
             PROVE  RecoveryOf(v)'
  BY <1>2 DEF RecoveryStage, RecoveryOf
<1>3. status[v] = "committing" => RecoveryOf(v)
  BY DEF IInv, RecoveryStage, RecoveryOf
<1>4. ASSUME UNCHANGED <<api, recoveryFailed, at>>, status[v] = "committing", job'[v] = job[v]
      PROVE  RecoveryOf(v)'
  BY <1>3, <1>4, RecoveryGoesOn
<1>5. ASSUME NEW w \in Works, GateStep(w)  PROVE RecoveryOf(v)'
  <2>1. CASE WorkerTransition(w)
    <3>1. PICK target \in WorkerTransitions[status[w]] \ MockOnly : Transition(w, target)
      BY <2>1 DEF WorkerTransition
    <3>2. target # "committing"
      BY <1>1, <3>1, Graphs DEF TypeOK
    <3>3. status[v] = "committing"
      BY <1>1, <3>1, <3>2 DEF Transition, TypeOK
    <3> QED  BY <1>4, <2>1, <3>3 DEF WorkerTransition, taskVars
  <2>2. CASE CommitBundle(w) \/ Review(w) \/ ClosePullRequest(w)
    <3>1. UNCHANGED <<api, recoveryFailed, at, status, job>>
      BY <2>2 DEF CommitBundle, Review, ClosePullRequest, workVars, taskVars
    <3> QED  BY <1>4, <3>1
  <2>3. ASSUME NEW d \in Digests, WriteBundleFile(w, d)  PROVE RecoveryOf(v)'
    <3>1. UNCHANGED <<api, recoveryFailed, at, status, job>>
      BY <2>3 DEF WriteBundleFile, taskVars
    <3> QED  BY <1>4, <3>1
  <2>4. CASE SendBack(w)
    <3>1. status[v] = "committing"
      BY <1>1, <2>4 DEF SendBack, Transition, TypeOK
    <3> QED  BY <1>4, <2>4, <3>1 DEF SendBack, taskVars
  <2>5. CASE Approve(w)
    <3> DEFINE audit == [work |-> w, version |-> version[w] + 1, digest |-> row[w]]
               t == <<w, "request">>
    <3>1. /\ QueueDelivery(w, audit) /\ UNCHANGED <<api, recoveryFailed>>
          /\ at' = [at EXCEPT ![t] = "scheduled"]
          /\ status' = [status EXCEPT ![w] = "committing"] /\ status[w] = "awaiting_approval"
      BY <2>5 DEF Approve, Transition
    <3>2. job[w].state = "absent"
      BY <1>1, <3>1, GateByWork, NotApproved DEF TerminalWork
    <3>3. job'[w].state = "pending" /\ \A x \in Works \ { w } : job'[x] = job[x]
      BY <1>1, <3>1, <3>2 DEF QueueDelivery, TypeOK
    <3> HIDE DEF audit
    <3>4. /\ t \in Tasks /\ WorkOf(t) = w
          /\ at'[t] = "scheduled" /\ \A u \in Tasks \ { t } : at'[u] = at[u]
      BY <1>1, <3>1, TaskFacts DEF TypeOK
    <3> HIDE DEF t
    <3>5. CASE v # w
      <4>1. status[v] = "committing"
        BY <1>1, <3>1, <3>5 DEF TypeOK
      <4>2. \A u \in Tasks : WorkOf(u) = v => at'[u] = at[u]
        BY <3>4, <3>5
      <4> QED  BY <1>3, <3>1, <3>3, <3>5, <4>1, <4>2, RecoveryOfOthers
    <3>6. CASE v = w
      <4>1. Attended(w)'
        BY <3>4 DEF Attended
      <4> QED  BY <3>3, <3>6, <4>1 DEF RecoveryOf
    <3> QED  BY <3>5, <3>6
  <2> QED  BY <1>5, <2>1, <2>2, <2>3, <2>4, <2>5 DEF GateStep
<1>6. ASSUME NEW k \in Workers, Quarantine(k)  PROVE RecoveryOf(v)'
  <2>1. v \notin Stopped(k)
    BY <1>1, <1>6, Graphs DEF Quarantine, TypeOK, TerminalWork
  <2>2. status[v] = "committing"
    BY <1>6, <2>1 DEF Quarantine
  <2>3. Assigned[v] # k
    BY <2>1, <2>2 DEF Stopped, TerminalWork
  <2>4. job'[v] = job[v]
    BY <1>6, <2>3 DEF Quarantine
  <2> QED  BY <1>4, <1>6, <2>2, <2>4 DEF Quarantine, taskVars
<1>7. ASSUME NEW t \in Tasks, TaskStep(t)  PROVE RecoveryOf(v)'
  <2>1. CASE v = WorkOf(t)
    <3>1. status[v] = "committing"
      BY <1>1, <1>7, <2>1, TaskOutcome
    <3> QED  BY <1>7, <2>1, <3>1, OwnRecovery
  <2>2. CASE v # WorkOf(t)
    <3>1. status[v] = "committing" /\ job'[v] = job[v] /\ api' = api
      BY <1>1, <1>7, <2>2, TaskFlow DEF Own
    <3>2. \A u \in Tasks : WorkOf(u) = v => at'[u] = at[u]
      BY <1>1, <1>7, <2>2, TaskFlow DEF Own, TypeOK
    <3>3. recoveryFailed => recoveryFailed'
      BY <1>7 DEF TaskStep, Reserve, Rearm, Start, ReadBundle, TakeGuard, GuardTimeout, ReceiveToken,
         LookupPullRequest, LookupBranch, PrepareCommit, StageFails, Finalize, RecordFailure,
         PersistenceError
    <3> QED  BY <1>3, <3>1, <3>2, <3>3, RecoveryOfOthers
  <2> QED  BY <2>1, <2>2
<1>8. CASE RemoteStep
  <2>1. UNCHANGED <<status, job, api, recoveryFailed>>
    BY <1>8 DEF RemoteStep, workVars
  <2>2. \A t \in Tasks : at'[t] = at[t] \/ (at[t] \in Started /\ at'[t] \in Started)
    BY <1>1, <1>8, RemoteFlow, StageOrder DEF WriteStages
  <2> QED  BY <1>3, <2>1, <2>2, RecoveryGoesOn
<1>9. CASE Crash
  BY <1>9, TaskFacts DEF Crash, RecoveryOf, Attended
<1>10. CASE Restart
  <2>1. UNCHANGED <<status, job, at>> /\ api' = "scanning"
    BY <1>10 DEF Restart, workVars, taskVars
  <2> QED  BY <1>3, <2>1 DEF RecoveryOf, Attended
<1>11. CASE ScanJobs
  <2>1. /\ UNCHANGED <<status, job>> /\ api = "scanning"
        /\ at' = [t \in Tasks |-> IF t[2] = "recovery" /\ Scanned(WorkOf(t)) THEN "scheduled"
                                  ELSE at[t]]
    BY <1>11 DEF ScanJobs, workVars
  <2>2. Scanned(v)
    BY <1>1, <2>1, Committing DEF Scanned
  <2>3. at'[<<v, "recovery">>] = "scheduled" /\ at'[<<v, "request">>] = at[<<v, "request">>]
    BY <2>1, <2>2, TaskFacts
  <2>4. Attended(v)'
    BY <2>3, TaskFacts DEF Attended
  <2>5. \A t \in Tasks : at[t] \in Started => at'[t] = at[t]
    <3>1. \A t \in Tasks : t[2] = "recovery" => at[t] = "idle"
      BY <1>1, <2>1 DEF ActiveStage
    <3> QED  BY <2>1, <3>1, StageOrder
  <2>6. \A t \in Tasks : at'[t] = at[t] \/ at'[t] = "scheduled"
    BY <2>1
  <2> QED  BY <1>3, <2>1, <2>3, <2>4, <2>5, <2>6 DEF RecoveryOf
<1>12. CASE JoinRecovery
  <2>1. /\ UNCHANGED <<status, job, at>> /\ api = "recovering"
        /\ api' = IF recoveryFailed THEN "scanning" ELSE "done"
    BY <1>12 DEF JoinRecovery, workVars, taskVars
  <2> QED  BY <1>3, <2>1 DEF RecoveryOf, Attended
<1>13. CASE UNCHANGED vars
  BY <1>4, <1>13 DEF vars, workVars, taskVars
<1> QED
  BY <1>5, <1>6, <1>7, <1>8, <1>9, <1>10, <1>11, <1>12, <1>13 DEF Next

-----------------------------------------------------------------------------
(* The invariant and what follows from it.                                 *)

\* Verification begins with nothing approved or delivered, and an API that is up.
LEMMA InitHolds ==
  Init => IInv
<1> SUFFICES ASSUME Init  PROVE IInv
  OBVIOUS
<1> USE DEF Init
<1>1. TypeOK
  <2>1. /\ status \in [Works -> WorkStatus] /\ version \in [Works -> Nat]
        /\ row \in [Works -> Digests \cup { None }] /\ file \in [Works -> Digests \cup { None }]
        /\ upload \in [Works -> Digests \cup { None }]
        /\ reviewed \in [Works -> Nat \cup { None }]
        /\ audits \subseteq AuditRecord
    BY DEF WorkStatus
  <2>2. job \in [Works -> [state : JobStates, approval : audits \cup { None }, attempts : Nat]]
    BY DEF JobStates
  <2>3. /\ quarantined \in [Workers -> BOOLEAN] /\ api \in { "down", "scanning", "recovering", "done" }
        /\ recoveryFailed \in BOOLEAN /\ active \subseteq Works /\ inflight \subseteq Message
    OBVIOUS
  <2>4. at \in [Tasks -> Stages]
    BY DEF Stages
  <2>5. local \in [Tasks -> [authority : audits \cup { None }, attempt : Nat,
                             content : Digests \cup { None }]]
    BY DEF NoLocal
  <2>6. branch \in [Works -> Digests \cup { None }]
    OBVIOUS
  <2>7. pr \in [Works -> [opened : Nat, open : BOOLEAN, digest : Digests \cup { None }]]
    OBVIOUS
  <2>8. crashes \in 0..MaxCrashes /\ dbErrors \in 0..MaxDbErrors
    BY BoundsAssumption
  <2> QED
    BY <2>1, <2>2, <2>3, <2>4, <2>5, <2>6, <2>7, <2>8 DEF TypeOK
<1>2. ActiveStage
  BY DEF ActiveStage, Engaged
<1>3. GateStage
  BY AssignedAssumption DEF GateStage
<1>4. AttemptStage
  BY StageOrder, AttemptByTask DEF AttemptOf
<1>5. PublicationStage
  BY TaskFacts DEF PublicationStage, AtMostOnePullRequest
<1>6. RecoveryStage
  BY DEF RecoveryStage
<1> QED  BY <1>1, <1>2, <1>3, <1>4, <1>5, <1>6 DEF IInv

\* Every step keeps every part of the invariant.
LEMMA StepHolds ==
  IInv /\ [Next]_vars => IInv'
<1> SUFFICES ASSUME IInv, [Next]_vars  PROVE IInv'
  OBVIOUS
<1>1. TypeOK'
  BY TypeStep DEF IInv
<1> QED  BY <1>1, ActiveStep, GateKept, AttemptKept, PublicationKept, RecoveryKept DEF IInv

\* The six parts hold together in every reachable state.
THEOREM Invariance == Spec => []IInv
BY InitHolds, StepHolds, PTL DEF Spec

\* Every variable stays in its domain, whatever tasks, people and the remote host do.
THEOREM TypeCorrect == Spec => []TypeOK
BY Invariance, PTL DEF IInv

\* From the approval until delivery ends, the approval covers the version, the row and the
\* bytes on disk (delivery_authority, the locks of upload_delivery_bundle).
THEOREM BytesStay == Spec => []ApprovedBytesStay
<1>1. IInv => ApprovedBytesStay
  BY Committing DEF IInv, ApprovedBytesStay
<1> QED  BY <1>1, Invariance, PTL

\* While the remote host works on a write, no quarantine and no report has come between
\* (guard_delivery_write and its locks).
THEOREM WritesGuarded == Spec => []GuardedWriteHolds
<1>1. IInv => GuardedWriteHolds
  <2> SUFFICES ASSUME IInv, NEW t \in Tasks, at[t] \in WriteStages
               PROVE  /\ Deliverable(WorkOf(t), { "running" }) /\ Authorized(WorkOf(t))
                      /\ job[WorkOf(t)].approval = local[t].authority
    BY DEF GuardedWriteHolds
  <2> DEFINE w == WorkOf(t)
  <2>1. w \in Works /\ AttemptOf(t) /\ at[t] \in Started
    BY TaskFacts, AttemptByTask, StageOrder DEF IInv
  <2>2. /\ status[w] = "committing" /\ local[t].authority \in audits
        /\ local[t].authority.work = w
    BY <2>1 DEF AttemptOf
  <2>3. Authorized(w) /\ ~quarantined[Assigned[w]] /\ job[w].state \in LiveJob
    BY <2>1, <2>2, Committing DEF IInv
  <2>4. Deliverable(w, { "running" })
    BY <2>1, <2>2, <2>3 DEF Deliverable, AttemptOf
  <2>5. job[w].approval = local[t].authority
    BY <2>2, <2>3 DEF Authorized, IInv, GateStage
  <2> QED  BY <2>3, <2>4, <2>5
<1> QED  BY <1>1, Invariance, PTL

\* A running job belongs to the attempt that executes it (_active_deliveries).
THEOREM JobsAreOwned == Spec => []AttemptOwnsItsJob
BY Invariance, PTL DEF IInv, AttemptStage

\* A work gets one pull request at most, however often delivery is interrupted
\* (find_pull_request, branch_exists).
THEOREM OnePullRequest == Spec => []AtMostOnePullRequest
BY Invariance, PTL DEF IInv, PublicationStage

\* Crashes, failed calls and refused writes orphan no delivery: only database errors do
\* (recover_startup_deliveries).
THEOREM NobodyElseOrphans == Spec => []OnlyDatabaseErrorsOrphan
<1>1. IInv => OnlyDatabaseErrorsOrphan
  <2> SUFFICES ASSUME IInv, dbErrors = 0, NEW w \in Works, Orphaned(w)  PROVE FALSE
    BY DEF OnlyDatabaseErrorsOrphan
  <2>1. Attended(w)
    BY DEF IInv, RecoveryStage, Orphaned
  <2>2. \E t \in Tasks : WorkOf(t) = w /\ at[t] # "idle"
    BY <2>1 DEF Attended, Orphaned
  <2> QED  BY <2>2, TaskFacts DEF Orphaned
<1> QED  BY <1>1, Invariance, PTL

-----------------------------------------------------------------------------
(* Outcomes are final.                                                     *)

\* No step touches a work that has an outcome: reports, decisions and fences look at its
\* status first, and a task only ends a work that is committing.
LEMMA FinalUntouched ==
  ASSUME IInv, [Next]_vars, NEW w \in Works, status[w] \in TerminalWork
  PROVE  status'[w] = status[w] /\ version'[w] = version[w]
<1>1. TypeOK
  BY DEF IInv
<1>2. ASSUME UNCHANGED <<status, version>>
      PROVE  status'[w] = status[w] /\ version'[w] = version[w]
  BY <1>2
<1>3. ASSUME NEW v \in Works, GateStep(v)
      PROVE  status'[w] = status[w] /\ version'[w] = version[w]
  <2>1. CASE WorkerTransition(v)
    <3>1. PICK target \in WorkerTransitions[status[v]] : Transition(v, target)
      BY <2>1 DEF WorkerTransition
    <3>2. status[v] \notin TerminalWork
      BY <3>1, Graphs
    <3> QED  BY <1>1, <3>1, <3>2 DEF Transition, TypeOK
  <2>2. CASE SendBack(v)
    BY <1>1, <2>2 DEF SendBack, Transition, ResumedByFeedback, TerminalWork, TypeOK
  <2>3. CASE Approve(v)
    BY <1>1, <2>3 DEF Approve, Transition, TerminalWork, TypeOK
  <2>4. CASE ~WorkerTransition(v) /\ ~SendBack(v) /\ ~Approve(v)
    BY <1>2, <1>3, <2>4 DEF GateStep, WriteBundleFile, CommitBundle, Review, ClosePullRequest,
       workVars
  <2> QED  BY <2>1, <2>2, <2>3, <2>4
<1>4. ASSUME NEW k \in Workers, Quarantine(k)
      PROVE  status'[w] = status[w] /\ version'[w] = version[w]
  BY <1>4 DEF Quarantine, Stopped
<1>5. ASSUME NEW t \in Tasks, TaskStep(t)
      PROVE  status'[w] = status[w] /\ version'[w] = version[w]
  <2>1. CASE w = WorkOf(t)
    BY <1>1, <1>5, <2>1, TaskOutcome DEF TerminalWork
  <2>2. CASE w # WorkOf(t)
    BY <1>1, <1>5, <2>2, TaskFlow DEF Own
  <2> QED  BY <2>1, <2>2
<1>6. CASE RemoteStep \/ Crash \/ Restart \/ ScanJobs \/ JoinRecovery \/ UNCHANGED vars
  BY <1>2, <1>6 DEF RemoteStep, Crash, Restart, ScanJobs, JoinRecovery, vars, workVars
<1> QED  BY <1>3, <1>4, <1>5, <1>6 DEF Next

\* A terminal outcome is final, whichever late task, answer or recovery comes after it
\* (DeliveryStopped, ensure_transition, quarantine_worker).
THEOREM FinalOutcome == Spec => OutcomeIsFinal
<1>1. IInv /\ [Next]_vars =>
        [\A w \in Works : status[w] \in TerminalWork => status'[w] = status[w]
                                                        /\ version'[w] = version[w]]_vars
  BY FinalUntouched
<1> QED  BY <1>1, Invariance, PTL DEF Spec, OutcomeIsFinal

-----------------------------------------------------------------------------
(* The gate implements Publication.                                        *)

Outcome(w) == IF status[w] = "completed" THEN "succeeded"
              ELSE IF status[w] \in TerminalWork THEN "ended" ELSE "open"

\* The decision about a work is the digest of its one approval.
LEMMA OneDecision ==
  ASSUME GateStage, NEW w \in Works
  PROVE  /\ (\A a \in audits : a.work # w) => ApprovedDigest(w) = None
         /\ \A a \in audits : a.work = w => ApprovedDigest(w) = a.digest
<1>1. ASSUME NEW a \in audits, a.work = w  PROVE ApprovedDigest(w) = a.digest
  <2> DEFINE c == CHOOSE b \in audits : b.work = w
  <2>1. c \in audits /\ c.work = w
    BY <1>1
  <2>2. c = a
    BY <1>1, <2>1 DEF GateStage
  <2> QED  BY <1>1, <2>2 DEF ApprovedDigest
<1> QED  BY <1>1 DEF ApprovedDigest

\* What is approved is a patch, and it is the decision.
LEMMA DecidedPatch ==
  ASSUME TypeOK, GateStage, NEW w \in Works, NEW d, Approved(w, d)
  PROVE  d \in Digests /\ d # None /\ ApprovedDigest(w) = d
BY OneDecision, NoneAssumption DEF Approved, TypeOK, AuditRecord

\* A step that leaves approvals and pull requests alone and ends some works at most is a
\* step of the gate.
LEMMA GateAbandons ==
  ASSUME audits' = audits, pr' = pr, NEW S \in SUBSET Works,
         \A w \in S : Outcome(w) = "open" /\ Outcome(w)' = "ended",
         \A w \in Works \ S : Outcome(w)' = Outcome(w)
  PROVE  Gate!Next
<1>1. \A w \in Works : ApprovedDigest(w)' = ApprovedDigest(w)
  BY DEF ApprovedDigest
<1>2. Gate!Abandon(S)
  BY <1>1 DEF Gate!Abandon, Outcome
<1> QED  BY <1>2 DEF Gate!Next

\* A step that changes no approval, published patch or outcome is none.
LEMMA GateStutters ==
  ASSUME audits' = audits, \A w \in Works : pr'[w].digest = pr[w].digest,
         status' = status \/ \A w \in Works : Outcome(w)' = Outcome(w)
  PROVE  UNCHANGED Gate!vars
<1>1. \A w \in Works : Outcome(w)' = Outcome(w)
  BY DEF Outcome
<1> QED  BY <1>1 DEF Gate!vars, ApprovedDigest, Outcome

\* Nothing is approved, published or ended at the start of the gate either.
LEMMA GateInit ==
  Init => Gate!Init
BY DEF Init, Gate!Init, ApprovedDigest, TerminalWork

\* People and runners decide once, or end a work.
LEMMA GateByPeople ==
  ASSUME IInv, NEW w \in Works, GateStep(w)
  PROVE  Gate!Next \/ UNCHANGED Gate!vars
<1>1. TypeOK /\ GateStage
  BY DEF IInv
<1>2. CASE WorkerTransition(w) \/ SendBack(w)
  <2>1. PICK target \in WorkStatus \ MockOnly :
          /\ status' = [status EXCEPT ![w] = target]
          /\ status[w] \notin TerminalWork
    <3>1. CASE WorkerTransition(w)
      <4>1. PICK target \in WorkerTransitions[status[w]] \ MockOnly : Transition(w, target)
        BY <3>1 DEF WorkerTransition
      <4> QED  BY <1>1, <4>1, Graphs DEF Transition, TypeOK
    <3>2. CASE SendBack(w)
      BY <1>1, <3>2 DEF SendBack, Transition, ResumedByFeedback, TerminalWork, WorkStatus, MockOnly
    <3> QED  BY <1>2, <3>1, <3>2
  <2>2. UNCHANGED <<audits, pr>>
    BY <1>2 DEF WorkerTransition, SendBack, gateVars, remoteVars
  <2>3. status'[w] = target /\ \A v \in Works \ { w } : status'[v] = status[v]
    BY <1>1, <2>1 DEF TypeOK
  <2>4. Outcome(w) = "open" /\ \A v \in Works \ { w } : Outcome(v)' = Outcome(v)
    BY <2>1, <2>3 DEF Outcome, TerminalWork
  <2>5. CASE target \in TerminalWork
    <3>1. Outcome(w)' = "ended"
      BY <2>3, <2>5 DEF Outcome, MockOnly
    <3> QED  BY <2>2, <2>4, <3>1, GateAbandons
  <2>6. CASE target \notin TerminalWork
    <3>1. Outcome(w)' = "open"
      BY <2>3, <2>6 DEF Outcome, TerminalWork
    <3>2. \A v \in Works : Outcome(v)' = Outcome(v)
      BY <2>4, <3>1
    <3> QED  BY <2>2, <3>2, GateStutters
  <2> QED  BY <2>5, <2>6
<1>3. CASE CommitBundle(w) \/ Review(w) \/ \E d \in Digests : WriteBundleFile(w, d)
  <2>1. UNCHANGED <<audits, pr, status>>
    BY <1>3 DEF CommitBundle, Review, WriteBundleFile, workVars, gateVars, remoteVars
  <2> QED  BY <2>1, GateStutters
<1>4. CASE ClosePullRequest(w)
  <2>1. UNCHANGED <<audits, status>> /\ pr' = [pr EXCEPT ![w].open = FALSE]
    BY <1>4 DEF ClosePullRequest, workVars, gateVars
  <2>2. \A v \in Works : pr'[v].digest = pr[v].digest
    BY <1>1, <2>1 DEF TypeOK
  <2> QED  BY <2>1, <2>2, GateStutters
<1>5. CASE Approve(w)
  <2> DEFINE audit == [work |-> w, version |-> version[w] + 1, digest |-> row[w]]
  <2>1. /\ pr' = pr /\ audits' = audits \cup { audit }
        /\ status' = [status EXCEPT ![w] = "committing"] /\ status[w] = "awaiting_approval"
        /\ row[w] # None
    BY <1>5 DEF Approve, Transition, DeliveryReady, remoteVars
  <2>2. audit.work = w /\ audit.digest = row[w]
    OBVIOUS
  <2> HIDE DEF audit
  <2>3. \A a \in audits : a.work # w
    BY <1>1, <2>1, GateByWork, NotApproved DEF TerminalWork
  <2>4. ApprovedDigest(w) = None
    BY <1>1, <2>3, OneDecision
  <2>5. ApprovedDigest(w)' = row[w]
    <3>1. \A a \in audits' : a.work = w => a = audit
      BY <2>1, <2>3
    <3>2. (CHOOSE a \in audits' : a.work = w) = audit
      BY <2>1, <2>2, <3>1
    <3> QED  BY <2>1, <2>2, <3>2 DEF ApprovedDigest
  <2>6. \A v \in Works \ { w } : ApprovedDigest(v)' = ApprovedDigest(v)
    <3>1. ASSUME NEW v \in Works \ { w }  PROVE ApprovedDigest(v)' = ApprovedDigest(v)
      <4>1. \A a : a \in audits' /\ a.work = v <=> a \in audits /\ a.work = v
        BY <2>1, <2>2
      <4> QED  BY <4>1 DEF ApprovedDigest
    <3> QED  BY <3>1
  <2>7. row[w] \in Digests
    BY <1>1, <2>1 DEF TypeOK
  <2>8. \A v \in Works : Outcome(v)' = Outcome(v)
    BY <1>1, <2>1 DEF Outcome, TypeOK, TerminalWork
  <2>9. Outcome(w) = "open"
    BY <2>1 DEF Outcome, TerminalWork
  <2>10. Gate!Approve(w, row[w])
    BY <2>1, <2>4, <2>5, <2>6, <2>8, <2>9 DEF Gate!Approve, Outcome
  <2> QED  BY <2>7, <2>10 DEF Gate!Next
<1> QED  BY <1>2, <1>3, <1>4, <1>5 DEF GateStep

\* Tasks publish nothing themselves: they end a work, as succeeded when there is a pull request.
LEMMA GateByTask ==
  ASSUME IInv, NEW t \in Tasks, TaskStep(t)
  PROVE  Gate!Next \/ UNCHANGED Gate!vars
<1> DEFINE w == WorkOf(t)
<1>1. TypeOK /\ GateStage /\ PublicationStage /\ w \in Works
  BY TaskFacts DEF IInv
<1>2. UNCHANGED <<audits, pr>> /\ \A v \in Works \ { w } : Outcome(v)' = Outcome(v)
  BY <1>1, TaskFlow DEF Own, gateVars, Outcome
<1>3. CASE status'[w] = status[w]
  <2>1. Outcome(w)' = Outcome(w)
    BY <1>3 DEF Outcome
  <2> QED  BY <1>2, <2>1, GateStutters
<1>4. CASE status'[w] # status[w]
  <2>1. status[w] = "committing" /\ status'[w] \in { "failed", "completed" }
    BY <1>1, <1>4, TaskOutcome
  <2>2. Outcome(w) = "open"
    BY <2>1 DEF Outcome, TerminalWork
  <2>3. CASE status'[w] = "failed"
    <3>1. Outcome(w)' = "ended"
      BY <2>3 DEF Outcome, TerminalWork
    <3> QED  BY <1>1, <1>2, <2>2, <3>1, GateAbandons
  <2>4. CASE status'[w] = "completed"
    <3>1. at[t] = "finalize"
      <4>1. ~FailDelivery(w, job[w].attempts) /\ ~FailDelivery(w, job[w].attempts + 1)
        BY <1>1, <2>4 DEF FailDelivery, Transition, TypeOK
      <4> QED
        BY <1>4, <4>1 DEF TaskStep, Reserve, Rearm, Start, ReadBundle, TakeGuard, GuardTimeout,
           ReceiveToken, LookupPullRequest, LookupBranch, PrepareCommit, StageFails, Finalize,
           RecordFailure, PersistenceError, workVars
    <3>2. pr[w].digest # None
      BY <1>1, <3>1, DecidedPatch DEF PublicationStage
    <3>3. Outcome(w)' = "succeeded"
      BY <2>4 DEF Outcome
    <3>4. Gate!Succeed(w)
      BY <1>1, <1>2, <2>2, <3>2, <3>3 DEF Gate!Succeed, Outcome, ApprovedDigest
    <3> QED  BY <1>1, <3>4 DEF Gate!Next
  <2> QED  BY <2>1, <2>3, <2>4
<1> QED  BY <1>3, <1>4

\* The remote host publishes the decision, once.
LEMMA GateByRemote ==
  ASSUME IInv, RemoteStep
  PROVE  Gate!Next \/ UNCHANGED Gate!vars
<1>1. TypeOK /\ GateStage /\ PublicationStage
  BY DEF IInv
<1>2. PICK m \in inflight : AcceptPush(m) \/ AcceptPullRequest(m) \/ RefuseWrite(m)
  BY DEF RemoteStep
<1>3. UNCHANGED <<audits, status>> /\ m.work \in Works
  BY <1>1 DEF RemoteStep, workVars, gateVars, TypeOK, Message
<1>4. CASE pr' = pr
  BY <1>3, <1>4, GateStutters
<1>5. CASE pr' # pr
  <2> DEFINE w == m.work
  <2>1. /\ branch[w] # None /\ ~pr[w].open /\ m.kind = "pull_request"
        /\ pr' = [pr EXCEPT ![w] = [opened |-> pr[w].opened + 1, open |-> TRUE,
                                   digest |-> branch[w]]]
    BY <1>2, <1>5 DEF AcceptPush, AcceptPullRequest, RefuseWrite
  <2>2. pr[w].digest = None
    <3>1. pr[w].opened \in Nat
      BY <1>1, <1>3 DEF TypeOK
    <3> QED  BY <1>1, <1>3, <2>1, <3>1 DEF PublicationStage
  <2>3. ApprovedDigest(w) = branch[w]
    BY <1>1, <1>3, <2>1, DecidedPatch DEF PublicationStage
  <2>4. pr'[w].digest = branch[w] /\ \A v \in Works \ { w } : pr'[v] = pr[v]
    BY <1>1, <1>3, <2>1 DEF TypeOK
  <2>5. \A v \in Works : ApprovedDigest(v)' = ApprovedDigest(v) /\ Outcome(v)' = Outcome(v)
    BY <1>3 DEF ApprovedDigest, Outcome
  <2>6. w \in Works
    BY <1>3
  <2> HIDE DEF w
  <2>7. Gate!Publish(w)
    <3> DEFINE published == [v \in Works |-> pr[v].digest]
               decision == [v \in Works |-> ApprovedDigest(v)]
    <3>1. published' = [published EXCEPT ![w] = decision[w]]
      BY <2>3, <2>4, <2>6
    <3>2. decision[w] # None /\ published[w] = None /\ decision' = decision
      BY <2>1, <2>2, <2>3, <2>5, <2>6
    <3>3. [v \in Works |-> Outcome(v)]' = [v \in Works |-> Outcome(v)]
      BY <2>5
    <3> QED  BY <3>1, <3>2, <3>3 DEF Gate!Publish, Outcome
  <2> QED  BY <2>6, <2>7 DEF Gate!Next
<1> QED  BY <1>4, <1>5

\* A quarantine ends its worker's works together.
LEMMA GateByQuarantine ==
  ASSUME IInv, NEW k \in Workers, Quarantine(k)
  PROVE  Gate!Next
<1>1. TypeOK /\ UNCHANGED <<audits, pr>>
  BY DEF IInv, Quarantine, gateVars, remoteVars
<1>2. \A w \in Stopped(k) : Outcome(w) = "open" /\ Outcome(w)' = "ended"
  <2>1. ASSUME NEW w \in Stopped(k)  PROVE Outcome(w) = "open" /\ Outcome(w)' = "ended"
    <3>1. w \in Works /\ status[w] \notin TerminalWork
      BY DEF Stopped
    <3>2. status'[w] \in { "failed", "cancelled" }
      BY <3>1 DEF Quarantine, QuarantineOutcome
    <3> QED  BY <3>1, <3>2 DEF Outcome, TerminalWork
  <2> QED  BY <2>1
<1>3. \A w \in Works \ Stopped(k) : Outcome(w)' = Outcome(w)
  BY DEF Quarantine, Outcome
<1>4. Stopped(k) \in SUBSET Works
  BY DEF Stopped
<1> QED  BY <1>1, <1>2, <1>3, <1>4, GateAbandons

\* A person approves one patch of a work at most, only that patch is published, once, and
\* success is reported only after publication (decide_approval, guard_delivery_write,
\* find_pull_request, _deliver_work).
THEOREM Implements == Spec => PublishesWhatWasApproved
<1>1. IInv /\ [Next]_vars => [Gate!Next]_(Gate!vars)
  <2> SUFFICES ASSUME IInv, [Next]_vars  PROVE Gate!Next \/ UNCHANGED Gate!vars
    OBVIOUS
  <2>1. CASE Crash \/ Restart \/ ScanJobs \/ JoinRecovery \/ UNCHANGED vars
    <3>1. UNCHANGED <<audits, pr, status>>
      BY <2>1 DEF Crash, Restart, ScanJobs, JoinRecovery, vars, workVars, gateVars, remoteVars
    <3> QED  BY <3>1, GateStutters
  <2>2. CASE Next /\ ~(Crash \/ Restart \/ ScanJobs \/ JoinRecovery)
    BY <2>2, GateByPeople, GateByTask, GateByRemote, GateByQuarantine DEF Next
  <2> QED  BY <2>1, <2>2
<1> QED  BY <1>1, GateInit, Invariance, PTL DEF Spec, Gate!Spec, PublishesWhatWasApproved
=============================================================================
