------------------------- MODULE ControlPlaneProofs -------------------------
(***************************************************************************)
(* Proofs about ControlPlane for any works, workers and capacities.        *)
(***************************************************************************)
EXTENDS ControlPlane, FiniteSetTheorems, TLAPS

-----------------------------------------------------------------------------
(* Facts about the transition graphs.                                      *)

\* An edge of the graph leads to a status and leaves one that is not final.  The gate is
\* entered from awaiting_approval only, and passed one step at a time.
LEMMA GraphEdge ==
  ASSUME NEW s \in WorkStatus, NEW t \in AllowedTransitions[s]
  PROVE  /\ t \in WorkStatus
         /\ s \notin { "completed", "cancelled" }
         /\ t = "queued" => s = "failed"
         /\ t = "committing" => s = "awaiting_approval"
         /\ t = "pr_created" => s = "committing"
         /\ t = "completed" => s = "pr_created"
  BY DEF WorkStatus, AllowedTransitions

\* A lease never moves finished or queued work, and never opens the gate.
LEMMA LeaseEdge ==
  ASSUME NEW s \in WorkStatus, NEW t \in WorkerTransitions[s]
  PROVE  /\ s \notin TerminalWork \cup { "queued" }
         /\ t \notin { "queued", "committing" }
         /\ t = "pr_created" => s = "committing"
         /\ t = "completed" => s = "pr_created"
         /\ t = "cancelled" => s \notin { "committing", "pr_created" }
         /\ s = "pr_created" => t \in { "completed", "failed" }
         /\ s = "committing" => t \in { "pr_created", "failed" }
  BY DEF WorkerTransitions, TerminalWork

-----------------------------------------------------------------------------
(* Facts about leases and hosts.                                           *)

\* A lease that exists names a worker, and releasing it leaves a lease.
LEMMA HeldLease ==
  ASSUME Inv, NEW w \in Works, lease[w].state # "none"
  PROVE  /\ lease[w].worker \in Workers
         /\ lease[w].worker = assigned[w]
         /\ [lease[w] EXCEPT !.state = "released"] \in LeaseRecord
<1>1. assigned[w] \in Workers /\ lease[w].worker = assigned[w]
  BY DEF Inv, TypeOK, LeaseMatchesAssignment
<1>2. lease[w] \in LeaseRecord  BY DEF Inv, TypeOK
<1> QED  BY <1>1, <1>2 DEF LeaseRecord, LeaseStates

\* Returning a slot never takes a count below zero.
LEMMA RoomReturned ==
  ASSUME Inv, NEW k \in Workers
  PROVE  ReturnResources(k) \in HostRecord
<1> DEFINE free == IF host[k].free + 1 > Capacity[k] THEN Capacity[k] ELSE host[k].free + 1
           runs == IF host[k].runs = 0 THEN 0 ELSE host[k].runs - 1
<1>1. host[k] \in HostRecord /\ Capacity[k] \in Nat
  BY CapacityAssumption DEF Inv, TypeOK
<1>2. free \in Nat /\ runs \in Nat  BY <1>1 DEF HostRecord
<1>3. ReturnResources(k) = [host[k] EXCEPT !.free = free, !.runs = runs]
  BY DEF ReturnResources
<1> HIDE DEF free, runs
<1> QED  BY <1>1, <1>2, <1>3 DEF HostRecord

\* Registration keeps a host's fences and never unregisters it.
LEMMA HostRegistered ==
  ASSUME Inv, NEW k \in Workers, NEW mock \in BOOLEAN
  PROVE  /\ RegisteredHost(k, mock) \in HostRecord
         /\ RegisteredHost(k, mock).state # "absent"
         /\ RegisteredHost(k, mock).quarantined => host[k].quarantined
<1>1. host[k] \in HostRecord  BY DEF Inv, TypeOK
<1>2. CASE Registered(k)
  BY <1>1, <1>2 DEF RegisteredHost, Registered, HostRecord, HostStates
<1>3. CASE ~Registered(k)
  BY CapacityAssumption, <1>3 DEF RegisteredHost, HostRecord, HostStates
<1> QED  BY <1>2, <1>3

-----------------------------------------------------------------------------
(* Each transaction keeps the invariant.                                   *)

\* Submitting adds a work in its initial state.
LEMMA SubmitKeeps ==
  ASSUME Inv, NEW w \in Works, Submit(w)
  PROVE  Inv'
<1>1. TypeOK'
  BY DEF Inv, TypeOK, Submit
<1>2. LeaseMatchesAssignment'
  BY DEF Inv, LeaseMatchesAssignment, Submit, Registered
<1>3. ReturnedMeansFinished'
  BY DEF Inv, ReturnedMeansFinished, Submit
<1>4. QuarantineFences'
  BY DEF Inv, QuarantineFences, Submit
<1>5. CompletionAuthorised'
  BY DEF Inv, CompletionAuthorised, Submit
<1>6. NothingEarly'
  BY DEF Inv, NothingEarly, Submit
<1> QED  BY <1>1, <1>2, <1>3, <1>4, <1>5, <1>6 DEF Inv

\* Only work without a lease or a delivery is cancelled.
LEMMA CancelKeeps ==
  ASSUME Inv, NEW w \in Works, Cancel(w)
  PROVE  Inv'
<1>1. TypeOK'
  BY GraphEdge DEF Inv, TypeOK, Cancel, Transition
<1>2. LeaseMatchesAssignment'
  BY DEF Inv, LeaseMatchesAssignment, Cancel, Transition, Registered
<1>3. ReturnedMeansFinished'
  BY DEF Inv, ReturnedMeansFinished, Cancel, Transition
<1>4. QuarantineFences'
  BY DEF Inv, QuarantineFences, Cancel, Transition, TerminalWork
<1>5. CompletionAuthorised'
  BY DEF Inv, CompletionAuthorised, Cancel, Transition, StepsSinceApproval
<1>6. NothingEarly'
  BY DEF Inv, NothingEarly, Cancel, Transition
<1> QED  BY <1>1, <1>2, <1>3, <1>4, <1>5, <1>6 DEF Inv

\* Feedback never leads to the gate or out of it.
LEMMA FeedbackKeeps ==
  ASSUME Inv, NEW w \in Works, Feedback(w)
  PROVE  Inv'
<1>1. TypeOK'
  BY GraphEdge DEF Inv, TypeOK, Feedback, Transition
<1>2. LeaseMatchesAssignment'
  BY DEF Inv, LeaseMatchesAssignment, Feedback, ResumedByFeedback, Transition, Registered
<1>3. ReturnedMeansFinished'
  BY DEF Inv, ReturnedMeansFinished, Feedback, ResumedByFeedback, Transition, TerminalWork
<1>4. QuarantineFences'
  BY DEF Inv, QuarantineFences, Feedback, NotFenced, Transition
<1>5. CompletionAuthorised'
  BY DEF Inv, CompletionAuthorised, Feedback, ResumedByFeedback, Transition,
       StepsSinceApproval
<1>6. NothingEarly'
  BY DEF Inv, NothingEarly, Feedback, ResumedByFeedback, Transition
<1> QED  BY <1>1, <1>2, <1>3, <1>4, <1>5, <1>6 DEF Inv

\* A budget decision never leads to the gate.
LEMMA ExtendBudgetKeeps ==
  ASSUME Inv, NEW w \in Works, ExtendBudget(w)
  PROVE  Inv'
<1>1. TypeOK'
  BY GraphEdge DEF Inv, TypeOK, ExtendBudget, Transition
<1>2. LeaseMatchesAssignment'
  BY DEF Inv, LeaseMatchesAssignment, ExtendBudget, Transition, Registered
<1>3. ReturnedMeansFinished'
  BY DEF Inv, ReturnedMeansFinished, ExtendBudget, Transition, TerminalWork
<1>4. QuarantineFences'
  BY DEF Inv, QuarantineFences, ExtendBudget, Transition, TerminalWork
<1>5. CompletionAuthorised'
  BY DEF Inv, CompletionAuthorised, ExtendBudget, Transition, StepsSinceApproval
<1>6. NothingEarly'
  BY DEF Inv, NothingEarly, ExtendBudget, Transition
<1> QED  BY <1>1, <1>2, <1>3, <1>4, <1>5, <1>6 DEF Inv

\* An approval opens the gate, records the version it leads to, and queues delivery
\* unless the worker is a mock: there was no job before it.
LEMMA ApproveKeeps ==
  ASSUME Inv, NEW w \in Works, Approve(w)
  PROVE  Inv'
<1>1. TypeOK'
  BY GraphEdge DEF Inv, TypeOK, Approve, Transition, JobStates, LiveJob
<1>2. LeaseMatchesAssignment'
  BY DEF Inv, LeaseMatchesAssignment, Approve, Transition, Registered
<1>3. ReturnedMeansFinished'
  BY DEF Inv, ReturnedMeansFinished, Approve, Transition, TerminalWork
<1>4. QuarantineFences'
  BY DEF Inv, QuarantineFences, Approve, Transition, TerminalWork
<1>5. CompletionAuthorised'
  <2> SUFFICES ASSUME NEW v \in Works, status'[v] \in DOMAIN StepsSinceApproval
               PROVE  /\ approval'[v].decision = "approve"
                      /\ version'[v] = approval'[v].version + StepsSinceApproval[status'[v]]
                      /\ job'[v] \in IF ~approval'[v].queued THEN { "absent" }
                                    ELSE IF status'[v] = "committing" THEN LiveJob
                                    ELSE { "completed" }
    BY DEF CompletionAuthorised
  <2>1. CASE v # w
    BY <2>1 DEF Inv, CompletionAuthorised, Approve, Transition
  <2>2. CASE v = w
    <3> DEFINE queued == ~host[assigned[w]].mock
    <3>1. /\ status'[w] = "committing"
          /\ version'[w] = version[w] + 1
          /\ version[w] \in Nat
          /\ approval'[w] = [decision |-> "approve", version |-> version[w] + 1,
                             queued |-> queued]
      BY DEF Inv, TypeOK, Approve, Transition
    <3>2. job'[w] = IF queued THEN "pending" ELSE "absent"
      BY DEF Inv, TypeOK, NothingEarly, Approve
    <3>3. StepsSinceApproval["committing"] = 0  BY DEF StepsSinceApproval
    <3> HIDE DEF queued
    <3> QED  BY <2>2, <3>1, <3>2, <3>3 DEF LiveJob
  <2> QED  BY <2>1, <2>2
<1>6. NothingEarly'
  BY DEF Inv, NothingEarly, TypeOK, Approve, Transition
<1> QED  BY <1>1, <1>2, <1>3, <1>4, <1>5, <1>6 DEF Inv

\* A rejection replaces the decision of work that is not past the gate.
LEMMA RejectKeeps ==
  ASSUME Inv, NEW w \in Works, Reject(w)
  PROVE  Inv'
<1>1. TypeOK'
  BY GraphEdge DEF Inv, TypeOK, Reject, Transition
<1>2. LeaseMatchesAssignment'
  BY DEF Inv, LeaseMatchesAssignment, Reject, Transition, Registered
<1>3. ReturnedMeansFinished'
  BY DEF Inv, ReturnedMeansFinished, Reject, Transition, TerminalWork
<1>4. QuarantineFences'
  BY DEF Inv, QuarantineFences, Reject, Transition, TerminalWork
<1>5. CompletionAuthorised'
  BY DEF Inv, CompletionAuthorised, Reject, Transition, StepsSinceApproval
<1>6. NothingEarly'
  BY DEF Inv, NothingEarly, Reject, Transition
<1> QED  BY <1>1, <1>2, <1>3, <1>4, <1>5, <1>6 DEF Inv

\* A job starts only for the approval it was queued by.
LEMMA StartDeliveryKeeps ==
  ASSUME Inv, NEW w \in Works, StartDelivery(w)
  PROVE  Inv'
<1>1. TypeOK'
  BY DEF Inv, TypeOK, StartDelivery, workVars, JobStates, LiveJob
<1>2. LeaseMatchesAssignment'
  BY DEF Inv, LeaseMatchesAssignment, StartDelivery, workVars, Deliverable, Registered
<1>3. ReturnedMeansFinished'
  BY DEF Inv, ReturnedMeansFinished, StartDelivery, workVars, Deliverable, LiveJob
<1>4. QuarantineFences'
  BY DEF Inv, QuarantineFences, StartDelivery, workVars, Deliverable
<1>5. CompletionAuthorised'
  BY DEF Inv, CompletionAuthorised, StartDelivery, workVars, Deliverable, LiveJob
<1>6. NothingEarly'
  BY DEF Inv, NothingEarly, StartDelivery, workVars, Deliverable
<1> QED  BY <1>1, <1>2, <1>3, <1>4, <1>5, <1>6 DEF Inv

\* A job that is started again was not finished.
LEMMA RearmDeliveryKeeps ==
  ASSUME Inv, NEW w \in Works, RearmDelivery(w)
  PROVE  Inv'
<1>1. TypeOK'
  BY DEF Inv, TypeOK, RearmDelivery, workVars, JobStates, LiveJob
<1>2. LeaseMatchesAssignment'
  BY DEF Inv, LeaseMatchesAssignment, RearmDelivery, workVars, Deliverable, Registered
<1>3. ReturnedMeansFinished'
  BY DEF Inv, ReturnedMeansFinished, RearmDelivery, workVars, Deliverable, LiveJob
<1>4. QuarantineFences'
  BY DEF Inv, QuarantineFences, RearmDelivery, workVars, Deliverable
<1>5. CompletionAuthorised'
  BY DEF Inv, CompletionAuthorised, RearmDelivery, workVars, Deliverable, LiveJob
<1>6. NothingEarly'
  BY DEF Inv, NothingEarly, RearmDelivery, workVars, Deliverable
<1> QED  BY <1>1, <1>2, <1>3, <1>4, <1>5, <1>6 DEF Inv

\* The last transaction completes work and job together.
LEMMA FinishDeliveryKeeps ==
  ASSUME Inv, NEW w \in Works, FinishDelivery(w)
  PROVE  Inv'
<1>1. TypeOK'
  BY DEF Inv, TypeOK, FinishDelivery, JobStates, WorkStatus
<1>2. LeaseMatchesAssignment'
  BY DEF Inv, LeaseMatchesAssignment, FinishDelivery, Deliverable, Registered
<1>3. ReturnedMeansFinished'
  BY DEF Inv, ReturnedMeansFinished, FinishDelivery, TerminalWork, LiveJob
<1>4. QuarantineFences'
  BY DEF Inv, QuarantineFences, FinishDelivery, TerminalWork, LiveJob
<1>5. CompletionAuthorised'
  BY DEF Inv, CompletionAuthorised, TypeOK, FinishDelivery, Authorized, StepsSinceApproval
<1>6. NothingEarly'
  BY DEF Inv, NothingEarly, FinishDelivery, Deliverable
<1> QED  BY <1>1, <1>2, <1>3, <1>4, <1>5, <1>6 DEF Inv

\* A failure ends work and job together.
LEMMA FailDeliveryKeeps ==
  ASSUME Inv, NEW w \in Works, FailDelivery(w)
  PROVE  Inv'
<1>1. TypeOK'
  BY GraphEdge DEF Inv, TypeOK, FailDelivery, Transition, JobStates
<1>2. LeaseMatchesAssignment'
  BY DEF Inv, LeaseMatchesAssignment, FailDelivery, Deliverable, Transition, Registered
<1>3. ReturnedMeansFinished'
  BY DEF Inv, ReturnedMeansFinished, FailDelivery, Transition, TerminalWork, LiveJob
<1>4. QuarantineFences'
  BY DEF Inv, QuarantineFences, FailDelivery, Transition, TerminalWork, LiveJob
<1>5. CompletionAuthorised'
  BY DEF Inv, CompletionAuthorised, TypeOK, FailDelivery, Transition, StepsSinceApproval
<1>6. NothingEarly'
  BY DEF Inv, NothingEarly, FailDelivery, Deliverable, Transition
<1> QED  BY <1>1, <1>2, <1>3, <1>4, <1>5, <1>6 DEF Inv

\* Expiry changes no ownership.
LEMMA LeaseExpiresKeeps ==
  ASSUME Inv, NEW w \in Works, LeaseExpires(w)
  PROVE  Inv'
<1>1. TypeOK'
  <2>1. lease[w] \in LeaseRecord  BY DEF Inv, TypeOK
  <2>2. [lease[w] EXCEPT !.expired = TRUE] \in LeaseRecord  BY <2>1 DEF LeaseRecord
  <2> QED  BY <2>2 DEF Inv, TypeOK, LeaseExpires, workVars
<1>2. LeaseMatchesAssignment'
  BY DEF Inv, LeaseMatchesAssignment, LeaseExpires, workVars, Registered
<1>3. ReturnedMeansFinished'
  BY DEF Inv, ReturnedMeansFinished, LeaseExpires, workVars
<1>4. QuarantineFences'
  BY DEF Inv, QuarantineFences, LeaseExpires, workVars
<1>5. CompletionAuthorised'
  BY DEF Inv, CompletionAuthorised, LeaseExpires, workVars
<1>6. NothingEarly'
  BY DEF Inv, NothingEarly, LeaseExpires, workVars
<1> QED  BY <1>1, <1>2, <1>3, <1>4, <1>5, <1>6 DEF Inv

\* A release gives back the slot of finished work only.
LEMMA ReleaseKeeps ==
  ASSUME Inv, NEW w \in Works, Release(w)
  PROVE  Inv'
<1>1. TypeOK'
  <2>1. /\ lease[w].worker \in Workers
        /\ [lease[w] EXCEPT !.state = "released"] \in LeaseRecord
    BY HeldLease DEF Release, LeaseValid
  <2>2. ReturnResources(lease[w].worker) \in HostRecord  BY <2>1, RoomReturned
  <2> QED  BY <2>1, <2>2 DEF Inv, TypeOK, Release, workVars
<1>2. LeaseMatchesAssignment'
  BY DEF Inv, LeaseMatchesAssignment, Release, workVars, LeaseValid, Registered,
       ReturnResources
<1>3. ReturnedMeansFinished'
  BY DEF Inv, ReturnedMeansFinished, Release, workVars
<1>4. QuarantineFences'
  BY DEF Inv, QuarantineFences, Release, workVars, ReturnResources
<1>5. CompletionAuthorised'
  BY DEF Inv, CompletionAuthorised, Release, workVars
<1>6. NothingEarly'
  BY DEF Inv, NothingEarly, Release, workVars
<1> QED  BY <1>1, <1>2, <1>3, <1>4, <1>5, <1>6 DEF Inv

\* Reconciliation releases finished work whose delivery is settled.
LEMMA ReconcileKeeps ==
  ASSUME Inv, NEW w \in Works, Reconcile(w)
  PROVE  Inv'
<1>1. TypeOK'
  <2>1. /\ lease[w].worker \in Workers
        /\ [lease[w] EXCEPT !.state = "released"] \in LeaseRecord
    BY HeldLease DEF Reconcile
  <2>2. ReturnResources(lease[w].worker) \in HostRecord  BY <2>1, RoomReturned
  <2> QED  BY <2>1, <2>2 DEF Inv, TypeOK, Reconcile, ReconciledHost, workVars
<1>2. LeaseMatchesAssignment'
  BY DEF Inv, LeaseMatchesAssignment, Reconcile, workVars, ReconciledHost, Registered,
       ReturnResources
<1>3. ReturnedMeansFinished'
  BY DEF Inv, ReturnedMeansFinished, TypeOK, Reconcile, workVars, DeliverySettled, LiveJob
<1>4. QuarantineFences'
  BY DEF Inv, QuarantineFences, Reconcile, workVars, ReconciledHost, ReturnResources
<1>5. CompletionAuthorised'
  BY DEF Inv, CompletionAuthorised, Reconcile, workVars
<1>6. NothingEarly'
  BY DEF Inv, NothingEarly, Reconcile, workVars
<1> QED  BY <1>1, <1>2, <1>3, <1>4, <1>5, <1>6 DEF Inv

\* A quarantined worker cannot register again.
LEMMA RegisterKeeps ==
  ASSUME Inv, NEW k \in Workers, NEW mock \in BOOLEAN, Register(k, mock)
  PROVE  Inv'
<1>1. TypeOK'
  BY HostRegistered DEF Inv, TypeOK, Register, workVars
<1>2. LeaseMatchesAssignment'
  BY HostRegistered DEF Inv, LeaseMatchesAssignment, Register, workVars, Registered
<1>3. ReturnedMeansFinished'
  BY DEF Inv, ReturnedMeansFinished, Register, workVars
<1>4. QuarantineFences'
  BY HostRegistered DEF Inv, QuarantineFences, Register, workVars
<1>5. CompletionAuthorised'
  BY DEF Inv, CompletionAuthorised, Register, workVars
<1>6. NothingEarly'
  BY DEF Inv, NothingEarly, Register, workVars
<1> QED  BY <1>1, <1>2, <1>3, <1>4, <1>5, <1>6 DEF Inv

\* Whatever numbers an accepted heartbeat carries, they are natural numbers.
LEMMA HeartbeatKeeps ==
  ASSUME Inv, NEW k \in Workers, NEW state \in HostStates \ { "absent" },
         NEW free \in Nat, NEW runs \in Nat, Heartbeat(k, state, free, runs)
  PROVE  Inv'
<1>1. TypeOK'
  <2> DEFINE reported == [host[k] EXCEPT !.state = state, !.free = free, !.runs = runs]
  <2>1. host[k] \in HostRecord  BY DEF Inv, TypeOK
  <2>2. host' = [host EXCEPT ![k] = reported]
    BY DEF Heartbeat
  <2>3. reported \in HostRecord  BY <2>1 DEF HostRecord
  <2> QED  BY <2>3 DEF Inv, TypeOK, Heartbeat, workVars
<1>2. LeaseMatchesAssignment'
  BY DEF Inv, LeaseMatchesAssignment, TypeOK, Heartbeat, workVars, Registered
<1>3. ReturnedMeansFinished'
  BY DEF Inv, ReturnedMeansFinished, Heartbeat, workVars
<1>4. QuarantineFences'
  BY DEF Inv, QuarantineFences, TypeOK, Heartbeat, workVars
<1>5. CompletionAuthorised'
  BY DEF Inv, CompletionAuthorised, Heartbeat, workVars
<1>6. NothingEarly'
  BY DEF Inv, NothingEarly, Heartbeat, workVars
<1> QED  BY <1>1, <1>2, <1>3, <1>4, <1>5, <1>6 DEF Inv

\* A claim gives a lease to work that had none.
LEMMA ClaimKeeps ==
  ASSUME Inv, NEW k \in Workers, NEW w \in Works, Claim(k, w)
  PROVE  Inv'
<1>1. TypeOK'
  BY DEF Inv, TypeOK, Claim, HostRecord
<1>2. LeaseMatchesAssignment'
  BY DEF Inv, TypeOK, Claim, Transition, HostRecord
<1>3. ReturnedMeansFinished'
  <2>1. lease[w].state = "none"  BY DEF Inv, LeaseMatchesAssignment, Claim
  <2>2. w \notin reconciled  BY <2>1 DEF Inv, ReturnedMeansFinished
  <2> QED  BY <2>2 DEF Inv, ReturnedMeansFinished, TypeOK, Claim, Transition
<1>4. QuarantineFences'
  BY DEF Inv, TypeOK, Claim, Transition, HostRecord
<1>5. CompletionAuthorised'
  BY DEF Inv, TypeOK, Claim, HostRecord
<1>6. NothingEarly'
  BY DEF Inv, NothingEarly, Claim, Transition
<1> QED  BY <1>1, <1>2, <1>3, <1>4, <1>5, <1>6 DEF Inv

\* A lease moves open work, and passes the gate only as an approved mock run.
LEMMA WorkerTransitionKeeps ==
  ASSUME Inv, NEW w \in Works, NEW target \in WorkStatus, WorkerTransition(w, target)
  PROVE  Inv'
<1>1. TypeOK'
  BY DEF Inv, TypeOK, WorkerTransition, Transition
<1>2. LeaseMatchesAssignment'
  BY GraphEdge, LeaseEdge DEF Inv, LeaseMatchesAssignment, TypeOK, WorkerTransition,
       Transition, Registered
<1>3. ReturnedMeansFinished'
  BY LeaseEdge DEF Inv, ReturnedMeansFinished, WorkerTransition, TerminalWork, Transition,
       WorkStatus
<1>4. QuarantineFences'
  BY DEF Inv, QuarantineFences, WorkerTransition, LeaseValid, Transition
<1>5. CompletionAuthorised'
  BY LeaseEdge DEF Inv, CompletionAuthorised, TypeOK, WorkerTransition, MockAuthority,
       MockOnly, Transition, StepsSinceApproval
<1>6. NothingEarly'
  BY LeaseEdge DEF Inv, NothingEarly, WorkerTransition, TerminalWork, Transition, WorkStatus
<1> QED  BY <1>1, <1>2, <1>3, <1>4, <1>5, <1>6 DEF Inv

\* Quarantine ends everything its worker owns in one step.
LEMMA QuarantineKeeps ==
  ASSUME Inv, NEW k \in Workers, Quarantine(k)
  PROVE  Inv'
<1>1. TypeOK'
  <2>1. \A w \in Works : QuarantineOutcome(status[w]) \in WorkStatus
    BY DEF QuarantineOutcome, WorkStatus
  <2>2. \A w \in Works : FencedJob(w) \in JobStates
    BY DEF Inv, TypeOK, FencedJob, JobStates
  <2>3. RevokedHost(k) \in HostRecord
    BY DEF Inv, TypeOK, RevokedHost, HostRecord, HostStates
  <2>4. [state |-> "quarantined", worker |-> k, expired |-> TRUE] \in LeaseRecord
    BY DEF LeaseRecord, LeaseStates
  <2> QED  BY <2>1, <2>2, <2>3, <2>4 DEF Inv, TypeOK, Quarantine
<1>2. LeaseMatchesAssignment'
  <2>1. \A j \in Workers : host[j].state # "absent" => host'[j].state # "absent"
    BY DEF Quarantine, RevokedHost
  <2>2. \A w \in Works : /\ lease'[w].worker = lease[w].worker
                         /\ lease'[w].state = "none" <=> lease[w].state = "none"
    BY DEF Quarantine
  <2>3. \A w \in Works : assigned[w] = None => status'[w] = status[w] /\ job'[w] = job[w]
    BY NoneAssumption DEF Quarantine
  <2>4. \A w \in Works : status[w] # "queued" => status'[w] # "queued"
    BY DEF Quarantine, QuarantineOutcome
  <2>5. assigned' = assigned  BY DEF Quarantine
  <2> SUFFICES ASSUME NEW w \in Works
      PROVE  /\ lease'[w].worker = assigned'[w]
             /\ lease'[w].state = "none" <=> assigned'[w] = None
             /\ assigned'[w] = None =>
                  status'[w] \in { "queued", "cancelled" } /\ job'[w] = "absent"
             /\ assigned'[w] # None =>
                  status'[w] # "queued" /\ host'[assigned'[w]].state # "absent"
    BY DEF LeaseMatchesAssignment, Registered
  <2>6. lease'[w].worker = assigned'[w]
    BY <2>2, <2>5 DEF Inv, LeaseMatchesAssignment
  <2>7. lease'[w].state = "none" <=> assigned'[w] = None
    BY <2>2, <2>5 DEF Inv, LeaseMatchesAssignment
  <2>8. assigned'[w] = None => status'[w] \in { "queued", "cancelled" } /\ job'[w] = "absent"
    BY <2>3, <2>5 DEF Inv, LeaseMatchesAssignment
  <2>9. assigned'[w] # None => status'[w] # "queued"
    BY <2>4, <2>5 DEF Inv, LeaseMatchesAssignment
  <2>10. assigned'[w] # None => host'[assigned'[w]].state # "absent"
    <3>1. assigned[w] \in Workers \cup { None }  BY DEF Inv, TypeOK
    <3>2. assigned[w] # None => host[assigned[w]].state # "absent"
      BY DEF Inv, LeaseMatchesAssignment, Registered
    <3> QED  BY <2>1, <2>5, <3>1, <3>2
  <2> QED  BY <2>6, <2>7, <2>8, <2>9, <2>10
<1>3. ReturnedMeansFinished'
  BY DEF Inv, ReturnedMeansFinished, TypeOK, Quarantine, FencedJob
<1>4. QuarantineFences'
  BY DEF Inv, QuarantineFences, LeaseMatchesAssignment, Quarantine, TerminalWork,
       RevokedHost, FencedJob, QuarantineOutcome, LiveJob
<1>5. CompletionAuthorised'
  BY DEF Inv, CompletionAuthorised, Quarantine, TerminalWork, FencedJob, QuarantineOutcome,
       StepsSinceApproval, LiveJob
<1>6. NothingEarly'
  <2> SUFFICES ASSUME NEW w \in Works
               PROVE  /\ w \notin items => status'[w] = "queued"
                      /\ status'[w] \notin { "committing", "pr_created", "completed", "failed" }
                           => job'[w] = "absent"
    BY DEF NothingEarly, Quarantine
  <2>1. CASE assigned[w] # k
    BY <2>1 DEF Inv, NothingEarly, Quarantine
  <2>2. CASE assigned[w] = k
    <3>1. w \in items
      BY <2>2, NoneAssumption DEF Inv, LeaseMatchesAssignment, NothingEarly
    <3>2. job[w] = "absent" => job'[w] = "absent"
      BY DEF Quarantine, FencedJob, LiveJob
    <3>3. job[w] # "absent" =>
            status'[w] \in { "committing", "pr_created", "completed", "failed" }
      BY DEF Inv, NothingEarly, Quarantine, QuarantineOutcome, TerminalWork
    <3> QED  BY <3>1, <3>2, <3>3
  <2> QED  BY <2>1, <2>2
<1> QED  BY <1>1, <1>2, <1>3, <1>4, <1>5, <1>6 DEF Inv

-----------------------------------------------------------------------------
(* The invariant, and what follows from it.                                *)

\* Nothing has been submitted, claimed or decided.
LEMMA InitInv ==
  Init => Inv
<1> SUFFICES ASSUME Init PROVE Inv  OBVIOUS
<1>1. TypeOK
  BY DEF Init, TypeOK, WorkStatus, JobStates, LeaseRecord, LeaseStates, NoLease, HostRecord,
       HostStates, UnknownHost, NoDecision
<1>2. LeaseMatchesAssignment  BY DEF Init, LeaseMatchesAssignment, NoLease
<1>3. ReturnedMeansFinished  BY DEF Init, ReturnedMeansFinished, NoLease
<1>4. QuarantineFences  BY DEF Init, QuarantineFences, UnknownHost
<1>5. CompletionAuthorised  BY DEF Init, CompletionAuthorised, StepsSinceApproval
<1>6. NothingEarly  BY DEF Init, NothingEarly
<1> QED  BY <1>1, <1>2, <1>3, <1>4, <1>5, <1>6 DEF Inv

\* Every transaction keeps the invariant.
LEMMA NextKeeps ==
  Inv /\ [Next]_vars => Inv'
<1> SUFFICES ASSUME Inv, [Next]_vars PROVE Inv'  OBVIOUS
<1>1. ASSUME NEW w \in Works, PeopleStep(w)  PROVE Inv'
  BY <1>1, SubmitKeeps, CancelKeeps, FeedbackKeeps, ExtendBudgetKeeps, ApproveKeeps,
       RejectKeeps DEF PeopleStep
<1>2. ASSUME NEW w \in Works, DeliveryStep(w)  PROVE Inv'
  BY <1>2, StartDeliveryKeeps, RearmDeliveryKeeps, FinishDeliveryKeeps, FailDeliveryKeeps DEF
       DeliveryStep
<1>3. ASSUME NEW w \in Works, LeaseStep(w)  PROVE Inv'
  BY <1>3, LeaseExpiresKeeps, ReleaseKeeps, ReconcileKeeps DEF LeaseStep
<1>4. ASSUME NEW w \in Works, NEW target \in WorkStatus, WorkerTransition(w, target)
      PROVE  Inv'
  BY <1>4, WorkerTransitionKeeps
<1>5. ASSUME NEW k \in Workers, NEW w \in Works, Claim(k, w)  PROVE Inv'
  BY <1>5, ClaimKeeps
<1>6. ASSUME NEW k \in Workers, Report(k)  PROVE Inv'
  <2>1. \A n \in 0..Capacity[k] : n \in Nat  OBVIOUS
  <2>2. host[k].free \in Nat /\ host[k].runs \in Nat
    BY DEF Inv, TypeOK, HostRecord
  <2>3. PICK state \in HostStates \ { "absent" }, free \in Nat, runs \in Nat :
          Heartbeat(k, state, free, runs)
    BY <1>6, <2>2 DEF Report
  <2> QED  BY <2>3, HeartbeatKeeps
<1>7. ASSUME NEW k \in Workers, Quarantine(k)  PROVE Inv'
  BY <1>7, QuarantineKeeps
<1>8. ASSUME NEW k \in Workers, NEW mock \in BOOLEAN, Register(k, mock)  PROVE Inv'
  BY <1>8, RegisterKeeps
<1>9. CASE UNCHANGED vars
  BY <1>9 DEF Inv, TypeOK, LeaseMatchesAssignment, ReturnedMeansFinished, QuarantineFences,
       CompletionAuthorised, NothingEarly, Registered, vars, workVars
<1> QED  BY <1>1, <1>2, <1>3, <1>4, <1>5, <1>6, <1>7, <1>8, <1>9 DEF Next

\* In every execution, for any works, workers and capacities, and whatever heartbeats
\* report, the named parts of the invariant hold together.
THEOREM Invariance ==
  Spec => []Inv
<1> QED  BY InitInv, NextKeeps, PTL DEF Spec

\* No transaction takes a variable out of its domain; active_runs stays a natural number
\* (return_lease_resources).
THEOREM TypeCorrect ==
  Spec => []TypeOK
<1>1. Inv => TypeOK  BY DEF Inv
<1> QED  BY <1>1, Invariance, PTL

\* The lease row and the work row name the same worker for good (claim_next_work).
THEOREM LeasesAgree ==
  Spec => []LeaseMatchesAssignment
<1>1. Inv => LeaseMatchesAssignment  BY DEF Inv
<1> QED  BY <1>1, Invariance, PTL

\* Only finished work gives its room back, and no reconciled lease hides a delivery that
\* may still publish (release_run, reconcile_terminal_lease).
THEOREM RoomReturnedLate ==
  Spec => []ReturnedMeansFinished
<1>1. Inv => ReturnedMeansFinished  BY DEF Inv
<1> QED  BY <1>1, Invariance, PTL

\* A quarantined worker owns nothing that can still act (quarantine_worker).
THEOREM Fenced ==
  Spec => []QuarantineFences
<1>1. Inv => QuarantineFences  BY DEF Inv
<1> QED  BY <1>1, Invariance, PTL

\* No work passes the review gate but by an approval of exactly its version, on the path
\* that approval chose (authorize_worker_transition, delivery_authority).
THEOREM Authorised ==
  Spec => []CompletionAuthorised
<1>1. Inv => CompletionAuthorised  BY DEF Inv
<1> QED  BY <1>1, Invariance, PTL

-----------------------------------------------------------------------------
(* The accounting of a worker's room.                                      *)

\* A worker's counts agree with the leases it holds.  Only finitely many are ever held:
\* the set starts empty and a claim adds one.
Balanced(k) ==
  /\ IsFiniteSet(HeldBy(k))
  /\ host[k].runs = Cardinality(HeldBy(k))
  /\ host[k].free = Capacity[k] - Cardinality(HeldBy(k))

Ledger == TrustedReports => \A k \in Workers : Registered(k) => Balanced(k)

\* Nobody holds a lease of a worker that never registered.
LEMMA StrangersHoldNothing ==
  ASSUME Inv, NEW k \in Workers, ~Registered(k)
  PROVE  HeldBy(k) = {}
<1> SUFFICES ASSUME NEW w \in Works, w \in HeldBy(k)  PROVE FALSE
  BY DEF HeldBy
<1>1. lease[w].worker = k /\ lease[w].state # "none"  BY DEF HeldBy
<1>2. assigned[w] = k /\ k # None
  BY <1>1, NoneAssumption DEF Inv, LeaseMatchesAssignment
<1> QED  BY <1>2 DEF Inv, LeaseMatchesAssignment

\* A step that keeps what k holds and its counts keeps its balance.
LEMMA BalanceUntouched ==
  ASSUME NEW k \in Workers, Balanced(k), HeldBy(k)' = HeldBy(k),
         host'[k].runs = host[k].runs, host'[k].free = host[k].free
  PROVE  Balanced(k)'
  BY DEF Balanced

\* A lease that ceases to be held while one slot comes back keeps the balance: the caps
\* of return_lease_resources never bite on a balanced worker.
LEMMA BalanceReturned ==
  ASSUME Inv, NEW k \in Workers, Balanced(k), NEW w \in HeldBy(k),
         HeldBy(k)' = HeldBy(k) \ { w }, host'[k] = ReturnResources(k)
  PROVE  Balanced(k)'
<1> DEFINE held == Cardinality(HeldBy(k))
<1>1. host[k] \in HostRecord /\ Capacity[k] \in Nat
  BY CapacityAssumption DEF Inv, TypeOK
<1>2. IsFiniteSet(HeldBy(k)) /\ host[k].runs = held /\ host[k].free = Capacity[k] - held
  BY DEF Balanced
<1>3. IsFiniteSet(HeldBy(k)') /\ Cardinality(HeldBy(k)') = held - 1
  BY <1>2, FS_RemoveElement
<1>4. held \in Nat /\ held - 1 \in Nat
  BY <1>2, <1>3, FS_CardinalityType
<1>5. host'[k].runs = IF host[k].runs = 0 THEN 0 ELSE host[k].runs - 1
  BY <1>1 DEF ReturnResources, HostRecord
<1>6. host'[k].free = IF host[k].free + 1 > Capacity[k] THEN Capacity[k] ELSE host[k].free + 1
  BY <1>1 DEF ReturnResources, HostRecord
<1> HIDE DEF held
<1>7. host'[k].runs = held - 1 /\ host'[k].free = Capacity[k] - (held - 1)
  BY <1>1, <1>2, <1>4, <1>5, <1>6
<1> QED  BY <1>3, <1>7 DEF Balanced

\* A step that leaves every lease and host alone keeps the ledger.
LEMMA LedgerUntouched ==
  ASSUME Ledger, UNCHANGED <<lease, host>>
  PROVE  Ledger'
  BY DEF Ledger, Balanced, HeldBy, Registered

\* claim_next_work takes one slot for one lease.
LEMMA ClaimBalances ==
  ASSUME Inv, Ledger, NEW k \in Workers, NEW w \in Works, Claim(k, w)
  PROVE  Ledger'
<1> SUFFICES ASSUME TrustedReports, NEW j \in Workers, Registered(j)'  PROVE Balanced(j)'
  BY DEF Ledger
<1>1. host[k] \in HostRecord /\ lease \in [Works -> LeaseRecord] /\ Capacity[k] \in Nat
  BY CapacityAssumption DEF Inv, TypeOK
<1>2. /\ lease' = [lease EXCEPT ![w] = [state |-> "active", worker |-> k, expired |-> FALSE]]
      /\ host' = [host EXCEPT ![k].free = @ - 1, ![k].runs = @ + 1]
      /\ host[k].state = "online"
  BY DEF Claim
<1>3. lease[w].state = "none"  BY DEF Inv, LeaseMatchesAssignment, Claim
<1>4. CASE j = k
  <2>1. Balanced(k)  BY <1>2 DEF Ledger, Registered
  <2>2. HeldBy(k)' = HeldBy(k) \cup { w } /\ w \notin HeldBy(k)
    BY <1>1, <1>2, <1>3 DEF HeldBy
  <2>3. /\ IsFiniteSet(HeldBy(k)')
        /\ Cardinality(HeldBy(k)') = Cardinality(HeldBy(k)) + 1
    BY <2>1, <2>2, FS_AddElement DEF Balanced
  <2>4. Cardinality(HeldBy(k)) \in Nat  BY <2>1, FS_CardinalityType DEF Balanced
  <2>5. host'[k].free = host[k].free - 1 /\ host'[k].runs = host[k].runs + 1
    BY <1>1, <1>2 DEF HostRecord, Inv, TypeOK
  <2> QED  BY <1>1, <1>4, <2>1, <2>3, <2>4, <2>5 DEF Balanced
<1>5. CASE j # k
  <2>1. host'[j] = host[j]  BY <1>2, <1>5 DEF Inv, TypeOK
  <2>2. HeldBy(j)' = HeldBy(j)  BY <1>1, <1>2, <1>3, <1>5 DEF HeldBy
  <2>3. Balanced(j)  BY <2>1 DEF Ledger, Registered
  <2> QED  BY <2>1, <2>2, <2>3, BalanceUntouched
<1> QED  BY <1>4, <1>5

\* Releasing an active lease returns its slot to the worker it names, and to nobody else.
LEMMA ReturnBalances ==
  ASSUME Inv, Ledger, NEW w \in Works, lease[w].state = "active",
         host' = [host EXCEPT ![lease[w].worker] = ReturnResources(lease[w].worker)],
         lease' = [lease EXCEPT ![w].state = "released"]
  PROVE  Ledger'
<1> SUFFICES ASSUME TrustedReports, NEW j \in Workers, Registered(j)'  PROVE Balanced(j)'
  BY DEF Ledger
<1>1. PICK k \in Workers : k = lease[w].worker /\ Registered(k)
  BY HeldLease DEF Inv, LeaseMatchesAssignment
<1>2. lease \in [Works -> LeaseRecord] /\ host \in [Workers -> HostRecord]
  BY DEF Inv, TypeOK
<1>3. HeldBy(k)' = HeldBy(k) \ { w } /\ w \in HeldBy(k)
  BY <1>1, <1>2 DEF HeldBy, LeaseRecord
<1>4. CASE j = k
  <2>1. Balanced(k)  BY <1>1 DEF Ledger
  <2>2. host'[k] = ReturnResources(k)  BY <1>1, <1>2
  <2> QED  BY <1>3, <1>4, <2>1, <2>2, BalanceReturned
<1>5. CASE j # k
  <2>1. host'[j] = host[j]  BY <1>1, <1>2, <1>5
  <2>2. HeldBy(j)' = HeldBy(j)  BY <1>1, <1>2, <1>5 DEF HeldBy, LeaseRecord
  <2>3. Balanced(j)  BY <2>1 DEF Ledger, Registered
  <2> QED  BY <2>1, <2>2, <2>3, BalanceUntouched
<1> QED  BY <1>4, <1>5

\* A repeated or a late reconciliation returns nothing twice.
LEMMA ReconcileBalances ==
  ASSUME Inv, Ledger, NEW w \in Works, Reconcile(w)
  PROVE  Ledger'
<1>1. CASE lease[w].state = "active"
  BY <1>1, ReturnBalances DEF Reconcile, ReconciledHost
<1>2. CASE lease[w].state = "released"
  <2>1. lease[w] \in LeaseRecord /\ lease \in [Works -> LeaseRecord]
    BY DEF Inv, TypeOK
  <2>2. [lease[w] EXCEPT !.state = "released"] = lease[w]
    BY <1>2, <2>1 DEF LeaseRecord
  <2>3. lease' = [lease EXCEPT ![w] = [lease[w] EXCEPT !.state = "released"]]
    BY DEF Reconcile
  <2>4. lease' = lease  BY <2>1, <2>2, <2>3
  <2>5. host' = host  BY <1>2 DEF Reconcile, ReconciledHost
  <2> QED  BY <2>4, <2>5, LedgerUntouched
<1> QED  BY <1>1, <1>2 DEF Reconcile

\* An expired lease is still held.
LEMMA ExpiryBalances ==
  ASSUME Inv, Ledger, NEW w \in Works, LeaseExpires(w)
  PROVE  Ledger'
<1> SUFFICES ASSUME TrustedReports, NEW j \in Workers, Registered(j)'  PROVE Balanced(j)'
  BY DEF Ledger
<1>1. host' = host /\ lease' = [lease EXCEPT ![w].expired = TRUE]  BY DEF LeaseExpires
<1>2. lease \in [Works -> LeaseRecord]  BY DEF Inv, TypeOK
<1>3. HeldBy(j)' = HeldBy(j)  BY <1>1, <1>2 DEF HeldBy, LeaseRecord
<1>4. Balanced(j)  BY <1>1 DEF Ledger, Registered
<1> QED  BY <1>1, <1>3, <1>4, BalanceUntouched

\* Quarantine gives nothing back: a fenced lease is still held.
LEMMA QuarantineBalances ==
  ASSUME Inv, Ledger, NEW k \in Workers, Quarantine(k)
  PROVE  Ledger'
<1> SUFFICES ASSUME TrustedReports, NEW j \in Workers, Registered(j)'  PROVE Balanced(j)'
  BY DEF Ledger
<1>1. host \in [Workers -> HostRecord]  BY DEF Inv, TypeOK
<1>2. /\ Registered(k)
      /\ host' = [host EXCEPT ![k] = RevokedHost(k)]
      /\ lease' = [w \in Works |->
                     IF lease[w].worker = k /\ lease[w].state = "active"
                     THEN [state |-> "quarantined", worker |-> k, expired |-> TRUE]
                     ELSE lease[w]]
  BY DEF Quarantine
<1>3. HeldBy(j)' = HeldBy(j)  BY <1>2 DEF HeldBy
<1>4. host'[j].runs = host[j].runs /\ host'[j].free = host[j].free
  BY <1>1, <1>2 DEF RevokedHost, HostRecord
<1>5. Registered(j)  BY <1>1, <1>2 DEF Registered
<1>6. Balanced(j)  BY <1>5 DEF Ledger
<1> QED  BY <1>3, <1>4, <1>6, BalanceUntouched

\* A new worker starts with all its room, a known one keeps its counts (register_worker).
LEMMA RegisterBalances ==
  ASSUME Inv, Ledger, NEW k \in Workers, NEW mock \in BOOLEAN, Register(k, mock)
  PROVE  Ledger'
<1> SUFFICES ASSUME TrustedReports, NEW j \in Workers, Registered(j)'  PROVE Balanced(j)'
  BY DEF Ledger
<1>1. host \in [Workers -> HostRecord] /\ Capacity \in [Workers -> Nat]
  BY CapacityAssumption DEF Inv, TypeOK
<1>2. host' = [host EXCEPT ![k] = RegisteredHost(k, mock)] /\ lease' = lease
  BY DEF Register
<1>3. HeldBy(j)' = HeldBy(j)  BY <1>2 DEF HeldBy
<1>4. CASE Registered(j)
  <2>1. host'[j].runs = host[j].runs /\ host'[j].free = host[j].free
    BY <1>1, <1>2, <1>4 DEF RegisteredHost, Registered, HostRecord
  <2>2. Balanced(j)  BY <1>4 DEF Ledger
  <2> QED  BY <1>3, <2>1, <2>2, BalanceUntouched
<1>5. CASE ~Registered(j)
  <2>1. j = k  BY <1>1, <1>2, <1>5 DEF Registered
  <2>2. host'[k].runs = 0 /\ host'[k].free = Capacity[k]
    BY <1>1, <1>2, <1>5, <2>1 DEF RegisteredHost
  <2>3. HeldBy(k) = {}  BY <1>5, <2>1, StrangersHoldNothing
  <2>4. IsFiniteSet({}) /\ Cardinality({}) = 0  BY FS_EmptySet
  <2> QED  BY <1>1, <1>3, <2>1, <2>2, <2>3, <2>4 DEF Balanced
<1> QED  BY <1>4, <1>5

\* A truthful heartbeat changes the worker's state and none of its counts.
LEMMA ReportBalances ==
  ASSUME Inv, Ledger, NEW k \in Workers, Report(k)
  PROVE  Ledger'
<1> SUFFICES ASSUME TrustedReports, NEW j \in Workers, Registered(j)'  PROVE Balanced(j)'
  BY DEF Ledger
<1>1. host \in [Workers -> HostRecord]  BY DEF Inv, TypeOK
<1>2. PICK state : Heartbeat(k, state, host[k].free, host[k].runs)
  BY DEF Report
<1>3. lease' = lease /\ Registered(k)  BY <1>2 DEF Heartbeat
<1>4. host'[j].runs = host[j].runs /\ host'[j].free = host[j].free
  BY <1>1, <1>2 DEF Heartbeat, HostRecord
<1>5. Registered(j)  BY <1>1, <1>2, <1>3 DEF Heartbeat, Registered
<1>6. HeldBy(j)' = HeldBy(j)  BY <1>3 DEF HeldBy
<1>7. Balanced(j)  BY <1>5 DEF Ledger
<1> QED  BY <1>4, <1>6, <1>7, BalanceUntouched

\* Every transaction keeps the ledger.
LEMMA LedgerKept ==
  ASSUME Inv, Ledger, [Next]_vars
  PROVE  Ledger'
<1>1. ASSUME NEW w \in Works, PeopleStep(w)  PROVE Ledger'
  BY <1>1, LedgerUntouched
     DEF PeopleStep, Submit, Cancel, Feedback, ExtendBudget, Approve, Reject
<1>2. ASSUME NEW w \in Works, DeliveryStep(w)  PROVE Ledger'
  BY <1>2, LedgerUntouched
     DEF DeliveryStep, StartDelivery, RearmDelivery, FinishDelivery, FailDelivery
<1>3. ASSUME NEW w \in Works, LeaseStep(w)  PROVE Ledger'
  <2>1. CASE LeaseExpires(w)  BY <2>1, ExpiryBalances
  <2>2. CASE Release(w)  BY <2>2, ReturnBalances DEF Release, LeaseValid
  <2>3. CASE Reconcile(w)  BY <2>3, ReconcileBalances
  <2> QED  BY <1>3, <2>1, <2>2, <2>3 DEF LeaseStep
<1>4. ASSUME NEW w \in Works, NEW target \in WorkStatus, WorkerTransition(w, target)
      PROVE Ledger'
  BY <1>4, LedgerUntouched DEF WorkerTransition
<1>5. CASE UNCHANGED vars  BY <1>5, LedgerUntouched DEF vars
<1> QED
  BY <1>1, <1>2, <1>3, <1>4, <1>5, ClaimBalances, ReportBalances, QuarantineBalances,
     RegisterBalances DEF Next

\* For any works, workers and capacities, and heartbeats that agree with the control
\* plane's accounting, each claim takes one slot and gives it back once: a worker's
\* active_runs is the number of leases it holds and its free room what they leave
\* (claim_next_work, return_lease_resources).
THEOREM Conserved ==
  Spec => []CapacityConserved
<1>1. Init => Ledger  BY DEF Init, Ledger, Registered, UnknownHost
<1>2. Ledger => CapacityConserved  BY DEF Ledger, Balanced, CapacityConserved
<1> QED  BY <1>1, <1>2, LedgerKept, Invariance, PTL DEF Spec
=============================================================================
