------------------------------- MODULE Runner -------------------------------
(***************************************************************************)
(* The guest runner (apps/runner/kelpie_runner/main.py) against the run    *)
(* API it calls: one process in one VM takes one work item from its        *)
(* bootstrap through agent turns, verification and uploads to the review   *)
(* gate, then polls for the decision that lets it continue.                *)
(*                                                                         *)
(* A call is one action when its answer arrives.  When it does not, the    *)
(* runner raises at once and the request may still be served later, after  *)
(* anything the runner or a person did meanwhile.  Nothing restarts the    *)
(* process: kelpie-runner.service has Restart=no.                          *)
(*                                                                         *)
(* The working tree is told apart only by whether its last state passed    *)
(* verification and was uploaded; feedback rows are numbered from 1.  The  *)
(* first loop of run() and its authorised one have the same control flow   *)
(* and share their stages.                                                 *)
(***************************************************************************)
EXTENDS WorkStates

CONSTANTS
  ReplanLimit,  \* Assignment.replan_limit
  MaxNotes,     \* bound: feedback rows
  MaxVersion,   \* bound: people decide and comment only below this version
  MaxFaults     \* bound on calls without an answer and stages that fail

ASSUME BoundsAssumption ==
  ReplanLimit \in Nat /\ MaxNotes \in Nat /\ MaxVersion \in Nat /\ MaxFaults \in Nat

VARIABLES
  status, version,  \* WorkItem.status, WorkItem.version
  lease,            \* the lease token opens the run API
  notes,            \* feedback rows of the work
  bundle,           \* the uploaded patch: "none", "stale" or the tree as it is, "current"
  late,             \* requests whose answer never came and that may still be served
  pc,               \* where run() is
  held,             \* work["version"]
  checked,          \* the tree as the last turn left it passed verification
  attempts,         \* attempts, repair_attempts
  cursor, seen,     \* feedback_cursor; what the commands call has answered
  told,             \* feedback rows some prompt has carried
  tries,            \* attempt of fail_execution
  faults,
  due, checks,      \* history: feedback rows when a person last resumed the work, and
                    \* verifications since
  stranded          \* history: a person resumed the work after the runner had exited

work == <<status, version>>
progress == <<checked, attempts, cursor, told, checks>>
vars == <<work, lease, notes, bundle, late, pc, held, progress, seen, tries, faults,
          due, stranded>>

\* Work the runner or the worker may settle as failed (fail_execution).
Executing == { "provisioning", "analyzing", "implementing", "verifying" }
Closed == { "cancelled", "failed", "pr_created", "completed" }

Reporting == { "claiming", "clone", "report", "repair", "exhaust", "wait" }
Stages == Reporting \cup { "bootstrap", "session", "turn", "verify", "upload", "poll",
                           "reading", "ready", "failing", "settle", "exited", "killed" }

\* With KELPIE_CONTROL_BOOTSTRAP=1 the runner itself takes the work to analyzing;
\* otherwise it is handed work that is already there.
Init ==
  /\ \/ status = "provisioning" /\ version = 2 /\ pc = "bootstrap" /\ held = 0
     \/ status = "analyzing" /\ version = 3 /\ pc = "clone" /\ held = 3
  /\ lease = TRUE
  /\ notes = 0
  /\ bundle = "none"
  /\ late = {}
  /\ checked = FALSE
  /\ attempts = 0
  /\ cursor = 0
  /\ seen = [status |-> "provisioning", version |-> 0, upto |-> 0]
  /\ told = {}
  /\ tries = 0
  /\ faults = 0
  /\ due = 0
  /\ checks = 0
  /\ stranded = FALSE

-----------------------------------------------------------------------------
(* Calls of the control client.                                            *)

\* worker_transition accepts a report of version v: the lease, the version, then the
\* worker's own graph (this run is no mock run).
Accepts(target, v) ==
  lease /\ v = version /\ target \in WorkerTransitions[status] \ MockOnly

Move(target) ==
  /\ status' = target
  /\ version' = version + 1

Fault == faults < MaxFaults /\ faults' = faults + 1

Request(call) == [call |-> call, version |-> held]

\* A call or stage that fails for a reason of its own, or at any time by a fault.
FailsIf(refused) == (refused /\ UNCHANGED faults) \/ Fault

\* control.transition from `stage`: answered, refused, or left without an answer.
Transition(stage, target, next) ==
  /\ pc = stage
  /\ \/ /\ Accepts(target, held)
        /\ Move(target)
        /\ held' = version + 1
        /\ pc' = next
        /\ UNCHANGED <<late, faults>>
     \/ /\ ~Accepts(target, held)
        /\ pc' = "failing"
        /\ UNCHANGED <<work, held, late, faults>>
     \/ /\ Fault
        /\ pc' = "failing"
        /\ late' = late \cup { Request(target) }
        /\ UNCHANGED <<work, held>>
  /\ UNCHANGED <<lease, notes, bundle, progress, seen, tries, due, stranded>>

\* upload_delivery_bundle: only work that is verifying or at the gate takes a patch.
AcceptsBundle == lease /\ status \in { "verifying", "awaiting_approval" }

\* A request the runner gave up on is served after all, or refused as any other.
LateArrives ==
  \E r \in late :
    /\ late' = late \ { r }
    /\ \/ /\ r.call = "bundle"
          /\ AcceptsBundle
          /\ bundle' = "current"
          /\ UNCHANGED work
       \/ /\ r.call # "bundle"
          /\ Accepts(r.call, r.version)
          /\ Move(r.call)
          /\ UNCHANGED bundle
       \/ /\ IF r.call = "bundle" THEN ~AcceptsBundle ELSE ~Accepts(r.call, r.version)
          /\ UNCHANGED <<work, bundle>>
    /\ UNCHANGED <<lease, notes, pc, held, progress, seen, tries, faults, due, stranded>>

-----------------------------------------------------------------------------
(* Preparing the run.                                                      *)

\* _is_provisioning_work, read with the lease
Assigned == lease /\ status = "provisioning" /\ version = 2

\* ControlClient.bootstrap: only this very assignment, provisioning or already analyzing.
Bootstrap ==
  /\ pc = "bootstrap"
  /\ \/ /\ Assigned
        /\ held' = version
        /\ pc' = "claiming"
        /\ UNCHANGED faults
     \/ /\ FailsIf(~Assigned)
        /\ pc' = "failing"
        /\ UNCHANGED held
  /\ UNCHANGED <<work, lease, notes, bundle, late, progress, seen, tries, due, stranded>>

\* Nobody else moves provisioning work on, so the re-read after a conflict finds the
\* very outcome that refused the report, and the runner gives up either way.
ClaimRun == Transition("claiming", "analyzing", "clone")

\* clone_repository, the repository.cloned event and "Repository ready"
CloneDone == Transition("clone", "implementing", "session")

\* CodexAppServer.start has a thread.
SessionStarts ==
  /\ pc = "session"
  /\ pc' = "turn"
  /\ UNCHANGED <<work, lease, notes, bundle, late, held, progress, seen, tries, faults,
                 due, stranded>>

\* A clone, a session, a turn or a verification raises: by itself, or because an event
\* it sends is refused.
StageFails ==
  /\ pc \in { "clone", "session", "turn", "verify" }
  /\ FailsIf(~lease)
  /\ pc' = "failing"
  /\ UNCHANGED <<work, lease, notes, bundle, late, held, progress, seen, tries, due, stranded>>

-----------------------------------------------------------------------------
(* Turns, verification and the way to the gate.                            *)

\* run_turn returns: the agent changed the tree, and its last event was taken.
TurnEnds ==
  /\ pc = "turn"
  /\ lease
  /\ pc' = "report"
  /\ checked' = FALSE
  /\ bundle' = IF bundle = "none" THEN "none" ELSE "stale"
  /\ UNCHANGED <<work, lease, notes, late, held, attempts, cursor, told, checks, seen, tries,
                 faults, due, stranded>>

ToVerifying == Transition("report", "verifying", "verify")

\* A limit that still repairs once more than it says.
OutOfRepairsLate(n) == n > ReplanLimit + 1

OutOfRepairs(n) == n > ReplanLimit

\* run_verification and the branch on its outcome.
Verify ==
  /\ pc = "verify"
  /\ checks' = checks + 1
  /\ \/ /\ lease
        /\ checked' = TRUE
        /\ attempts' = attempts
        /\ pc' = "upload"
     \/ /\ checked' = FALSE
        /\ attempts' = attempts + 1
        /\ pc' = IF OutOfRepairs(attempts + 1) THEN "exhaust" ELSE "repair"
  /\ UNCHANGED <<work, lease, notes, bundle, late, held, cursor, told, seen, tries, faults,
                 due, stranded>>

Repair == Transition("repair", "implementing", "turn")
Exhaust == Transition("exhaust", "budget_exhausted", "poll")

\* upload_evidence, create_delivery_bundle (which refuses an empty patch: one of the
\* faults) and upload_delivery_bundle.
UploadBundle ==
  /\ pc = "upload"
  /\ \/ /\ AcceptsBundle
        /\ bundle' = "current"
        /\ pc' = "wait"
        /\ UNCHANGED <<late, faults>>
     \/ /\ ~AcceptsBundle
        /\ pc' = "failing"
        /\ UNCHANGED <<bundle, late, faults>>
     \/ /\ Fault
        /\ pc' = "failing"
        /\ late' \in { late, late \cup { Request("bundle") } }
        /\ UNCHANGED bundle
  /\ UNCHANGED <<work, lease, notes, held, progress, seen, tries, due, stranded>>

\* Asking for the approval before the patch is there.
ToWaitingFirst == Transition("upload", "awaiting_approval", "poll")

ToWaiting == Transition("wait", "awaiting_approval", "poll")

-----------------------------------------------------------------------------
(* The polling loop.  runner_commands reads the work and then its feedback *)
(* in separate statements; people commit between the two, and between the  *)
(* answer and what the runner does with it.                                *)

ReadStatus ==
  /\ pc = "poll"
  /\ \/ /\ lease
        /\ seen' = [status |-> status, version |-> version, upto |-> cursor]
        /\ pc' = "reading"
        /\ UNCHANGED faults
     \/ /\ FailsIf(~lease)
        /\ pc' = "failing"
        /\ UNCHANGED seen
  /\ UNCHANGED <<work, lease, notes, bundle, late, held, progress, tries, due, stranded>>

ReadFeedback ==
  /\ pc = "reading"
  /\ seen' = [seen EXCEPT !.upto = notes]
  /\ pc' = "ready"
  /\ UNCHANGED <<work, lease, notes, bundle, late, held, progress, tries, faults, due,
                 stranded>>

Ends == seen.status \in Closed \cup { "committing" }

\* Resuming on new feedback only, whatever the decision was.
ContinuesOnFeedback == seen.status = "implementing" /\ seen.upto > cursor

Continues == seen.status = "implementing"

\* Reading feedback while nobody has authorised work on it.
WaitPastFeedback ==
  /\ pc' = "poll"
  /\ cursor' = seen.upto
  /\ UNCHANGED <<held, checked, attempts, told, checks>>

Wait == pc' = "poll" /\ UNCHANGED <<held, progress>>

\* Feedback is history, not permission: only implementing work takes it, and a new turn.
TakeCommands ==
  /\ pc = "ready"
  /\ \/ /\ Continues
        /\ held' = seen.version
        /\ cursor' = seen.upto
        /\ told' = told \cup (cursor + 1 .. seen.upto)
        /\ attempts' = 0
        /\ pc' = "turn"
        /\ UNCHANGED <<checked, checks>>
     \/ Ends /\ pc' = "exited" /\ UNCHANGED <<held, progress>>
     \/ ~Continues /\ ~Ends /\ Wait
  /\ UNCHANGED <<work, lease, notes, bundle, late, seen, tries, faults, due, stranded>>

-----------------------------------------------------------------------------
(* fail_execution, and the end of the process.                             *)

FailRead ==
  /\ pc = "failing"
  /\ \/ /\ lease
        /\ held' = version
        /\ pc' = IF status \in Executing THEN "settle" ELSE "exited"
        /\ UNCHANGED faults
     \/ /\ FailsIf(~lease)
        /\ pc' = "exited"
        /\ UNCHANGED held
  /\ UNCHANGED <<work, lease, notes, bundle, late, progress, seen, tries, due, stranded>>

\* A conflict taken for any other refusal.
ConflictUnseen == FALSE

\* Another status was written since the read: read once more.
Conflict == lease /\ held # version

FailWrite ==
  /\ pc = "settle"
  /\ \/ /\ Accepts("failed", held)
        /\ Move("failed")
        /\ pc' = "exited"
        /\ UNCHANGED <<late, tries, faults>>
     \/ /\ Conflict
        /\ tries' = tries + 1
        /\ pc' = IF tries = 0 THEN "failing" ELSE "exited"
        /\ UNCHANGED <<work, late, faults>>
     \/ /\ ~Accepts("failed", held) /\ ~Conflict
        /\ pc' = "exited"
        /\ UNCHANGED <<work, late, tries, faults>>
     \/ /\ Fault
        /\ pc' = "exited"
        /\ late' = late \cup { Request("failed") }
        /\ UNCHANGED <<work, tries>>
  /\ UNCHANGED <<lease, notes, bundle, held, progress, seen, due, stranded>>

-----------------------------------------------------------------------------
(* People, delivery and the worker.                                        *)

\* What a person's decision to continue does to the work.
Resume(rows) ==
  /\ Move("implementing")
  /\ due' = rows
  /\ checks' = 0
  /\ stranded' = (stranded \/ pc = "exited")

\* add_feedback, and the same command from Slack: the lease is not involved, a
\* quarantined worker's work has an outcome.
AddFeedback ==
  /\ notes < MaxNotes /\ version < MaxVersion
  /\ status \in FeedbackAllowed
  /\ notes' = notes + 1
  /\ IF status \in ResumedByFeedback THEN Resume(notes + 1)
     ELSE UNCHANGED <<work, due, checks, stranded>>
  /\ UNCHANGED <<lease, bundle, late, pc, held, checked, attempts, cursor, told, seen,
                 tries, faults>>

\* decide_approval that continues the work: a rejected patch or a larger budget.
DecideToContinue ==
  /\ version < MaxVersion
  /\ status \in { "awaiting_approval", "budget_exhausted" }
  /\ Resume(notes)
  /\ UNCHANGED <<lease, notes, bundle, late, pc, held, checked, attempts, cursor, told, seen,
                 tries, faults>>

\* decide_approval that approves the patch, then central delivery and the merge webhook.
Deliver ==
  /\ \E target \in AllowedTransitions[status] :
       /\ \/ status = "awaiting_approval" /\ bundle # "none" /\ target = "committing"
          \/ status \in { "committing", "pr_created" }
       /\ Move(target)
  /\ UNCHANGED <<lease, notes, bundle, late, pc, held, progress, seen, tries, faults, due,
                 stranded>>

\* The lease expires, or the worker is quarantined, which settles its work; the commands
\* call keeps the worker row locked from its first read to its last.
LoseLease ==
  /\ lease
  /\ pc # "reading"
  /\ lease' = FALSE
  /\ \/ UNCHANGED work
     \/ status \notin TerminalWork /\ Move(QuarantineOutcome(status))
  /\ UNCHANGED <<notes, bundle, late, pc, held, progress, seen, tries, faults, due, stranded>>

\* The worker tears the VM down ...
KillVM ==
  /\ pc # "killed"
  /\ pc' = "killed"
  /\ UNCHANGED <<work, lease, notes, bundle, late, held, progress, seen, tries, faults, due,
                 stranded>>

\* ... and then settles work that was still executing (settleExecutionFailure).
WorkerSettles ==
  /\ pc = "killed"
  /\ lease
  /\ status \in Executing
  /\ Move("failed")
  /\ UNCHANGED <<lease, notes, bundle, late, pc, held, progress, seen, tries, faults, due,
                 stranded>>

-----------------------------------------------------------------------------
RunnerStep ==
  \/ Bootstrap \/ ClaimRun \/ CloneDone \/ SessionStarts \/ ToVerifying \/ Verify
  \/ Repair \/ Exhaust \/ UploadBundle \/ ToWaiting
  \/ ReadStatus \/ ReadFeedback \/ TakeCommands \/ FailRead \/ FailWrite

Environment ==
  AddFeedback \/ DecideToContinue \/ Deliver \/ LoseLease \/ KillVM \/ WorkerSettles

Next == RunnerStep \/ TurnEnds \/ StageFails \/ LateArrives \/ Environment

Spec == Init /\ [][Next]_vars

\* The process runs on by itself; run_turn has no time limit, so nothing obliges a turn
\* to end, nor a person to decide.
FairSpec == Spec /\ WF_vars(RunnerStep)

-----------------------------------------------------------------------------
(* Properties.                                                             *)

\* Every variable stays in its domain.
TypeOK ==
  /\ status \in WorkStatus /\ version \in Nat
  /\ lease \in BOOLEAN
  /\ notes \in Nat
  /\ bundle \in { "none", "stale", "current" }
  /\ late \subseteq [call : WorkStatus \cup { "bundle" }, version : Nat]
  /\ pc \in Stages
  /\ held \in Nat
  /\ checked \in BOOLEAN
  /\ attempts \in Nat /\ cursor \in Nat /\ checks \in Nat /\ due \in Nat
  /\ seen \in [status : WorkStatus, version : Nat, upto : Nat]
  /\ told \subseteq Nat
  /\ tries \in Nat
  /\ faults \in Nat
  /\ stranded \in BOOLEAN

\* When the agent works, every feedback row that existed when a person last resumed the
\* work has been put into a prompt, however the rows and the decision fell between the
\* two reads of the commands call (runner-resumption.md: "Pending feedback is applied
\* in order").
AgentIsTold == pc = "turn" => 1..due \subseteq told

\* What a person can approve is the tree the agent left, verified and uploaded as it is
\* now: no retry, repair or late request puts an older or unverified patch at the gate
\* (run: the patch is uploaded only after the checks passed).
ApprovalShowsVerifiedTree == status = "awaiting_approval" => checked /\ bundle = "current"

\* Between two decisions of a person the tree is verified at most once more than the
\* repairs the assignment allows (replan_limit, in both loops).
RepairsAreBounded == checks <= ReplanLimit + 1

\* One failure, wherever it strikes and however late its request lands, never leaves
\* work that looks as if it were being executed with no runner behind it
\* (fail_execution; people who resume work after the runner's end are the exception).
NoSilentDeath ==
  pc = "exited" /\ lease /\ faults <= 1 /\ ~stranded => status \notin Executing

\* Resumed work is executed: whenever the work is implementing, the agent gets its turn.
Served == status = "implementing" ~> pc = "turn" \/ status # "implementing"

\* Without a failed call a decision is never missed by the polling loop.
ServedWhenConnected == [](lease /\ faults = 0 /\ pc # "killed") => Served
=============================================================================
