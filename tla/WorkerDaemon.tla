---------------------------- MODULE WorkerDaemon ----------------------------
(***************************************************************************)
(* One KVM worker: its daemon (daemon.go, resources.go, tracker.go), the   *)
(* executor of its runs (executor.go), recovery after a restart            *)
(* (run_recovery.go, run_store.go), and the control plane's view of this   *)
(* worker, which the daemon changes only by requests.                      *)
(*                                                                         *)
(* A run is named by its work: the lease of a work is unique and names the *)
(* run directory and the domain.  Room is counted in slots, one per run.   *)
(* Physical cleanup of one run is one step here; module RunCleanup has its *)
(* steps.  A run record is prepared, running, cleanup-pending, cleaned or  *)
(* released; "torn" is a record or marker that was only partly written.    *)
(***************************************************************************)
EXTENDS Integers, FiniteSets

CONSTANTS
  Works, None,
  Slots,       \* runs the host has room for (KELPIE_*_TOTAL by KELPIE_RUN_*)
  Faults,      \* the kinds of failure that may happen
  MaxFaults,   \* bound: how many of them happen in a behaviour
  MaxVersion   \* bound: people and guests move a work only below this version

FaultKinds == { "crash", "lost", "late", "torn", "command", "expiry" }

ASSUME NoneAssumption == None \notin Works
ASSUME SlotsAssumption == Slots \in Nat
ASSUME FaultsAssumption == Faults \subseteq FaultKinds
ASSUME BoundsAssumption == MaxFaults \in Nat /\ MaxVersion \in Nat

VARIABLES
  \* the host: outlives the daemon
  domain,    \* runs that have a libvirt domain
  disks,     \* runs that have disks or other artifacts
  journal,   \* the last phase in the run's directory
  \* the control plane
  work,      \* "queued", "open" to this worker, "held" for people or delivery, "finished"
  version,   \* WorkItem.version
  lease,     \* ResourceLease: "none", "active", "expired" (still held), "released"
  row,       \* WorkerHost: is it registered, its free room, its active_runs
  late,      \* requests whose sender gave up, that the API may still handle
  \* the daemon process: lost in a crash
  phase,     \* what the process is doing
  seen,      \* the room and runs in the last registration answer
  acked,     \* the run whose reconciliation was just acknowledged
  tracker,   \* Tracker: the slots that are reserved locally
  call,      \* the request made under resourcesMu
  at,        \* where the execution of each run is
  bound,     \* runs whose execution has a lifecycle (BindResources)
  settling,  \* runs whose execution failed and is being settled
  retried,   \* runs whose settlement has used its second attempt
  read,      \* the version the settlement read
  faults     \* how many failures have happened

hostVars == <<domain, disks, journal>>
apiVars == <<work, version, lease, row>>
execVars == <<at, bound, settling, retried, read>>
vars == <<hostVars, apiVars, late, phase, seen, acked, tracker, call, execVars, faults>>

JournalPhases ==
  { "none", "prepared", "running", "cleanup-pending", "cleaned", "released", "torn" }
ProcessPhases == { "down", "cleaning", "registering", "reconciling", "serving", "stopping" }
Places == { "none", "start", "boot", "installed", "watch", "clean", "release", "failed",
            "settle", "fail", "done", "stuck" }
Ended == { "none", "done", "stuck" }

NoCall == [kind |-> "none", work |-> None, free |-> 0, runs |-> 0]
Unseen == [free |-> -1, runs |-> -1]

Init ==
  /\ domain = {} /\ disks = {}
  /\ journal = [w \in Works |-> "none"]
  /\ work = [w \in Works |-> "queued"]
  /\ version = [w \in Works |-> 1]
  /\ lease = [w \in Works |-> "none"]
  /\ row = [known |-> FALSE, free |-> 0, runs |-> 0]
  /\ late = {}
  /\ phase = "down" /\ seen = Unseen /\ acked = None
  /\ tracker = 0 /\ call = NoCall
  /\ at = [w \in Works |-> "none"]
  /\ bound = {} /\ settling = {} /\ retried = {}
  /\ read = [w \in Works |-> 0]
  /\ faults = 0

-----------------------------------------------------------------------------
(* Failures.                                                               *)

Fault(kind) == kind \in Faults /\ faults < MaxFaults /\ faults' = faults + 1

\* A step for w that goes wrong by a failure of this kind, or because the context of the
\* execution ended with the main loop.  A settlement has a context of its own.
Disturbed(kind, w) ==
  Fault(kind) \/ (phase = "stopping" /\ w \notin settling /\ UNCHANGED faults)

\* writeExclusive that reports an error: nothing was written, or everything was (the disk
\* did not confirm it), or a part, which no reader accepts.
WriteFails(w, marker) ==
  \/ Fault("command") /\ journal' \in { journal, [journal EXCEPT ![w] = marker] }
  \/ Fault("torn") /\ journal' = [journal EXCEPT ![w] = "torn"]

-----------------------------------------------------------------------------
(* The control plane's transactions, as in module ControlPlane.            *)

TokenValid(w) == lease[w] = "active"

\* worker_heartbeat: what the worker reports replaces what the API has accounted.
TakeReport(free, runs) ==
  /\ row' = [row EXCEPT !.free = free, !.runs = runs]
  /\ UNCHANGED <<work, version, lease>>

\* claim_next_work
Grant(w) ==
  /\ row.free >= 1
  /\ work[w] = "queued"
  /\ work' = [work EXCEPT ![w] = "open"]
  /\ version' = [version EXCEPT ![w] = @ + 1]
  /\ lease' = [lease EXCEPT ![w] = "active"]
  /\ row' = [row EXCEPT !.free = @ - 1, !.runs = @ + 1]

\* return_lease_resources
ReturnRoom ==
  row' = [row EXCEPT !.free = IF @ + 1 > Slots THEN Slots ELSE @ + 1,
                     !.runs = IF @ = 0 THEN 0 ELSE @ - 1]

\* release_run
TakeBack(w) ==
  /\ TokenValid(w)
  /\ work[w] = "finished"
  /\ lease' = [lease EXCEPT ![w] = "released"]
  /\ ReturnRoom
  /\ UNCHANGED <<work, version>>

\* worker_transition to "failed"
TakeFailure(w, expected) ==
  /\ TokenValid(w)
  /\ version[w] = expected
  /\ work[w] = "open"
  /\ work' = [work EXCEPT ![w] = "finished"]
  /\ version' = [version EXCEPT ![w] = @ + 1]
  /\ UNCHANGED <<lease, row>>

\* The guest's runner, people and central delivery move the work on.
WorkMoves(w, target) ==
  /\ work[w] \in { "open", "held" }
  /\ target \in { "open", "held", "finished" } \ { work[w] }
  /\ version[w] < MaxVersion
  /\ work' = [work EXCEPT ![w] = target]
  /\ version' = [version EXCEPT ![w] = @ + 1]
  /\ UNCHANGED <<hostVars, lease, row, late, phase, seen, acked, tracker, call, execVars,
                 faults>>

\* lease_seconds pass without a request that renews the lease.
LeaseExpires(w) ==
  /\ Fault("expiry")
  /\ lease[w] = "active"
  /\ lease' = [lease EXCEPT ![w] = "expired"]
  /\ UNCHANGED <<hostVars, work, version, row, late, phase, seen, acked, tracker, call,
                 execVars>>

\* The API handles a request that its sender no longer waits for.
LateRequest(request) ==
  /\ request \in late
  /\ late' = late \ { request }
  /\ CASE request.kind = "heartbeat" -> TakeReport(request.free, request.runs)
       [] request.kind = "claim"     -> \E w \in Works : Grant(w)
       [] request.kind = "release"   -> TakeBack(request.work)
       [] OTHER                      -> TakeFailure(request.work, request.runs)
  /\ UNCHANGED <<hostVars, phase, seen, acked, tracker, call, execVars, faults>>

-----------------------------------------------------------------------------
(* The process: start, recovery, stop and crash.                           *)

Forget ==
  /\ phase' = "down" /\ seen' = Unseen /\ acked' = None
  /\ tracker' = 0 /\ call' = NoCall
  /\ at' = [w \in Works |-> "none"]
  /\ bound' = {} /\ settling' = {} /\ retried' = {}
  /\ read' = [w \in Works |-> 0]

\* The runs a new process has to settle, were those without a domain left out.
OutstandingStarted == { w \in Works : journal[w] \notin { "none", "prepared", "released" } }

\* The runs a new process has to settle; runStore.List fails on a record it cannot read.
Outstanding == { w \in Works : journal[w] \notin { "none", "released" } }
Readable == \A w \in Works : journal[w] # "torn"

\* Run: systemd starts the daemon again, always.
Start ==
  /\ phase = "down"
  /\ Readable
  /\ phase' = "cleaning"
  /\ UNCHANGED <<hostVars, apiVars, late, seen, acked, tracker, call, execVars, faults>>

\* vmCleanup.Cleanup that succeeds: the domain, then its artifacts, then the marker.  Of a
\* run that was cleaned up before it only checks that nothing is left.
CleanUp(w) ==
  /\ journal[w] \notin { "none", "torn" }
  /\ domain' = domain \ { w }
  /\ disks' = disks \ { w }
  /\ journal' = [journal EXCEPT ![w] = IF @ = "released" THEN @ ELSE "cleaned"]

\* A cleanup that writes its marker before it is through.
CleanUpMarkedEarly(w) ==
  /\ Fault("command")
  /\ journal[w] \in { "prepared", "running", "cleanup-pending", "cleaned" }
  /\ journal' = [journal EXCEPT ![w] = "cleaned"]
  /\ UNCHANGED <<domain, disks>>

\* vmCleanup.Cleanup that stops half-way.  A record that cannot be read stays so: a marker
\* is written once (writeExclusive), and load fails before anything is touched.
CleanUpFails(w) ==
  \/ /\ journal[w] = "torn"
     /\ UNCHANGED <<hostVars, faults>>
  \/ /\ Fault("torn")
     /\ journal[w] \in { "prepared", "running", "cleanup-pending" }
     /\ journal' = [journal EXCEPT ![w] = "torn"]
     /\ \/ UNCHANGED <<domain, disks>>
        \/ domain' = domain \ { w } /\ disks' = disks \ { w }
  \/ /\ Fault("command")
     /\ journal[w] # "torn"
     /\ \/ UNCHANGED hostVars
        \/ /\ journal[w] \notin { "cleaned", "released" }
           /\ journal' = [journal EXCEPT ![w] = "cleanup-pending"]
           /\ \/ UNCHANGED <<domain, disks>>
              \/ domain' = domain \ { w } /\ disks' \in { disks, disks \ { w } }
        \/ CleanUp(w)   \* everything is done, and the last marker reports an error

\* prepareVMRecovery, for one run.
RecoverRun(w) ==
  /\ phase = "cleaning"
  /\ w \in Outstanding
  /\ \/ /\ journal[w] # "cleaned"
        /\ CleanUp(w)
        /\ UNCHANGED <<phase, seen, acked, tracker, call, execVars, faults>>
     \/ CleanUpFails(w) /\ Forget
  /\ UNCHANGED <<apiVars, late>>

Recovered ==
  /\ phase = "cleaning"
  /\ \A w \in Outstanding : journal[w] = "cleaned"
  /\ phase' = "registering"
  /\ UNCHANGED <<hostVars, apiVars, late, seen, acked, tracker, call, execVars, faults>>

\* RegisterRecovery: a known worker keeps its accounting.
Register ==
  /\ phase = "registering"
  /\ row' = IF row.known THEN row ELSE [known |-> TRUE, free |-> Slots, runs |-> 0]
  /\ \/ /\ phase' = "reconciling"
        /\ seen' = [free |-> row'.free, runs |-> row'.runs]
        /\ UNCHANGED <<acked, tracker, call, execVars, faults>>
     \/ Fault("lost") /\ Forget
  /\ UNCHANGED <<hostVars, work, version, lease, late>>

\* A reconciliation that takes back only leases that are still held.
ReconcileHeldOnly(w) ==
  /\ work[w] = "finished"
  /\ lease[w] \in { "active", "expired" }
  /\ lease' = [lease EXCEPT ![w] = "released"]
  /\ ReturnRoom

\* reconcile_terminal_lease, after InspectLease accepted the snapshot.
Reconcile(w) ==
  /\ work[w] = "finished"
  /\ lease[w] # "none"
  /\ lease' = [lease EXCEPT ![w] = "released"]
  /\ IF lease[w] = "released" THEN UNCHANGED row ELSE ReturnRoom

\* reconcileVMLeases, for one run: inspect, clean up again, reconcile.
ReconcileRun(w) ==
  /\ phase = "reconciling"
  /\ acked = None
  /\ journal[w] = "cleaned"
  /\ \/ /\ Reconcile(w)
        /\ acked' = w
        /\ UNCHANGED <<phase, seen, tracker, call, execVars, faults>>
     \/ Reconcile(w) /\ Fault("lost") /\ Forget
     \/ Fault("command") /\ Forget /\ UNCHANGED <<lease, row>>
  /\ UNCHANGED <<hostVars, work, version, late>>

\* cleanup.Released; a fresh registration is needed afterwards.
Acknowledge(w) ==
  /\ phase = "reconciling"
  /\ acked = w
  /\ \/ /\ journal' = [journal EXCEPT ![w] = "released"]
        /\ acked' = None
        /\ seen' = Unseen
        /\ UNCHANGED <<phase, tracker, call, execVars, faults>>
     \/ WriteFails(w, "released") /\ Forget
  /\ UNCHANGED <<domain, disks, apiVars, late>>

RegisterAgain ==
  /\ phase = "reconciling"
  /\ acked = None
  /\ Outstanding = {}
  /\ seen = Unseen
  /\ phase' = "registering"
  /\ UNCHANGED <<hostVars, apiVars, late, seen, acked, tracker, call, execVars, faults>>

\* An admission that trusts the accounting of the API alone.
AdmitByCount ==
  /\ phase = "reconciling"
  /\ acked = None
  /\ seen = [free |-> Slots, runs |-> 0]
  /\ phase' = "serving"
  /\ UNCHANGED <<hostVars, apiVars, late, seen, acked, tracker, call, execVars, faults>>

\* The last check of reconcileVMLeases: no active runs and all of the room.
Admit ==
  /\ phase = "reconciling"
  /\ acked = None
  /\ Outstanding = {}
  /\ seen = [free |-> Slots, runs |-> 0]
  /\ phase' = "serving"
  /\ UNCHANGED <<hostVars, apiVars, late, seen, acked, tracker, call, execVars, faults>>

\* errRunReconciliation: the process ends, and systemd starts the next one.
Refuse ==
  /\ phase = "reconciling"
  /\ acked = None
  /\ \/ \E w \in Outstanding : work[w] # "finished"
     \/ Outstanding = {} /\ seen \notin { Unseen, [free |-> Slots, runs |-> 0] }
  /\ Forget
  /\ UNCHANGED <<hostVars, apiVars, late, faults>>

\* SIGTERM: the main loop ends and waits for its executions.
Stop ==
  /\ phase = "serving"
  /\ phase' = "stopping"
  /\ UNCHANGED <<hostVars, apiVars, late, seen, acked, tracker, call, execVars, faults>>

Exit ==
  /\ phase = "stopping"
  /\ \A w \in Works : at[w] \in Ended
  /\ call = NoCall
  /\ Forget
  /\ UNCHANGED <<hostVars, apiVars, late, faults>>

\* The process dies at any point; a request it had sent may still be handled.
Crash ==
  /\ phase # "down"
  /\ Fault("crash")
  /\ Forget
  /\ late' \in { late, late \cup IF call.kind \in { "none", "ack" } \/ "late" \notin Faults
                                 THEN {} ELSE { call } }
  /\ UNCHANGED <<hostVars, apiVars>>
-----------------------------------------------------------------------------
(* Requests under resourcesMu: one at a time.                              *)

\* Where an execution goes when its release, or the cleanup before it, fails: Execute
\* returns the error and execute cleans up once more, but only once.
AfterError(w) == IF w \in settling THEN "stuck" ELSE "failed"

Running(w) == phase \in { "serving", "stopping" } /\ at[w] \notin Ended

\* heartbeat: the snapshot and its request are under one lock.
SendHeartbeat ==
  /\ phase = "serving"
  /\ call = NoCall
  /\ call' = [NoCall EXCEPT !.kind = "heartbeat", !.free = Slots - tracker, !.runs = tracker]
  /\ UNCHANGED <<hostVars, apiVars, late, phase, seen, acked, tracker, execVars, faults>>

\* A claim that reserves its room before it takes resourcesMu.
SendClaimUnlocked ==
  /\ phase = "serving"
  /\ tracker < Slots
  /\ tracker' = tracker + 1
  /\ call' = IF call = NoCall THEN [NoCall EXCEPT !.kind = "claim"] ELSE call
  /\ UNCHANGED <<hostVars, apiVars, late, phase, seen, acked, execVars, faults>>

\* claim: the room is reserved locally before it is asked for.
SendClaim ==
  /\ phase = "serving"
  /\ call = NoCall
  /\ tracker < Slots
  /\ tracker' = tracker + 1
  /\ call' = [NoCall EXCEPT !.kind = "claim"]
  /\ UNCHANGED <<hostVars, apiVars, late, phase, seen, acked, execVars, faults>>

\* reservedRunClient.Release, after its cleanup.
SendRelease(w) ==
  /\ Running(w)
  /\ at[w] = "release"
  /\ call = NoCall
  /\ call' = [NoCall EXCEPT !.kind = "release", !.work = w]
  /\ UNCHANGED <<hostVars, apiVars, late, phase, seen, acked, tracker, execVars, faults>>

\* A request that brought nothing, and a claim that forgets its reservation.
CallReturnsReserved ==
  /\ call' = NoCall
  /\ UNCHANGED tracker
  /\ at' = IF call.kind = "release" THEN [at EXCEPT ![call.work] = AfterError(call.work)] ELSE at

\* A request that brought nothing: a claim gives its reservation back, a release keeps it.
CallReturns ==
  /\ call' = NoCall
  /\ tracker' = IF call.kind = "claim" THEN tracker - 1 ELSE tracker
  /\ at' = IF call.kind = "release" THEN [at EXCEPT ![call.work] = AfterError(call.work)] ELSE at

HeartbeatTaken ==
  /\ call.kind = "heartbeat"
  /\ TakeReport(call.free, call.runs)
  /\ call' = NoCall
  /\ UNCHANGED <<hostVars, late, phase, seen, acked, tracker, execVars, faults>>

\* The API grants a claim; the daemon learns of it, or takes the claim for failed.
ClaimGranted(w) ==
  /\ call.kind = "claim"
  /\ Grant(w)
  /\ \/ /\ call' = NoCall
        /\ at' = [at EXCEPT ![w] = "start"]
        /\ UNCHANGED <<tracker, faults>>
     \/ Disturbed("lost", None) /\ CallReturns
  /\ UNCHANGED <<hostVars, late, phase, seen, acked, bound, settling, retried, read>>

ClaimEmpty ==
  /\ call.kind = "claim"
  /\ row.free < 1 \/ \A w \in Works : work[w] # "queued"
  /\ CallReturns
  /\ UNCHANGED <<hostVars, apiVars, late, phase, seen, acked, bound, settling, retried, read,
                 faults>>

\* The API takes the run back; until the daemon has noted it the lock stays held.
ReleaseTaken ==
  /\ call.kind = "release"
  /\ TakeBack(call.work)
  /\ \/ call' = [call EXCEPT !.kind = "ack"] /\ UNCHANGED <<at, tracker, faults>>
     \/ Disturbed("lost", call.work) /\ CallReturns
  /\ UNCHANGED <<hostVars, late, phase, seen, acked, bound, settling, retried, read>>

ReleaseRefused ==
  /\ call.kind = "release"
  /\ ~TokenValid(call.work) \/ work[call.work] # "finished"
  /\ CallReturns
  /\ UNCHANGED <<hostVars, apiVars, late, phase, seen, acked, bound, settling, retried, read,
                 faults>>

\* The request fails before the API has handled it, and may still be on its way.
CallFails ==
  /\ call.kind \in { "heartbeat", "claim", "release" }
  /\ \/ Disturbed("lost", call.work) /\ UNCHANGED late
     \/ Fault("late") /\ late' = late \cup { call }
  /\ CallReturns
  /\ UNCHANGED <<hostVars, apiVars, phase, seen, acked, bound, settling, retried, read>>

\* The rest of Release: the released marker, then the local room.  A marker that reports an
\* error leaves the room reserved, although the API has taken the run back.
NoteRelease(w) ==
  /\ call.kind = "ack"
  /\ call.work = w
  /\ call' = NoCall
  /\ \/ /\ w \in bound => journal[w] = "cleaned"
        /\ journal' = IF w \in bound THEN [journal EXCEPT ![w] = "released"] ELSE journal
        /\ tracker' = tracker - 1
        /\ at' = [at EXCEPT ![w] = "done"]
        /\ UNCHANGED faults
     \/ /\ w \in bound
        /\ WriteFails(w, "released")
        /\ at' = [at EXCEPT ![w] = AfterError(w)]
        /\ UNCHANGED tracker
  /\ UNCHANGED <<domain, disks, apiVars, late, phase, seen, acked, bound, settling, retried,
                 read>>

-----------------------------------------------------------------------------
(* The execution of one run (LibvirtExecutor.Execute, execute).            *)

Goto(w, place) == at' = [at EXCEPT ![w] = place]

\* Checks before anything is created, and the durable record of the run.
CreateRecord(w) ==
  /\ Running(w)
  /\ at[w] = "start"
  /\ \/ /\ Readable
        /\ journal[w] = "none"
        /\ journal' = [journal EXCEPT ![w] = "prepared"]
        /\ bound' = bound \cup { w }
        /\ Goto(w, "boot")
        /\ UNCHANGED faults
     \/ /\ Readable
        /\ journal[w] = "none"
        /\ WriteFails(w, "prepared")
        /\ Goto(w, "failed")
        /\ UNCHANGED bound
     \/ /\ Disturbed("command", w) \/ (~Readable /\ UNCHANGED faults)
        /\ Goto(w, "failed")
        /\ UNCHANGED <<journal, bound>>
  /\ UNCHANGED <<domain, disks, apiVars, late, phase, seen, acked, tracker, call, settling,
                 retried, read>>

\* Disks, network and domain.  A command that fails may have had its effect.
CreateMachine(w) ==
  /\ Running(w)
  /\ at[w] = "boot"
  /\ \/ /\ disks' = disks \cup { w } /\ domain' = domain \cup { w }
        /\ Goto(w, "installed")
        /\ UNCHANGED faults
     \/ /\ Disturbed("command", w)
        /\ \/ disks' \in { disks, disks \cup { w } } /\ UNCHANGED domain
           \/ disks' = disks \cup { w } /\ domain' = domain \cup { w }
        /\ Goto(w, "failed")
  /\ UNCHANGED <<journal, apiVars, late, phase, seen, acked, tracker, call, bound, settling,
                 retried, read>>

RecordRunning(w) ==
  /\ Running(w)
  /\ at[w] = "installed"
  /\ \/ /\ journal' = [journal EXCEPT ![w] = "running"]
        /\ Goto(w, "watch")
        /\ UNCHANGED faults
     \/ WriteFails(w, "running") /\ Goto(w, "failed")
  /\ UNCHANGED <<domain, disks, apiVars, late, phase, seen, acked, tracker, call, bound,
                 settling, retried, read>>

\* The bootstrap wait and the polling loop.
Watch(w) ==
  /\ Running(w)
  /\ at[w] = "watch"
  /\ \/ TokenValid(w) /\ work[w] = "finished" /\ Goto(w, "clean") /\ UNCHANGED faults
     \/ ~TokenValid(w) /\ Goto(w, "failed") /\ UNCHANGED faults
     \/ (Disturbed("lost", w) \/ Fault("command")) /\ Goto(w, "failed")
  /\ UNCHANGED <<hostVars, apiVars, late, phase, seen, acked, tracker, call, bound, settling,
                 retried, read>>

\* A release that asks the API first and cleans up when there is time.
CleanLater(w) ==
  /\ Running(w)
  /\ at[w] \in { "clean", "failed" }
  /\ Goto(w, IF at[w] = "clean" THEN "release" ELSE "settle")
  /\ UNCHANGED <<hostVars, apiVars, late, phase, seen, acked, tracker, call, bound, settling,
                 retried, read, faults>>

\* cleanupLocked, before a release or after a failure.  An execution that never bound a
\* lifecycle has nothing to clean up.
CleanRun(w) ==
  /\ Running(w)
  /\ at[w] \in { "clean", "failed" }
  /\ \/ /\ IF w \in bound THEN CleanUp(w) ELSE UNCHANGED hostVars
        /\ Goto(w, IF at[w] = "clean" THEN "release" ELSE "settle")
        /\ UNCHANGED faults
     \/ /\ w \in bound
        /\ CleanUpFails(w)
        /\ Goto(w, IF at[w] = "clean" THEN AfterError(w) ELSE "stuck")
  /\ UNCHANGED <<apiVars, late, phase, seen, acked, tracker, call, bound, settling, retried,
                 read>>

\* settleExecutionFailure reads the run.  What people or delivery own stays theirs.
Settle(w) ==
  /\ Running(w)
  /\ at[w] = "settle"
  /\ \/ /\ ~TokenValid(w) \/ work[w] = "held"
        /\ Goto(w, "stuck")
        /\ UNCHANGED <<settling, read, faults>>
     \/ /\ TokenValid(w) /\ work[w] = "finished"
        /\ settling' = settling \cup { w }
        /\ Goto(w, "clean")
        /\ UNCHANGED <<read, faults>>
     \/ /\ TokenValid(w) /\ work[w] = "open"
        /\ read' = [read EXCEPT ![w] = version[w]]
        /\ Goto(w, "fail")
        /\ UNCHANGED <<settling, faults>>
     \/ /\ Fault("lost")
        /\ Goto(w, "stuck")
        /\ UNCHANGED <<settling, read>>
  /\ UNCHANGED <<hostVars, apiVars, late, phase, seen, acked, tracker, call, bound, retried>>

\* The transition to "failed" is taken, with or without an answer.
FailWork(w) ==
  /\ Running(w)
  /\ at[w] = "fail"
  /\ TakeFailure(w, read[w])
  /\ \/ settling' = settling \cup { w } /\ Goto(w, "clean") /\ UNCHANGED faults
     \/ Fault("lost") /\ Goto(w, "stuck") /\ UNCHANGED settling
  /\ UNCHANGED <<hostVars, late, phase, seen, acked, tracker, call, bound, retried, read>>

\* The transition is refused: once a conflict is read again.
FailRefused(w) ==
  /\ Running(w)
  /\ at[w] = "fail"
  /\ \/ /\ ~TokenValid(w) \/ (version[w] # read[w] /\ w \in retried)
        /\ Goto(w, "stuck")
        /\ UNCHANGED <<late, retried, faults>>
     \/ /\ TokenValid(w) /\ version[w] # read[w] /\ w \notin retried
        /\ Goto(w, "settle")
        /\ retried' = retried \cup { w }
        /\ UNCHANGED <<late, faults>>
     \/ /\ Fault("late")
        /\ late' = late \cup { [NoCall EXCEPT !.kind = "fail", !.work = w, !.runs = read[w]] }
        /\ Goto(w, "stuck")
        /\ UNCHANGED retried
  /\ UNCHANGED <<hostVars, apiVars, phase, seen, acked, tracker, call, bound, settling, read>>

-----------------------------------------------------------------------------
Recovery(w) == RecoverRun(w) \/ ReconcileRun(w) \/ Acknowledge(w)
Process == Start \/ Recovered \/ Register \/ RegisterAgain \/ Admit \/ Refuse \/ Exit
Execution(w) ==
  CreateRecord(w) \/ CreateMachine(w) \/ RecordRunning(w) \/ Watch(w) \/ CleanRun(w)
    \/ Settle(w) \/ FailWork(w) \/ FailRefused(w) \/ SendRelease(w) \/ NoteRelease(w)
Answer ==
  HeartbeatTaken \/ (\E w \in Works : ClaimGranted(w)) \/ ClaimEmpty \/ ReleaseTaken
    \/ ReleaseRefused \/ CallFails

Next ==
  \/ Process \/ Stop \/ Crash \/ SendHeartbeat \/ SendClaim \/ Answer
  \/ \E w \in Works : Recovery(w) \/ Execution(w) \/ LeaseExpires(w)
  \/ \E w \in Works, target \in { "open", "held", "finished" } : WorkMoves(w, target)
  \/ \E request \in late : LateRequest(request)

Spec == Init /\ [][Next]_vars

\* systemd restarts the daemon (Restart=always), and the process goes on as long as it can
\* without a failure; nobody promises a failure, a stop, a claim or a move of the work.
\* resourcesMu is a fair mutex (sync.Mutex): no release waits behind heartbeats for ever.
Undisturbed(step) == step /\ UNCHANGED faults

Fairness ==
  /\ WF_vars(Process)
  /\ WF_vars(SendHeartbeat)
  /\ WF_vars(Undisturbed(Answer))
  /\ \A w \in Works :
       /\ WF_vars(Undisturbed(Recovery(w)))
       /\ WF_vars(Undisturbed(Execution(w)))
       /\ SF_vars(SendRelease(w))

FairSpec == Spec /\ Fairness

-----------------------------------------------------------------------------
(* Invariants.                                                             *)

TypeOK ==
  /\ domain \subseteq Works /\ disks \subseteq Works
  /\ journal \in [Works -> JournalPhases]
  /\ work \in [Works -> { "queued", "open", "held", "finished" }]
  /\ version \in [Works -> Nat]
  /\ lease \in [Works -> { "none", "active", "expired", "released" }]
  /\ row \in [known : BOOLEAN, free : 0..Slots, runs : Nat]
  /\ phase \in ProcessPhases /\ acked \in Works \cup { None }
  /\ tracker \in 0..Slots
  /\ at \in [Works -> Places]
  /\ bound \subseteq Works /\ settling \subseteq Works /\ retried \subseteq Works
  /\ read \in [Works -> Nat] /\ faults \in 0..MaxFaults

\* A domain or a disk is always covered by a record a restart can find, or by one that
\* keeps every restart from serving (store.Create before the first VM command).
RecordedBeforeBoot ==
  \A w \in domain \cup disks :
    journal[w] \in { "prepared", "running", "cleanup-pending", "torn" }

\* The local accounting is exact: a reservation for each execution that has not noted
\* its release, stuck ones included, and one for a claim under way; so a slot is neither
\* leaked by a claim that failed nor returned twice (Daemon.claim, Release).
TrackerExact ==
  tracker = Cardinality({ w \in Works : at[w] \notin { "none", "done" } })
            + IF call.kind = "claim" THEN 1 ELSE 0

\* A heartbeat on its way tells what is reserved now, not what was before a claim or a
\* release (resourcesMu).
ReportIsCurrent == call.kind = "heartbeat" => call.runs = tracker /\ call.free = Slots - tracker

-----------------------------------------------------------------------------
(* Action properties.                                                      *)

\* A new process takes work only on a host where nothing of the runs before is left and
\* every recorded run is released at the API (prepareVMRecovery, reconcileVMLeases).
AdmittedClean ==
  [][phase' = "serving" /\ phase # "serving" =>
       /\ domain' = {} /\ disks' = {}
       /\ \A w \in Works : journal'[w] = "none" \/ (journal'[w] = "released" /\ lease'[w] = "released")]_vars

\* No unresolved lease is left when a new process takes work: a lost claim response, too,
\* still blocks admission (docs/en/worker-lifecycle.md, "Restart and migration limitations").
AdmissionResolved ==
  [][phase' = "serving" /\ phase # "serving" =>
       \A w \in Works : lease'[w] \notin { "active", "expired" }]_vars

-----------------------------------------------------------------------------
(* Liveness.                                                               *)

Held(w) == lease[w] \in { "active", "expired" }

\* What keeps a host out on purpose: a lease whose work is not over, or that has no record.
Unresolved(w) == Held(w) /\ (work[w] # "finished" \/ journal[w] = "none")

\* The API counts a run that it has taken back.  Reconciliation returns the room of a lease
\* once, so nothing but a heartbeat corrects the row, and only a serving process sends one.
Overcounted == row.runs > Cardinality({ w \in Works : Held(w) })

\* A worker serves again after every restart, unless a lease stays unresolved: what was lost
\* of a release is settled by reconciliation (docs/en/worker-lease-reconciliation.md).
ServesAgain == []<>(phase = "serving") \/ <>[](\E w \in Works : Unresolved(w))

\* A worker serves again after every restart, unless a lease stays unresolved or the row
\* stays overcounted: recovery, reconciliation and the fresh registration do not stop one
\* another, whatever crashes, is lost or fails between two of their steps (Run).
ServesUnlessOvercounted ==
  \/ []<>(phase = "serving")
  \/ <>[](\E w \in Works : Unresolved(w))
  \/ <>[]Overcounted

\* The room of finished work comes back, from its execution or after a restart, unless that
\* execution has given up and waits for a restart (LibvirtExecutor.execute keeps its room),
\* or an unresolved lease keeps the host out (Release, reconcileVMLeases).
RoomReturned ==
  \A w \in Works :
    <>[](work[w] = "finished" /\ Held(w)) =>
      <>[](at[w] = "stuck" \/ \E v \in Works : Unresolved(v))

-----------------------------------------------------------------------------
(* What the host promises about its room: see module Occupancy.            *)

Room == INSTANCE Occupancy WITH
  occupied <- domain,
  returned <- { w \in Works : lease[w] = "released" }

KeepsRoom == Room!Spec
=============================================================================
