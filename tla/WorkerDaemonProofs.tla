------------------------ MODULE WorkerDaemonProofs -------------------------
(***************************************************************************)
(* Proofs about WorkerDaemon for any works, any number of slots and any    *)
(* kinds and number of failures: a machine is always on record, the local  *)
(* accounting is exact, a new process starts on a clean host, and the host *)
(* implements Occupancy.                                                   *)
(***************************************************************************)
EXTENDS WorkerDaemon, FiniteSetTheorems, TLAPS

-----------------------------------------------------------------------------
(* The inductive invariant.                                                *)

\* The process runs its main loop, or waits for the executions it has begun.
Up == phase \in { "serving", "stopping" }

\* Nothing of the run is on the host, and nothing will be put there any more: no execution
\* is on its way up.
Gone(w) ==
  /\ w \notin domain \cup disks
  /\ at[w] \notin { "start", "boot", "installed", "watch" }
  /\ work[w] # "queued"

\* The lease of a work and its run: what is queued has neither, and the API has the room
\* back only for a run that is gone.
LeaseOK(w) ==
  /\ lease[w] = "none" <=> work[w] = "queued"
  /\ work[w] = "queued" => at[w] = "none" /\ journal[w] = "none"
  /\ journal[w] = "released" => lease[w] = "released"
  /\ lease[w] = "released" => Gone(w)

\* The host of a run: what is there is on record, and behind the cleaning phase every
\* record has been cleaned up.
HostOK(w) ==
  /\ w \in domain \cup disks =>
       journal[w] \in { "prepared", "running", "cleanup-pending", "torn" }
  /\ phase \in { "registering", "reconciling" } =>
       journal[w] \in { "none", "cleaned", "released" }

\* The execution of a run: it lives in a process that is up, whatever is on the host then
\* belongs to one that has bound it, and it asks for the release only when all is gone.
PlaceOK(w) ==
  /\ ~Up => at[w] = "none" /\ w \notin bound
  /\ Up /\ w \in domain \cup disks => w \in bound /\ at[w] \notin { "none", "done" }
  /\ at[w] = "start" => journal[w] = "none"
  /\ at[w] \in { "boot", "installed", "watch" } => w \in bound
  /\ at[w] = "boot" => journal[w] = "prepared" /\ w \notin domain
  /\ at[w] \in { "release", "done" } => Gone(w)
  /\ w \in bound => journal[w] # "none"

RunOK(w) == LeaseOK(w) /\ HostOK(w) /\ PlaceOK(w)

\* The executions that hold a slot.
Reserved == { w \in Works : at[w] \notin { "none", "done" } }

TrackerOK == IsFiniteSet(Reserved) /\ TrackerExact

RequestRecord == [kind : { "none", "heartbeat", "claim", "release", "ack", "fail" },
                  work : Works \cup { None }, free : 0..Slots, runs : Nat]

\* The request under resourcesMu.
CallOK ==
  /\ call \in RequestRecord /\ call.kind # "fail"
  /\ call.kind = "none" => call = NoCall
  /\ call.kind # "none" => Up
  /\ call.kind \in { "release", "ack" } => call.work \in Works /\ at[call.work] = "release"
  /\ call.kind = "ack" => lease[call.work] = "released"
  /\ ReportIsCurrent

\* A request whose sender gave up does no harm when it is handled.
RequestOK(r) ==
  /\ r \in RequestRecord /\ r.kind \in { "heartbeat", "claim", "release", "fail" }
  /\ r.kind \in { "release", "fail" } => r.work \in Works
  /\ r.kind = "release" => Gone(r.work)

LateOK == \A r \in late : RequestOK(r)

\* Outside the main loop nothing is reserved, and an acknowledged run is cleaned up here
\* and released there.
ProcessOK ==
  /\ ~Up => tracker = 0
  /\ acked # None => /\ phase = "reconciling"
                     /\ journal[acked] = "cleaned"
                     /\ lease[acked] = "released"

IInv ==
  TypeOK /\ (\A w \in Works : RunOK(w)) /\ TrackerOK /\ CallOK /\ LateOK /\ ProcessOK

-----------------------------------------------------------------------------
(* Types.                                                                  *)

TypeHost ==
  domain \subseteq Works /\ disks \subseteq Works /\ journal \in [Works -> JournalPhases]
TypeApi ==
  /\ work \in [Works -> { "queued", "open", "held", "finished" }]
  /\ version \in [Works -> Nat]
  /\ lease \in [Works -> { "none", "active", "expired", "released" }]
  /\ row \in [known : BOOLEAN, free : 0..Slots, runs : Nat]
TypeProcess ==
  phase \in ProcessPhases /\ acked \in Works \cup { None } /\ tracker \in 0..Slots
TypeExec ==
  /\ at \in [Works -> Places]
  /\ bound \subseteq Works /\ settling \subseteq Works /\ retried \subseteq Works
  /\ read \in [Works -> Nat]
TypeFaults == faults \in 0..MaxFaults

\* The type invariant by the groups of variables that steps change together.
LEMMA Types ==
  /\ TypeOK <=> TypeHost /\ TypeApi /\ TypeProcess /\ TypeExec /\ TypeFaults
  /\ TypeOK' <=> TypeHost' /\ TypeApi' /\ TypeProcess' /\ TypeExec' /\ TypeFaults'
  BY DEF TypeOK, TypeHost, TypeApi, TypeProcess, TypeExec, TypeFaults

\* Failures are counted up to their bound.
LEMMA Counted ==
  ASSUME TypeFaults
  PROVE  /\ \A kind : Fault(kind) => TypeFaults'
         /\ \A kind, w : Disturbed(kind, w) => TypeFaults'
         /\ UNCHANGED faults => TypeFaults'
  BY BoundsAssumption DEF TypeFaults, Fault, Disturbed

\* A new process remembers nothing.
LEMMA ForgetTypes ==
  ASSUME Forget
  PROVE  TypeProcess' /\ TypeExec'
  BY SlotsAssumption DEF Forget, TypeProcess, TypeExec, ProcessPhases, Places

\* A grant takes one slot that is free.
LEMMA GrantTypes ==
  ASSUME TypeApi, NEW w \in Works, Grant(w)
  PROVE  TypeApi'
<1>1. row' = [row EXCEPT !.free = row.free - 1, !.runs = row.runs + 1]  BY DEF Grant
<1>2. row.free - 1 \in 0..Slots /\ row.runs + 1 \in Nat
  BY SlotsAssumption DEF TypeApi, Grant
<1>3. row' \in [known : BOOLEAN, free : 0..Slots, runs : Nat]
  BY <1>1, <1>2 DEF TypeApi
<1> QED  BY <1>3 DEF TypeApi, Grant

\* Room that comes back never exceeds the total, and runs never go below zero.
LEMMA RoomTypes ==
  ASSUME TypeApi, ReturnRoom
  PROVE  row' \in [known : BOOLEAN, free : 0..Slots, runs : Nat]
<1> DEFINE free == IF row.free + 1 > Slots THEN Slots ELSE row.free + 1
           runs == IF row.runs = 0 THEN 0 ELSE row.runs - 1
<1>1. free \in 0..Slots /\ runs \in Nat  BY SlotsAssumption DEF TypeApi
<1>2. row' = [row EXCEPT !.free = free, !.runs = runs]  BY DEF ReturnRoom
<1> HIDE DEF free, runs
<1> QED  BY <1>1, <1>2 DEF TypeApi

\* The API's other transactions keep its types.
LEMMA ApiTypes ==
  ASSUME TypeApi, NEW w \in Works
  PROVE  /\ TakeBack(w) => TypeApi'
         /\ Reconcile(w) /\ UNCHANGED <<work, version>> => TypeApi'
         /\ \A n : TakeFailure(w, n) => TypeApi'
         /\ \A free \in 0..Slots, runs \in Nat : TakeReport(free, runs) => TypeApi'
<1>1. TakeBack(w) => TypeApi'  BY RoomTypes DEF TakeBack, TypeApi
<1>2. Reconcile(w) /\ UNCHANGED <<work, version>> => TypeApi'
  BY RoomTypes DEF Reconcile, TypeApi
<1>3. \A n : TakeFailure(w, n) => TypeApi'  BY DEF TakeFailure, TypeApi
<1>4. \A free \in 0..Slots, runs \in Nat : TakeReport(free, runs) => TypeApi'
  BY DEF TakeReport, TypeApi
<1> QED  BY <1>1, <1>2, <1>3, <1>4

\* Cleanup keeps the host's types, whether it succeeds or fails.
LEMMA CleanTypes ==
  ASSUME TypeHost, TypeFaults, NEW w \in Works
  PROVE  /\ CleanUp(w) => TypeHost'
         /\ CleanUpFails(w) => TypeHost' /\ TypeFaults'
<1>1. CleanUp(w) => TypeHost'  BY DEF CleanUp, TypeHost, JournalPhases
<1>2. CleanUpFails(w) => TypeHost'
  BY <1>1 DEF CleanUpFails, TypeHost, JournalPhases, hostVars
<1>3. CleanUpFails(w) => TypeFaults'  BY Counted DEF CleanUpFails
<1> QED  BY <1>1, <1>2, <1>3

\* A write that reports an error changes at most this run's record.
LEMMA WriteKeeps ==
  ASSUME TypeHost, NEW w \in Works, NEW marker \in JournalPhases, WriteFails(w, marker)
  PROVE  /\ journal' \in [Works -> JournalPhases]
         /\ \A v \in Works \ { w } : journal'[v] = journal[v]
         /\ journal'[w] \in { journal[w], marker, "torn" }
         /\ TypeFaults => TypeFaults'
<1>1. \/ journal' = journal
      \/ journal' = [journal EXCEPT ![w] = marker]
      \/ journal' = [journal EXCEPT ![w] = "torn"]
  BY DEF WriteFails
<1>2. TypeFaults => TypeFaults'  BY Counted DEF WriteFails
<1> QED  BY <1>1, <1>2 DEF TypeHost, JournalPhases

\* The markers that the daemon writes.
LEMMA Markers ==
  { "prepared", "running", "released" } \subseteq JournalPhases
  BY DEF JournalPhases

-----------------------------------------------------------------------------
(* What a step does to a run.                                              *)

\* The step keeps the invariant of run w, and neither puts a run back on the host that is
\* gone nor takes back a release.
Kept(w) ==
  /\ RunOK(w)'
  /\ Gone(w) => Gone(w)'
  /\ lease[w] = "released" => lease'[w] = "released"

SameHost(w) ==
  /\ w \in domain' <=> w \in domain
  /\ w \in disks' <=> w \in disks
  /\ journal'[w] = journal[w]

SameApi(w) == lease'[w] = lease[w] /\ work'[w] = work[w]

SameExec(w) == at'[w] = at[w] /\ (w \in bound' <=> w \in bound)

\* The process does not start or end its main loop, and does not leave its cleaning phase.
SamePhase ==
  /\ Up' <=> Up
  /\ phase' \in { "registering", "reconciling" } => phase \in { "registering", "reconciling" }

\* A step that touches nothing of the run keeps it.
LEMMA Elsewhere ==
  ASSUME NEW w \in Works, RunOK(w), SameHost(w), SameApi(w), SameExec(w), SamePhase
  PROVE  Kept(w)
<1>1. Gone(w) => Gone(w)'  BY DEF Gone, SameHost, SameApi, SameExec
<1>2. LeaseOK(w)'  BY <1>1 DEF RunOK, LeaseOK, SameHost, SameApi, SameExec
<1>3. HostOK(w)'  BY DEF RunOK, HostOK, SameHost, SamePhase
<1>4. PlaceOK(w)'  BY <1>1 DEF RunOK, PlaceOK, SameHost, SameExec, SamePhase
<1> QED  BY <1>1, <1>2, <1>3, <1>4 DEF Kept, RunOK, SameApi

\* A process that ends leaves only the host and the API behind.
LEMMA Forgotten ==
  ASSUME NEW w \in Works, RunOK(w), SameApi(w), SameHost(w), Forget
  PROVE  Kept(w)
<1>1. at'[w] = "none" /\ w \notin bound' /\ phase' = "down"  BY DEF Forget
<1>2. ~Up'  BY <1>1 DEF Up
<1>3. Gone(w) => Gone(w)'  BY <1>1 DEF Gone, SameHost, SameApi
<1>4. LeaseOK(w)'  BY <1>1, <1>3 DEF RunOK, LeaseOK, SameHost, SameApi
<1>5. HostOK(w)'  BY <1>1 DEF RunOK, HostOK, SameHost
<1>6. PlaceOK(w)'  BY <1>1, <1>2 DEF PlaceOK
<1> QED  BY <1>3, <1>4, <1>5, <1>6 DEF Kept, RunOK, SameApi

\* What a cleanup does, whether it succeeds or fails half-way: it never adds to the host,
\* keeps what is left on record, and leaves the records of other runs alone.
Shrinks(w) ==
  /\ \A v \in Works \ { w } : SameHost(v)
  /\ w \in domain' => w \in domain
  /\ w \in disks' => w \in disks
  /\ w \in domain' \cup disks' =>
       journal'[w] \in { "prepared", "running", "cleanup-pending", "torn" }
  /\ journal'[w] # "none"
  /\ journal'[w] = "released" => journal[w] = "released"

\* Both outcomes of a cleanup shrink what is on the host.
LEMMA CleanShrinks ==
  ASSUME TypeHost, NEW w \in Works, RunOK(w), journal[w] # "none",
         CleanUp(w) \/ CleanUpFails(w)
  PROVE  Shrinks(w)
<1>1. CleanUp(w) => Shrinks(w)
  BY DEF CleanUp, Shrinks, SameHost, TypeHost
<1>2. CASE CleanUpFails(w)
  <2>1. CASE UNCHANGED hostVars
    BY <2>1 DEF Shrinks, SameHost, hostVars, RunOK, HostOK
  <2>2. CASE /\ journal[w] \in { "prepared", "running", "cleanup-pending" }
             /\ journal' = [journal EXCEPT ![w] = "torn"]
             /\ \/ UNCHANGED <<domain, disks>>
                \/ domain' = domain \ { w } /\ disks' = disks \ { w }
    BY <2>2 DEF Shrinks, SameHost, TypeHost
  <2>3. CASE /\ journal[w] \notin { "cleaned", "released" }
             /\ journal' = [journal EXCEPT ![w] = "cleanup-pending"]
             /\ \/ UNCHANGED <<domain, disks>>
                \/ domain' = domain \ { w } /\ disks' \in { disks, disks \ { w } }
    BY <2>3 DEF Shrinks, SameHost, TypeHost
  <2> QED  BY <1>1, <1>2, <2>1, <2>2, <2>3 DEF CleanUpFails
<1> QED  BY <1>1, <1>2

-----------------------------------------------------------------------------
(* The process: start, recovery, stop and crash.                           *)

\* prepareVMRecovery cleans up a run that no execution can have.
LEMMA RecoverKeeps ==
  ASSUME IInv, NEW v \in Works, RecoverRun(v), NEW w \in Works
  PROVE  Kept(w)
<1>1. TypeHost /\ RunOK(v) /\ RunOK(w)  BY Types DEF IInv
<1>2. phase = "cleaning" /\ ~Up  BY DEF RecoverRun, Up
<1>3. SameApi(w)  BY DEF RecoverRun, apiVars, SameApi
<1>4. journal[v] \notin { "none", "released" }  BY DEF RecoverRun, Outstanding
<1>5. Shrinks(v)  BY <1>1, <1>4, CleanShrinks DEF RecoverRun
<1>6. at'[w] = "none" /\ w \notin bound' /\ phase' \in { "cleaning", "down" }
  BY <1>1, <1>2 DEF RecoverRun, Forget, execVars, RunOK, PlaceOK
<1>7. ~Up'  BY <1>6 DEF Up
<1>8. Gone(w) => Gone(w)'
  BY <1>3, <1>5, <1>6 DEF Shrinks, Gone, SameHost, SameApi
<1>9. HostOK(w)'  BY <1>1, <1>5, <1>6 DEF Shrinks, SameHost, RunOK, HostOK
<1>10. LeaseOK(w)'
  BY <1>1, <1>3, <1>4, <1>5, <1>6, <1>8 DEF Shrinks, SameHost, SameApi, RunOK, LeaseOK
<1>11. PlaceOK(w)'  BY <1>6, <1>7 DEF PlaceOK
<1> QED  BY <1>3, <1>8, <1>9, <1>10, <1>11 DEF Kept, RunOK, SameApi

\* reconcileVMLeases releases a run whose record has been cleaned.
LEMMA ReconcileKeeps ==
  ASSUME IInv, NEW v \in Works, ReconcileRun(v), NEW w \in Works
  PROVE  Kept(w)
<1>1. TypeApi /\ RunOK(v) /\ RunOK(w)  BY Types DEF IInv
<1>2. phase = "reconciling" /\ ~Up /\ journal[v] = "cleaned"  BY DEF ReconcileRun, Up
<1>3. SameHost(w) /\ work' = work  BY DEF ReconcileRun, hostVars, SameHost
<1>4. at'[w] = "none" /\ w \notin bound' /\ phase' \in { "reconciling", "down" }
  BY <1>1, <1>2 DEF ReconcileRun, Forget, execVars, RunOK, PlaceOK
<1>5. \/ lease' = lease
      \/ lease[v] # "none" /\ lease' = [lease EXCEPT ![v] = "released"]
  BY DEF ReconcileRun, Reconcile
<1>6. lease'[w] = lease[w] \/ (w = v /\ lease[w] # "none" /\ lease'[w] = "released")
  BY <1>1, <1>5 DEF TypeApi
<1>7. Gone(w) => Gone(w)'  BY <1>3, <1>4 DEF Gone, SameHost
<1>8. Gone(v)
  BY <1>1, <1>2, <1>6 DEF Gone, RunOK, HostOK, PlaceOK, LeaseOK
<1>9. LeaseOK(w)'
  BY <1>1, <1>2, <1>3, <1>4, <1>6, <1>7, <1>8 DEF SameHost, RunOK, LeaseOK
<1>10. HostOK(w)'  BY <1>1, <1>2, <1>3, <1>4 DEF SameHost, RunOK, HostOK
<1>11. PlaceOK(w)'  BY <1>4 DEF PlaceOK, Up
<1> QED  BY <1>6, <1>7, <1>9, <1>10, <1>11 DEF Kept, RunOK

\* The released marker follows the acknowledgement; an error ends the process.
LEMMA AcknowledgeKeeps ==
  ASSUME IInv, NEW v \in Works, Acknowledge(v), NEW w \in Works
  PROVE  Kept(w)
<1>1. TypeHost /\ RunOK(v) /\ RunOK(w)  BY Types DEF IInv
<1>2. phase = "reconciling" /\ ~Up /\ journal[v] = "cleaned" /\ lease[v] = "released"
  BY NoneAssumption DEF Acknowledge, Up, IInv, ProcessOK
<1>3. SameApi(w) /\ domain' = domain /\ disks' = disks
  BY DEF Acknowledge, apiVars, SameApi
<1>4. /\ at'[w] = "none" /\ w \notin bound'
      /\ w # v => journal'[w] = journal[w]
      /\ \/ phase' = "reconciling" /\ journal'[v] = "released"
         \/ phase' = "down" /\ journal'[v] \in { "cleaned", "released", "torn" }
  <2>1. CASE journal' = [journal EXCEPT ![v] = "released"] /\ UNCHANGED <<phase, execVars>>
    BY <1>1, <1>2, <2>1 DEF execVars, RunOK, PlaceOK, TypeHost
  <2>2. CASE WriteFails(v, "released") /\ Forget
    BY <1>1, <1>2, <2>2, WriteKeeps, Markers DEF Forget
  <2> QED  BY <2>1, <2>2 DEF Acknowledge
<1>5. Gone(w) => Gone(w)'  BY <1>3, <1>4 DEF Gone, SameApi
<1>6. LeaseOK(w)'
  BY <1>1, <1>2, <1>3, <1>4, <1>5 DEF SameApi, RunOK, LeaseOK, TypeHost
<1>7. HostOK(w)'  BY <1>1, <1>2, <1>3, <1>4 DEF RunOK, HostOK, TypeHost
<1>8. PlaceOK(w)'  BY <1>4 DEF PlaceOK, Up
<1> QED  BY <1>3, <1>5, <1>6, <1>7, <1>8 DEF Kept, RunOK, SameApi

\* Recovery ends when every record that is left has been cleaned.
LEMMA RecoveredKeeps ==
  ASSUME IInv, Recovered, NEW w \in Works
  PROVE  Kept(w)
<1>1. TypeHost /\ RunOK(w)  BY Types DEF IInv
<1>2. /\ phase = "cleaning" /\ phase' = "registering" /\ ~Up /\ ~Up'
      /\ SameHost(w) /\ SameApi(w) /\ SameExec(w)
  BY DEF Recovered, Up, hostVars, apiVars, execVars, SameHost, SameApi, SameExec
<1>3. journal[w] \in { "none", "cleaned", "released" }
  BY <1>1 DEF Recovered, Outstanding
<1>4. Gone(w) => Gone(w)'  BY <1>2 DEF Gone, SameHost, SameApi, SameExec
<1>5. LeaseOK(w)'  BY <1>1, <1>2, <1>4 DEF RunOK, LeaseOK, SameHost, SameApi, SameExec
<1>6. HostOK(w)'  BY <1>1, <1>2, <1>3 DEF RunOK, HostOK, SameHost
<1>7. PlaceOK(w)'  BY <1>1, <1>2 DEF RunOK, PlaceOK, SameExec, SameHost
<1> QED  BY <1>2, <1>4, <1>5, <1>6, <1>7 DEF Kept, RunOK, SameApi

\* A new process serves a host on which every recorded run is gone and released.
LEMMA AdmitKeeps ==
  ASSUME IInv, Admit, NEW w \in Works
  PROVE  Kept(w)
<1>1. RunOK(w)  BY DEF IInv
<1>2. /\ phase = "reconciling" /\ phase' = "serving" /\ ~Up /\ Up'
      /\ SameHost(w) /\ SameApi(w) /\ SameExec(w)
  BY DEF Admit, Up, hostVars, apiVars, execVars, SameHost, SameApi, SameExec
<1>3. w \notin domain \cup disks
  BY <1>1, <1>2 DEF RunOK, HostOK
<1>4. Gone(w) => Gone(w)'  BY <1>2 DEF Gone, SameHost, SameApi, SameExec
<1>5. LeaseOK(w)'  BY <1>1, <1>2, <1>4 DEF RunOK, LeaseOK, SameHost, SameApi, SameExec
<1>6. HostOK(w)'  BY <1>1, <1>2 DEF RunOK, HostOK, SameHost
<1>7. PlaceOK(w)'  BY <1>1, <1>2, <1>3 DEF RunOK, PlaceOK, SameExec, SameHost
<1> QED  BY <1>2, <1>4, <1>5, <1>6, <1>7 DEF Kept, RunOK, SameApi

\* The other steps of the process touch no run, or end the process.
LEMMA ProcessKeeps ==
  ASSUME IInv, Process \/ Stop \/ Crash, NEW w \in Works
  PROVE  Kept(w)
<1> USE DEF hostVars, apiVars, execVars, SameHost, SameApi, SameExec
<1>0. RunOK(w)  BY DEF IInv
<1>1. CASE Start
  <2>1. SamePhase  BY <1>1 DEF Start, SamePhase, Up
  <2> QED  BY <1>0, <1>1, <2>1, Elsewhere DEF Start
<1>2. CASE Register
  <2>1. CASE Forget  BY <1>0, <1>2, <2>1, Forgotten DEF Register
  <2>2. CASE phase' = "reconciling" /\ UNCHANGED execVars
    <3>1. SamePhase  BY <1>2, <2>2 DEF Register, SamePhase, Up
    <3> QED  BY <1>0, <1>2, <2>2, <3>1, Elsewhere DEF Register
  <2> QED  BY <1>2, <2>1, <2>2 DEF Register
<1>3. CASE RegisterAgain
  <2>1. SamePhase  BY <1>3 DEF RegisterAgain, SamePhase, Up
  <2> QED  BY <1>0, <1>3, <2>1, Elsewhere DEF RegisterAgain
<1>4. CASE Stop
  <2>1. SamePhase  BY <1>4 DEF Stop, SamePhase, Up
  <2> QED  BY <1>0, <1>4, <2>1, Elsewhere DEF Stop
<1>5. CASE Refuse \/ Exit \/ Crash
  BY <1>0, <1>5, Forgotten DEF Refuse, Exit, Crash
<1> QED
  BY <1>1, <1>2, <1>3, <1>4, <1>5, RecoveredKeeps, AdmitKeeps DEF Process

-----------------------------------------------------------------------------
(* Requests, and what the API makes of them.                               *)

\* What the API does to one run: nothing, a grant to a claim, an expiry, a release of a run
\* that is gone, or a move of work that is not over.
ApiMoves(w) ==
  \/ SameApi(w)
  \/ work[w] = "queued" /\ work'[w] = "open" /\ lease'[w] = "active"
  \/ lease[w] = "active" /\ lease'[w] = "expired" /\ work'[w] = work[w]
  \/ lease[w] = "active" /\ lease'[w] = "released" /\ work'[w] = work[w] /\ Gone(w)
  \/ lease'[w] = lease[w] /\ work[w] # "queued" /\ work'[w] # "queued"

\* Where an execution goes without touching the host: never up, and to the release only
\* once the run is gone.
PlaceMoves(w) ==
  \/ at'[w] = at[w]
  \/ /\ Up /\ at[w] \notin { "none", "done" }
     /\ at'[w] \notin { "none", "done", "start", "boot", "installed", "watch" }
     /\ at'[w] = "release" => Gone(w)

\* A step that leaves the host alone and moves a run this way keeps it.
LEMMA Moves ==
  ASSUME NEW w \in Works, RunOK(w), SameHost(w), SamePhase, w \in bound' <=> w \in bound,
         ApiMoves(w), PlaceMoves(w)
  PROVE  Kept(w)
<1>1. at'[w] # at[w] => work[w] # "queued"  BY DEF PlaceMoves, RunOK, LeaseOK
<1>2. work[w] # "queued" => work'[w] # "queued"  BY DEF ApiMoves, SameApi
<1>3. Gone(w) => Gone(w)'  BY <1>2 DEF Gone, SameHost, PlaceMoves
<1>4. lease[w] = "released" => lease'[w] = "released"
  <2>1. CASE work[w] = "queued"  BY <2>1 DEF RunOK, LeaseOK
  <2>2. CASE work[w] # "queued"  BY <2>2 DEF ApiMoves, SameApi
  <2> QED  BY <2>1, <2>2
<1>5. LeaseOK(w)'
  <2>1. (lease[w] = "none" <=> work[w] = "queued")'
    BY DEF ApiMoves, SameApi, RunOK, LeaseOK
  <2>2. (work[w] = "queued")' => at'[w] = "none" /\ journal'[w] = "none"
    BY <1>1, <1>2 DEF SameHost, RunOK, LeaseOK
  <2>3. journal'[w] = "released" => lease'[w] = "released"
    BY <1>4 DEF SameHost, RunOK, LeaseOK
  <2>4. lease'[w] = "released" => Gone(w)'
    BY <1>3 DEF ApiMoves, SameApi, RunOK, LeaseOK
  <2> QED  BY <2>1, <2>2, <2>3, <2>4 DEF LeaseOK
<1>6. HostOK(w)'  BY DEF RunOK, HostOK, SameHost, SamePhase
<1>7. PlaceOK(w)'
  <2>1. CASE at'[w] = at[w]  BY <2>1, <1>3 DEF RunOK, PlaceOK, SameHost, SamePhase
  <2>2. CASE at'[w] # at[w]
    BY <2>2, <1>3 DEF PlaceMoves, RunOK, PlaceOK, SameHost, SamePhase
  <2> QED  BY <2>1, <2>2
<1> QED  BY <1>3, <1>4, <1>5, <1>6, <1>7 DEF Kept, RunOK

\* The API's transactions, seen from one run.
LEMMA ApiSteps ==
  ASSUME TypeApi, NEW v \in Works, NEW w \in Works
  PROVE  /\ Grant(v) => ApiMoves(w)
         /\ TakeBack(v) /\ Gone(v) => ApiMoves(w)
         /\ \A n : TakeFailure(v, n) => ApiMoves(w)
         /\ \A free, runs : TakeReport(free, runs) => ApiMoves(w)
<1>1. Grant(v) => ApiMoves(w)  BY DEF TypeApi, Grant, ApiMoves, SameApi
<1>2. TakeBack(v) /\ Gone(v) => ApiMoves(w)
  BY DEF TypeApi, TakeBack, TokenValid, ApiMoves, SameApi
<1>3. \A n : TakeFailure(v, n) => ApiMoves(w)
  BY DEF TypeApi, TakeFailure, ApiMoves, SameApi
<1>4. \A free, runs : TakeReport(free, runs) => ApiMoves(w)
  BY DEF TakeReport, ApiMoves, SameApi
<1> QED  BY <1>1, <1>2, <1>3, <1>4

\* Work moves, leases expire and late requests are handled without the daemon.
LEMMA OutsideKeeps ==
  ASSUME IInv, NEW w \in Works,
         \/ \E v \in Works : LeaseExpires(v)
         \/ \E v \in Works, target \in { "open", "held", "finished" } : WorkMoves(v, target)
         \/ \E request \in late : LateRequest(request)
  PROVE  Kept(w)
<1>1. TypeApi /\ RunOK(w)  BY Types DEF IInv
<1>2. /\ SameHost(w) /\ SamePhase
      /\ (w \in bound' <=> w \in bound) /\ at'[w] = at[w]
  BY DEF LeaseExpires, WorkMoves, LateRequest, hostVars, execVars, SameHost, SamePhase, Up
<1>3. ApiMoves(w)
  <2>1. CASE \E v \in Works : LeaseExpires(v)
    BY <1>1, <2>1 DEF TypeApi, LeaseExpires, ApiMoves, SameApi
  <2>2. CASE \E v \in Works, target \in { "open", "held", "finished" } : WorkMoves(v, target)
    BY <1>1, <2>2 DEF TypeApi, WorkMoves, ApiMoves, SameApi
  <2>3. ASSUME NEW request \in late, LateRequest(request)  PROVE ApiMoves(w)
    <3>1. RequestOK(request)  BY DEF IInv, LateOK
    <3>2. CASE request.kind = "heartbeat"  BY <1>1, <2>3, <3>2, ApiSteps DEF LateRequest
    <3>3. CASE request.kind = "claim"  BY <1>1, <2>3, <3>3, ApiSteps DEF LateRequest
    <3>4. CASE request.kind = "release"
      <4>1. TakeBack(request.work)  BY <2>3, <3>4 DEF LateRequest
      <4> QED  BY <1>1, <3>1, <3>4, <4>1, ApiSteps DEF RequestOK
    <3>5. CASE request.kind = "fail"
      <4>1. TakeFailure(request.work, request.runs)  BY <2>3, <3>5 DEF LateRequest
      <4> QED  BY <1>1, <3>1, <3>5, <4>1, ApiSteps DEF RequestOK
    <3> QED  BY <3>1, <3>2, <3>3, <3>4, <3>5 DEF RequestOK
  <2> QED  BY <2>1, <2>2, <2>3
<1> QED  BY <1>1, <1>2, <1>3, Moves DEF PlaceMoves

\* A request that brought nothing sends a release back to its cleanup, or leaves it stuck.
LEMMA ReturnMoves ==
  ASSUME IInv, CallReturns, NEW w \in Works
  PROVE  PlaceMoves(w)
<1>1. TypeExec /\ CallOK  BY Types DEF IInv
<1>2. CASE call.kind = "release"
  <2>1. at' = [at EXCEPT ![call.work] = AfterError(call.work)]
    BY <1>2 DEF CallReturns
  <2>2. Up /\ at[call.work] = "release" /\ call.work \in Works
    BY <1>1, <1>2 DEF CallOK
  <2>3. AfterError(call.work) \in { "failed", "stuck" }  BY DEF AfterError
  <2> QED  BY <1>1, <2>1, <2>2, <2>3 DEF TypeExec, PlaceMoves
<1>3. CASE call.kind # "release"  BY <1>3 DEF CallReturns, PlaceMoves
<1> QED  BY <1>2, <1>3

\* Requests under resourcesMu: sending one moves nothing, and its answer no run but the one
\* it is about.
LEMMA CallKeeps ==
  ASSUME IInv, NEW w \in Works,
         \/ SendHeartbeat \/ SendClaim \/ HeartbeatTaken \/ ClaimEmpty \/ ReleaseTaken
         \/ ReleaseRefused \/ CallFails \/ \E v \in Works : SendRelease(v)
  PROVE  Kept(w)
<1> USE DEF hostVars, execVars, apiVars
<1>1. TypeApi /\ RunOK(w) /\ CallOK  BY Types DEF IInv
<1>2. SameHost(w) /\ SamePhase /\ (w \in bound' <=> w \in bound)
  BY DEF SendHeartbeat, SendClaim, HeartbeatTaken, ClaimEmpty, ReleaseTaken, ReleaseRefused,
         CallFails, SendRelease, SameHost, SamePhase, Up
<1>3. ApiMoves(w)
  <2>1. CASE ReleaseTaken
    <3>1. call.work \in Works /\ at[call.work] = "release" /\ TakeBack(call.work)
      BY <1>1, <2>1 DEF ReleaseTaken, CallOK
    <3>2. Gone(call.work)  BY <3>1 DEF IInv, RunOK, PlaceOK
    <3> QED  BY <1>1, <3>1, <3>2, ApiSteps
  <2>2. CASE HeartbeatTaken  BY <1>1, <2>2, ApiSteps DEF HeartbeatTaken
  <2>3. CASE ~ReleaseTaken /\ ~HeartbeatTaken
    BY <2>3 DEF SendHeartbeat, SendClaim, ClaimEmpty, ReleaseRefused, CallFails, SendRelease,
                ApiMoves, SameApi
  <2> QED  BY <2>1, <2>2, <2>3
<1>4. PlaceMoves(w)
  BY ReturnMoves DEF SendHeartbeat, SendClaim, HeartbeatTaken, ClaimEmpty, ReleaseTaken,
                     ReleaseRefused, CallFails, SendRelease, PlaceMoves
<1> QED  BY <1>1, <1>2, <1>3, <1>4, Moves

\* A granted claim begins the execution of a run that has left no trace.
LEMMA GrantKeeps ==
  ASSUME IInv, NEW v \in Works, ClaimGranted(v), NEW w \in Works
  PROVE  Kept(w)
<1>1. TypeApi /\ TypeExec /\ RunOK(v) /\ RunOK(w) /\ CallOK  BY Types DEF IInv
<1>2. SameHost(w) /\ SamePhase /\ (w \in bound' <=> w \in bound) /\ Grant(v)
  BY DEF ClaimGranted, hostVars, SameHost, SamePhase, Up
<1>3. ApiMoves(w)  BY <1>1, <1>2, ApiSteps
<1>4. CASE CallReturns  BY <1>1, <1>2, <1>3, <1>4, ReturnMoves, Moves
<1>5. CASE at' = [at EXCEPT ![v] = "start"]
  <2>1. CASE w # v  BY <1>1, <1>2, <1>3, <1>5, <2>1, Moves DEF PlaceMoves, TypeExec
  <2>2. CASE w = v
    <3>1. /\ work[v] = "queued" /\ at[v] = "none" /\ journal[v] = "none"
          /\ lease'[v] = "active" /\ work'[v] = "open" /\ at'[v] = "start"
      BY <1>1, <1>2, <1>5 DEF Grant, TypeApi, TypeExec, RunOK, LeaseOK
    <3>2. Up /\ Up' /\ v \notin domain \cup disks
      BY <1>1, <1>2, <3>1 DEF ClaimGranted, CallOK, SamePhase, RunOK, HostOK
    <3>3. v \notin bound  BY <1>1, <3>1 DEF RunOK, PlaceOK
    <3>4. LeaseOK(v)'  BY <1>2, <2>2, <3>1 DEF LeaseOK, SameHost
    <3>5. HostOK(v)'  BY <1>1, <1>2, <2>2 DEF RunOK, HostOK, SameHost, SamePhase
    <3>6. PlaceOK(v)'  BY <1>2, <2>2, <3>1, <3>2, <3>3 DEF PlaceOK, SameHost
    <3> QED  BY <1>1, <2>2, <3>1, <3>4, <3>5, <3>6 DEF Kept, RunOK, Gone, LeaseOK
  <2> QED  BY <2>1, <2>2
<1> QED  BY <1>4, <1>5 DEF ClaimGranted

-----------------------------------------------------------------------------
(* The execution of one run.                                               *)

\* The record comes before everything else, on a run that has none.
LEMMA CreateRecordKeeps ==
  ASSUME IInv, NEW v \in Works, CreateRecord(v), NEW w \in Works
  PROVE  Kept(w)
<1>1. TypeHost /\ TypeExec /\ RunOK(v) /\ RunOK(w)  BY Types DEF IInv
<1>2. /\ Up /\ Up' /\ phase' = phase /\ SamePhase /\ SameApi(w)
      /\ at[v] = "start" /\ domain' = domain /\ disks' = disks
  BY DEF CreateRecord, Running, Up, SamePhase, apiVars, SameApi
<1>3. /\ work[v] # "queued" /\ journal[v] = "none" /\ lease[v] # "released"
      /\ v \notin domain \cup disks /\ v \notin bound
  BY <1>1, <1>2 DEF RunOK, LeaseOK, HostOK, PlaceOK, Gone
<1>4. /\ w # v => journal'[w] = journal[w]
      /\ \/ /\ journal'[v] = "prepared" /\ bound' = bound \cup { v }
            /\ at' = [at EXCEPT ![v] = "boot"]
         \/ /\ journal'[v] \in { "none", "prepared", "torn" } /\ bound' = bound
            /\ at' = [at EXCEPT ![v] = "failed"]
  <2>1. CASE WriteFails(v, "prepared") /\ bound' = bound /\ Goto(v, "failed")
    BY <1>1, <1>3, <2>1, WriteKeeps, Markers DEF Goto
  <2>2. CASE /\ journal' = [journal EXCEPT ![v] = "prepared"] /\ bound' = bound \cup { v }
             /\ Goto(v, "boot")
    BY <1>1, <2>2 DEF Goto, TypeHost
  <2>3. CASE journal' = journal /\ bound' = bound /\ Goto(v, "failed")
    BY <1>3, <2>3 DEF Goto
  <2> QED  BY <2>1, <2>2, <2>3 DEF CreateRecord
<1>5. CASE w # v
  <2>1. SameHost(w) /\ SameExec(w)
    BY <1>1, <1>2, <1>4, <1>5 DEF SameHost, SameExec, TypeHost, TypeExec
  <2> QED  BY <1>1, <1>2, <2>1, Elsewhere
<1>6. CASE w = v
  <2>1. \/ journal'[v] = "prepared" /\ v \in bound' /\ at'[v] = "boot"
        \/ /\ journal'[v] \in { "none", "prepared", "torn" } /\ v \notin bound'
           /\ at'[v] = "failed"
    BY <1>1, <1>3, <1>4 DEF TypeExec
  <2>2. LeaseOK(v)'
    BY <1>1, <1>2, <1>3, <1>6, <2>1 DEF SameApi, RunOK, LeaseOK
  <2>3. HostOK(v)'  BY <1>2, <1>3, <2>1 DEF HostOK, Up
  <2>4. PlaceOK(v)'  BY <1>2, <1>3, <2>1 DEF PlaceOK
  <2>5. ~Gone(v)  BY <1>2 DEF Gone
  <2> QED  BY <1>2, <1>3, <1>6, <2>2, <2>3, <2>4, <2>5 DEF Kept, RunOK
<1> QED  BY <1>5, <1>6

\* The machine is created under its record.
LEMMA CreateMachineKeeps ==
  ASSUME IInv, NEW v \in Works, CreateMachine(v), NEW w \in Works
  PROVE  Kept(w)
<1>1. TypeExec /\ RunOK(v) /\ RunOK(w)  BY Types DEF IInv
<1>2. /\ Up /\ Up' /\ phase' = phase /\ SamePhase /\ SameApi(w)
      /\ at[v] = "boot" /\ journal' = journal /\ bound' = bound
  BY DEF CreateMachine, Running, Up, SamePhase, apiVars, SameApi
<1>3. /\ domain' \in { domain, domain \cup { v } } /\ disks' \in { disks, disks \cup { v } }
      /\ \E place \in { "installed", "failed" } : at' = [at EXCEPT ![v] = place]
  BY DEF CreateMachine, Goto
<1>4. /\ work[v] # "queued" /\ journal[v] = "prepared" /\ lease[v] # "released"
      /\ v \in bound
  BY <1>1, <1>2 DEF RunOK, LeaseOK, PlaceOK, Gone
<1>5. CASE w # v
  <2>1. SameHost(w) /\ SameExec(w)
    BY <1>1, <1>2, <1>3, <1>5 DEF SameHost, SameExec, TypeExec
  <2> QED  BY <1>1, <1>2, <2>1, Elsewhere
<1>6. CASE w = v
  <2>1. at'[v] \in { "installed", "failed" }  BY <1>1, <1>3 DEF TypeExec
  <2>2. LeaseOK(v)'  BY <1>1, <1>2, <1>4, <1>6 DEF SameApi, RunOK, LeaseOK
  <2>3. HostOK(v)'  BY <1>2, <1>4 DEF HostOK, Up
  <2>4. PlaceOK(v)'  BY <1>2, <1>4, <2>1 DEF PlaceOK
  <2>5. ~Gone(v)  BY <1>2 DEF Gone
  <2> QED  BY <1>2, <1>4, <1>6, <2>2, <2>3, <2>4, <2>5 DEF Kept, RunOK
<1> QED  BY <1>5, <1>6

\* The running marker changes the phase of the record only.
LEMMA RecordRunningKeeps ==
  ASSUME IInv, NEW v \in Works, RecordRunning(v), NEW w \in Works
  PROVE  Kept(w)
<1>1. TypeHost /\ TypeExec /\ RunOK(v) /\ RunOK(w)  BY Types DEF IInv
<1>2. /\ Up /\ Up' /\ phase' = phase /\ SamePhase /\ SameApi(w) /\ at[v] = "installed"
      /\ domain' = domain /\ disks' = disks /\ bound' = bound
  BY DEF RecordRunning, Running, Up, SamePhase, apiVars, SameApi
<1>3. /\ w # v => journal'[w] = journal[w]
      /\ journal'[v] \in { journal[v], "running", "torn" }
      /\ \E place \in { "watch", "failed" } : at' = [at EXCEPT ![v] = place]
  <2>1. CASE journal' = [journal EXCEPT ![v] = "running"] /\ Goto(v, "watch")
    BY <1>1, <2>1 DEF Goto, TypeHost
  <2>2. CASE WriteFails(v, "running") /\ Goto(v, "failed")
    BY <1>1, <2>2, WriteKeeps, Markers DEF Goto
  <2> QED  BY <2>1, <2>2 DEF RecordRunning
<1>4. work[v] # "queued" /\ lease[v] # "released"
  BY <1>1, <1>2 DEF RunOK, LeaseOK, Gone
<1>5. CASE w # v
  <2>1. SameHost(w) /\ SameExec(w)
    BY <1>1, <1>2, <1>3, <1>5 DEF SameHost, SameExec, TypeHost, TypeExec
  <2> QED  BY <1>1, <1>2, <2>1, Elsewhere
<1>6. CASE w = v
  <2>1. journal'[v] \in { journal[v], "running", "torn" } /\ at'[v] \in { "watch", "failed" }
    BY <1>1, <1>3 DEF TypeExec
  <2>2. v \in bound /\ journal[v] # "none"  BY <1>1, <1>2 DEF RunOK, PlaceOK
  <2>3. LeaseOK(v)'  BY <1>1, <1>2, <1>4, <1>6, <2>1 DEF SameApi, RunOK, LeaseOK
  <2>4. HostOK(v)'  BY <1>1, <1>2, <2>1 DEF RunOK, HostOK, Up
  <2>5. PlaceOK(v)'  BY <1>2, <2>1, <2>2 DEF PlaceOK
  <2>6. ~Gone(v)  BY <1>2 DEF Gone
  <2> QED  BY <1>2, <1>4, <1>6, <2>3, <2>4, <2>5, <2>6 DEF Kept, RunOK
<1> QED  BY <1>5, <1>6

\* Cleanup before a release or after a failure.  Only a run that is gone goes on to its
\* release: it was cleaned up, or it never bound anything.
LEMMA CleanRunKeeps ==
  ASSUME IInv, NEW v \in Works, CleanRun(v), NEW w \in Works
  PROVE  Kept(w)
<1>1. TypeHost /\ TypeExec /\ RunOK(v) /\ RunOK(w)  BY Types DEF IInv
<1>2. /\ Up /\ Up' /\ phase' = phase /\ SamePhase /\ SameApi(w) /\ SameApi(v)
      /\ at[v] \in { "clean", "failed" } /\ bound' = bound
  BY DEF CleanRun, Running, Up, SamePhase, apiVars, SameApi
<1>3. work[v] # "queued"  BY <1>1, <1>2 DEF RunOK, LeaseOK
<1>4. \E place \in { "release", "settle", "failed", "stuck" } : at' = [at EXCEPT ![v] = place]
  BY DEF CleanRun, Goto, AfterError
<1>5. CASE v \notin bound
  <2>1. UNCHANGED hostVars  BY <1>5 DEF CleanRun
  <2>2. v \notin domain \cup disks
    BY <1>1, <1>2, <1>5 DEF RunOK, PlaceOK
  <2>3. Gone(v)  BY <1>2, <1>3, <2>2 DEF Gone
  <2>4. SameHost(w)  BY <2>1 DEF hostVars, SameHost
  <2>5. PlaceMoves(w)  BY <1>1, <1>2, <1>4, <2>3 DEF PlaceMoves, TypeExec
  <2> QED  BY <1>1, <1>2, <2>4, <2>5, Moves DEF ApiMoves
<1>6. CASE v \in bound
  <2>1. journal[v] # "none"  BY <1>1, <1>6 DEF RunOK, PlaceOK
  <2>2. CleanUp(v) \/ CleanUpFails(v)  BY <1>6 DEF CleanRun
  <2>3. Shrinks(v)  BY <1>1, <2>1, <2>2, CleanShrinks
  <2>4. CASE w # v
    <3>1. SameHost(w) /\ SameExec(w)
      BY <1>1, <1>2, <1>4, <2>3, <2>4 DEF Shrinks, SameExec, TypeExec
    <3> QED  BY <1>1, <1>2, <3>1, Elsewhere
  <2>5. CASE w = v
    <3>1. at'[v] \in { "release", "settle", "failed", "stuck" }
      BY <1>1, <1>4 DEF TypeExec
    <3>2. Gone(v) => Gone(v)'
      BY <1>2, <1>3, <2>3, <3>1 DEF Shrinks, Gone, SameApi
    <3>3. at'[v] = "release" => Gone(v)'
      <4>1. SUFFICES ASSUME at'[v] = "release"  PROVE Gone(v)'
        OBVIOUS
      <4>2. CleanUp(v)
        BY <1>1, <1>6, <4>1 DEF CleanRun, Goto, AfterError, TypeExec
      <4>3. v \notin domain' \cup disks'  BY <4>2 DEF CleanUp
      <4>4. work'[v] # "queued"  BY <1>2, <1>3 DEF SameApi
      <4> QED  BY <4>1, <4>3, <4>4 DEF Gone
    <3>4. LeaseOK(v)'
      BY <1>1, <1>2, <1>3, <2>3, <3>2 DEF Shrinks, SameApi, RunOK, LeaseOK
    <3>5. HostOK(v)'  BY <1>2, <2>3 DEF Shrinks, HostOK, Up
    <3>6. PlaceOK(v)'
      BY <1>2, <1>6, <2>3, <3>1, <3>3 DEF Shrinks, PlaceOK
    <3> QED  BY <1>2, <2>5, <3>2, <3>4, <3>5, <3>6 DEF Kept, RunOK, SameApi
  <2> QED  BY <2>4, <2>5
<1> QED  BY <1>5, <1>6

\* Watching, and settling a failure, touch nothing on the host.
LEMMA SettleKeeps ==
  ASSUME IInv, NEW v \in Works, NEW w \in Works,
         Watch(v) \/ Settle(v) \/ FailWork(v) \/ FailRefused(v)
  PROVE  Kept(w)
<1> USE DEF hostVars, apiVars
<1>1. TypeApi /\ TypeExec /\ RunOK(w)  BY Types DEF IInv
<1>2. SameHost(w) /\ SamePhase /\ (w \in bound' <=> w \in bound)
  BY DEF Watch, Settle, FailWork, FailRefused, SameHost, SamePhase, Up
<1>3. ApiMoves(w)
  BY <1>1, ApiSteps DEF Watch, Settle, FailWork, FailRefused, ApiMoves, SameApi
<1>4. \E place \in { "clean", "failed", "stuck", "fail", "settle" } :
        at' = [at EXCEPT ![v] = place]
  BY DEF Watch, Settle, FailWork, FailRefused, Goto
<1>5. Up /\ at[v] \notin { "none", "done" }
  BY DEF Watch, Settle, FailWork, FailRefused, Running, Ended, Up
<1>6. PlaceMoves(w)  BY <1>1, <1>4, <1>5 DEF PlaceMoves, TypeExec
<1> QED  BY <1>1, <1>2, <1>3, <1>6, Moves

\* The released marker is the last thing the daemon does for a run.
LEMMA NoteReleaseKeeps ==
  ASSUME IInv, NEW v \in Works, NoteRelease(v), NEW w \in Works
  PROVE  Kept(w)
<1>1. TypeHost /\ TypeExec /\ RunOK(v) /\ RunOK(w) /\ CallOK  BY Types DEF IInv
<1>2. /\ Up /\ Up' /\ phase' = phase /\ SamePhase /\ SameApi(w) /\ SameApi(v)
      /\ at[v] = "release" /\ lease[v] = "released"
      /\ domain' = domain /\ disks' = disks /\ bound' = bound
  BY <1>1 DEF NoteRelease, CallOK, Up, SamePhase, apiVars, SameApi
<1>3. Gone(v)  BY <1>1, <1>2 DEF RunOK, PlaceOK
<1>4. /\ w # v => journal'[w] = journal[w]
      /\ journal'[v] \in { journal[v], "released", "torn" }
      /\ \E place \in { "done", "failed", "stuck" } : at' = [at EXCEPT ![v] = place]
  <2>1. CASE /\ journal' = IF v \in bound THEN [journal EXCEPT ![v] = "released"] ELSE journal
             /\ at' = [at EXCEPT ![v] = "done"]
    BY <1>1, <2>1 DEF TypeHost
  <2>2. CASE WriteFails(v, "released") /\ at' = [at EXCEPT ![v] = AfterError(v)]
    BY <1>1, <2>2, WriteKeeps, Markers DEF AfterError
  <2> QED  BY <2>1, <2>2 DEF NoteRelease
<1>5. CASE w # v
  <2>1. SameHost(w) /\ SameExec(w)
    BY <1>1, <1>2, <1>4, <1>5 DEF SameHost, SameExec, TypeHost, TypeExec
  <2> QED  BY <1>1, <1>2, <2>1, Elsewhere
<1>6. CASE w = v
  <2>1. /\ journal'[v] \in { journal[v], "released", "torn" }
        /\ at'[v] \in { "done", "failed", "stuck" }
    BY <1>1, <1>4 DEF TypeExec
  <2>2. v \notin domain \cup disks /\ work[v] # "queued"  BY <1>3 DEF Gone
  <2>3. v \in bound => journal[v] # "none"  BY <1>1 DEF RunOK, PlaceOK
  <2>4. Gone(v)'  BY <1>2, <2>1, <2>2 DEF Gone, SameApi
  <2>5. LeaseOK(v)'  BY <1>1, <1>2, <2>2, <2>4 DEF SameApi, RunOK, LeaseOK
  <2>6. HostOK(v)'  BY <1>2, <2>2 DEF HostOK, Up
  <2>7. PlaceOK(v)'  BY <1>2, <2>1, <2>2, <2>3, <2>4 DEF PlaceOK
  <2> QED  BY <1>2, <1>6, <2>4, <2>5, <2>6, <2>7 DEF Kept, RunOK, SameApi
<1> QED  BY <1>5, <1>6

\* Every step keeps every run.
LEMMA RunsKept ==
  ASSUME IInv, [Next]_vars
  PROVE  \A w \in Works : Kept(w)
<1> SUFFICES ASSUME NEW w \in Works  PROVE Kept(w)
  OBVIOUS
<1>1. CASE Process \/ Stop \/ Crash  BY <1>1, ProcessKeeps
<1>2. CASE SendHeartbeat \/ SendClaim \/ Answer
  BY <1>2, CallKeeps, GrantKeeps DEF Answer
<1>3. ASSUME NEW v \in Works, Recovery(v)  PROVE Kept(w)
  BY <1>3, RecoverKeeps, ReconcileKeeps, AcknowledgeKeeps DEF Recovery
<1>4. ASSUME NEW v \in Works, Execution(v)  PROVE Kept(w)
  BY <1>4, CreateRecordKeeps, CreateMachineKeeps, RecordRunningKeeps, CleanRunKeeps,
     SettleKeeps, CallKeeps, NoteReleaseKeeps DEF Execution
<1>5. CASE \/ \E v \in Works : LeaseExpires(v)
           \/ \E v \in Works, target \in { "open", "held", "finished" } : WorkMoves(v, target)
           \/ \E request \in late : LateRequest(request)
  BY <1>5, OutsideKeeps
<1>6. CASE UNCHANGED vars
  BY <1>6, Elsewhere DEF IInv, vars, hostVars, apiVars, execVars, SameHost, SameApi, SameExec,
       SamePhase, Up
<1> QED  BY <1>1, <1>2, <1>3, <1>4, <1>5, <1>6 DEF Next

-----------------------------------------------------------------------------
(* The local accounting.                                                   *)

\* An execution that holds a slot, or a claim under way, is counted.
LEMMA Counting ==
  ASSUME IInv
  PROVE  /\ Cardinality(Reserved) \in Nat
         /\ tracker = Cardinality(Reserved) + (IF call.kind = "claim" THEN 1 ELSE 0)
         /\ Reserved # {} => Cardinality(Reserved) >= 1
<1>1. IsFiniteSet(Reserved) /\ TrackerExact  BY DEF IInv, TrackerOK
<1>2. Cardinality(Reserved) \in Nat  BY <1>1, FS_CardinalityType
<1>3. Reserved # {} => Cardinality(Reserved) # 0  BY <1>1, FS_EmptySet
<1> QED  BY <1>1, <1>2, <1>3 DEF TrackerExact, Reserved

\* A process that has forgotten everything counts nothing.
LEMMA ForgetTracker ==
  ASSUME Forget
  PROVE  TrackerOK'
<1>1. Reserved' = {}  BY DEF Forget, Reserved
<1>2. tracker' = 0 /\ call'.kind = "none"  BY DEF Forget, NoCall
<1> QED  BY <1>1, <1>2, FS_EmptySet DEF TrackerOK, TrackerExact, Reserved

\* An execution that goes on keeps its slot.
LEMMA StillReserved ==
  ASSUME TypeExec, NEW v \in Works, at[v] \notin { "none", "done" },
         NEW place, place \notin { "none", "done" }, at' = [at EXCEPT ![v] = place]
  PROVE  Reserved' = Reserved
  BY DEF TypeExec, Reserved

\* A step that keeps the executions and changes the count with the claim keeps it exact.
LEMMA TrackerKept ==
  ASSUME IInv, Reserved' = Reserved,
         \/ tracker' = tracker /\ (call'.kind = "claim" <=> call.kind = "claim")
         \/ tracker' = tracker - 1 /\ call.kind = "claim" /\ call'.kind # "claim"
         \/ tracker' = tracker + 1 /\ call.kind # "claim" /\ call'.kind = "claim"
  PROVE  TrackerOK'
<1>1. /\ Cardinality(Reserved) \in Nat
      /\ tracker = Cardinality(Reserved) + (IF call.kind = "claim" THEN 1 ELSE 0)
  BY Counting
<1>2. IsFiniteSet(Reserved')  BY DEF IInv, TrackerOK
<1>3. tracker' = Cardinality(Reserved') + IF call'.kind = "claim" THEN 1 ELSE 0
  BY <1>1
<1> QED  BY <1>2, <1>3 DEF TrackerOK, TrackerExact, Reserved

\* The places of a request's answer: a claim gives its slot back, a release keeps it.
LEMMA ReturnTracker ==
  ASSUME IInv, CallReturns
  PROVE  TrackerOK' /\ tracker' \in 0..Slots
<1>1. TypeExec /\ TypeProcess /\ CallOK  BY Types DEF IInv
<1>2. Reserved' = Reserved
  <2>1. CASE call.kind = "release"
    <3>1. at' = [at EXCEPT ![call.work] = AfterError(call.work)]  BY <2>1 DEF CallReturns
    <3>2. call.work \in Works /\ at[call.work] = "release"  BY <1>1, <2>1 DEF CallOK
    <3>3. AfterError(call.work) \notin { "none", "done" }  BY DEF AfterError
    <3> QED  BY <1>1, <3>1, <3>2, <3>3, StillReserved
  <2>2. CASE call.kind # "release"  BY <2>2 DEF CallReturns, Reserved
  <2> QED  BY <2>1, <2>2
<1>3. call'.kind = "none" /\ tracker' = IF call.kind = "claim" THEN tracker - 1 ELSE tracker
  BY DEF CallReturns, NoCall
<1>4. TrackerOK'  BY <1>2, <1>3, TrackerKept
<1>5. call.kind = "claim" => tracker >= 1  BY Counting
<1> QED  BY <1>1, <1>3, <1>4, <1>5, SlotsAssumption DEF TypeProcess

\* A granted claim turns its reservation into the slot of a new execution.
LEMMA GrantTracker ==
  ASSUME IInv, NEW v \in Works, Grant(v), call.kind = "claim", call' = NoCall,
         tracker' = tracker, at' = [at EXCEPT ![v] = "start"]
  PROVE  TrackerOK'
<1>1. TypeExec /\ at[v] = "none"  BY Types DEF IInv, RunOK, LeaseOK, Grant
<1>2. Reserved' = Reserved \cup { v } /\ v \notin Reserved
  BY <1>1 DEF TypeExec, Reserved
<1>3. IsFiniteSet(Reserved') /\ Cardinality(Reserved') = Cardinality(Reserved) + 1
  BY <1>2, FS_AddElement DEF IInv, TrackerOK
<1>4. tracker' = Cardinality(Reserved') + 0 /\ call'.kind # "claim"
  BY <1>3, Counting DEF NoCall
<1>5. Cardinality(Reserved') \in Nat  BY <1>3, FS_CardinalityType
<1>6. tracker' = Cardinality(Reserved') + IF call'.kind = "claim" THEN 1 ELSE 0
  BY <1>4, <1>5
<1> QED  BY <1>3, <1>6 DEF TrackerOK, TrackerExact, Reserved

\* A noted release returns the slot of its execution; a torn marker keeps it.
LEMMA NoteTracker ==
  ASSUME IInv, NEW v \in Works, NoteRelease(v)
  PROVE  TrackerOK' /\ tracker' \in 0..Slots
<1>1. TypeExec /\ TypeProcess /\ CallOK  BY Types DEF IInv
<1>2. at[v] = "release" /\ call.kind = "ack" /\ call'.kind = "none"
  BY <1>1 DEF NoteRelease, CallOK, NoCall
<1>3. CASE tracker' = tracker - 1 /\ at' = [at EXCEPT ![v] = "done"]
  <2>1. Reserved' = Reserved \ { v } /\ v \in Reserved
    BY <1>1, <1>2, <1>3 DEF TypeExec, Reserved
  <2>2. IsFiniteSet(Reserved') /\ Cardinality(Reserved') = Cardinality(Reserved) - 1
    BY <2>1, FS_RemoveElement DEF IInv, TrackerOK
  <2>3. tracker = Cardinality(Reserved) /\ Cardinality(Reserved) \in Nat /\ tracker >= 1
    BY <1>2, <2>1, Counting
  <2>4. tracker' = Cardinality(Reserved') + IF call'.kind = "claim" THEN 1 ELSE 0
    BY <1>2, <1>3, <2>2, <2>3
  <2>5. tracker' \in 0..Slots  BY <1>1, <1>3, <2>3, SlotsAssumption DEF TypeProcess
  <2> QED  BY <2>2, <2>4, <2>5 DEF TrackerOK, TrackerExact, Reserved
<1>4. CASE tracker' = tracker /\ \E place \in { "failed", "stuck" } : at' = [at EXCEPT ![v] = place]
  <2>1. Reserved' = Reserved  BY <1>1, <1>2, <1>4, StillReserved
  <2>2. TrackerOK'  BY <1>2, <1>4, <2>1, TrackerKept
  <2> QED  BY <1>1, <1>4, <2>2 DEF TypeProcess
<1> QED  BY <1>3, <1>4 DEF NoteRelease, AfterError

\* Every step keeps the accounting exact.
LEMMA TrackerStep ==
  ASSUME IInv, [Next]_vars
  PROVE  TrackerOK'
<1> USE DEF hostVars, apiVars, execVars
<1>1. TypeExec  BY Types DEF IInv
<1>2. CASE Forget  BY <1>2, ForgetTracker
<1>3. CASE at' = at /\ tracker' = tracker /\ (call'.kind = "claim" <=> call.kind = "claim")
  BY <1>3, TrackerKept DEF Reserved
<1>4. CASE Process \/ Stop \/ Crash
  BY <1>2, <1>3, <1>4 DEF Process, Start, Recovered, Register, RegisterAgain, Admit, Refuse,
       Exit, Stop, Crash
<1>5. ASSUME NEW v \in Works, Recovery(v)  PROVE TrackerOK'
  BY <1>2, <1>3, <1>5 DEF Recovery, RecoverRun, ReconcileRun, Acknowledge
<1>6. CASE SendHeartbeat \/ SendClaim \/ \E v \in Works : SendRelease(v)
  <2>1. Reserved' = Reserved  BY <1>6 DEF SendHeartbeat, SendClaim, SendRelease, Reserved
  <2>2. call.kind = "none"
    <3>1. call = NoCall  BY <1>6 DEF SendHeartbeat, SendClaim, SendRelease
    <3> QED  BY <3>1 DEF NoCall
  <2>3. CASE SendClaim
    <3>1. call'.kind = "claim" /\ tracker' = tracker + 1  BY <2>3 DEF SendClaim, NoCall
    <3> QED  BY <2>1, <2>2, <3>1, TrackerKept
  <2>4. CASE ~SendClaim
    <3>1. call'.kind \in { "heartbeat", "release" } /\ tracker' = tracker
      BY <1>6, <2>4 DEF SendHeartbeat, SendRelease, NoCall
    <3> QED  BY <2>1, <2>2, <3>1, TrackerKept
  <2> QED  BY <2>3, <2>4
<1>7. CASE Answer
  <2>1. CASE HeartbeatTaken  BY <1>3, <2>1 DEF HeartbeatTaken, NoCall
  <2>2. ASSUME NEW v \in Works, ClaimGranted(v)  PROVE TrackerOK'
    BY <2>2, ReturnTracker, GrantTracker DEF ClaimGranted
  <2>3. CASE ClaimEmpty \/ ReleaseRefused \/ CallFails
    BY <2>3, ReturnTracker DEF ClaimEmpty, ReleaseRefused, CallFails
  <2>4. CASE ReleaseTaken
    <3>1. CASE CallReturns  BY <3>1, ReturnTracker
    <3>2. CASE call' = [call EXCEPT !.kind = "ack"] /\ UNCHANGED <<at, tracker>>
      <4>1. call.kind = "release" /\ call \in RequestRecord
        BY <2>4 DEF ReleaseTaken, IInv, CallOK
      <4>2. call'.kind = "ack"  BY <3>2, <4>1 DEF RequestRecord
      <4> QED  BY <1>3, <3>2, <4>1, <4>2
    <3> QED  BY <2>4, <3>1, <3>2 DEF ReleaseTaken
  <2> QED  BY <1>7, <2>1, <2>2, <2>3, <2>4 DEF Answer
<1>8. ASSUME NEW v \in Works, Execution(v)  PROVE TrackerOK'
  <2>1. CASE NoteRelease(v)  BY <2>1, NoteTracker
  <2>2. CASE SendRelease(v)  BY <1>6, <2>2
  <2>3. CASE \/ CreateRecord(v) \/ CreateMachine(v) \/ RecordRunning(v) \/ Watch(v)
             \/ CleanRun(v) \/ Settle(v) \/ FailWork(v) \/ FailRefused(v)
    <3>1. at[v] \notin { "none", "done" } /\ tracker' = tracker /\ call' = call
      BY <2>3 DEF CreateRecord, CreateMachine, RecordRunning, Watch, CleanRun, Settle,
           FailWork, FailRefused, Running, Ended
    <3>2. PICK place \in Places \ { "none", "done" } : at' = [at EXCEPT ![v] = place]
      BY <2>3 DEF CreateRecord, CreateMachine, RecordRunning, Watch, CleanRun, Settle,
           FailWork, FailRefused, Goto, AfterError, Places
    <3>3. Reserved' = Reserved  BY <1>1, <3>1, <3>2, StillReserved
    <3> QED  BY <3>1, <3>3, TrackerKept
  <2> QED  BY <1>8, <2>1, <2>2, <2>3 DEF Execution
<1>9. CASE \/ \E v \in Works : LeaseExpires(v)
           \/ \E v \in Works, target \in { "open", "held", "finished" } : WorkMoves(v, target)
           \/ \E request \in late : LateRequest(request)
  BY <1>3, <1>9 DEF LeaseExpires, WorkMoves, LateRequest
<1>10. CASE UNCHANGED vars  BY <1>3, <1>10 DEF vars
<1> QED  BY <1>4, <1>5, <1>6, <1>7, <1>8, <1>9, <1>10 DEF Next

-----------------------------------------------------------------------------
(* Requests, the process, and the types.                                   *)

\* No request, no obligation.
LEMMA NoCallOK ==
  ASSUME call' = NoCall
  PROVE  CallOK'
  BY SlotsAssumption DEF CallOK, NoCall, RequestRecord, ReportIsCurrent

\* A request on its way outlives any step that keeps the main loop, the reservations and
\* the execution it was sent for.
LEMMA CallUntouched ==
  ASSUME IInv, \A w \in Works : Kept(w), call' = call, tracker' = tracker, Up => Up',
         \A w \in Works : at[w] = "release" => at'[w] = "release"
  PROVE  CallOK'
  BY DEF IInv, CallOK, Kept, ReportIsCurrent

\* The request under resourcesMu stays what it is, or is replaced by the next one.
LEMMA CallStep ==
  ASSUME IInv, [Next]_vars
  PROVE  CallOK'
<1> USE DEF hostVars, apiVars, execVars
<1>1. TypeExec /\ TypeProcess /\ CallOK /\ \A w \in Works : Kept(w)
  BY Types, RunsKept DEF IInv
<1>2. CASE Forget  BY <1>2, NoCallOK DEF Forget
<1>3. CASE UNCHANGED <<call, tracker, at>> /\ (Up => Up')  BY <1>1, <1>3, CallUntouched
<1>4. CASE Process \/ Stop \/ Crash
  BY <1>2, <1>3, <1>4 DEF Process, Start, Recovered, Register, RegisterAgain, Admit, Refuse,
       Exit, Stop, Crash, Up
<1>5. ASSUME NEW v \in Works, Recovery(v)  PROVE CallOK'
  BY <1>2, <1>3, <1>5 DEF Recovery, RecoverRun, ReconcileRun, Acknowledge, Up
<1>6. CASE SendHeartbeat
  <2>1. call' = [kind |-> "heartbeat", work |-> None, free |-> Slots - tracker, runs |-> tracker]
    BY <1>6 DEF SendHeartbeat, NoCall
  <2>2. tracker \in Nat /\ Slots - tracker \in 0..Slots
    BY <1>1, SlotsAssumption DEF TypeProcess
  <2>3. call' \in RequestRecord  BY <2>1, <2>2 DEF RequestRecord
  <2>4. Up' /\ tracker' = tracker  BY <1>6 DEF SendHeartbeat, Up
  <2> QED  BY <2>1, <2>3, <2>4 DEF CallOK, ReportIsCurrent
<1>7. CASE SendClaim
  <2>1. call' = [kind |-> "claim", work |-> None, free |-> 0, runs |-> 0]
    BY <1>7 DEF SendClaim, NoCall
  <2>2. call' \in RequestRecord  BY <2>1, SlotsAssumption DEF RequestRecord
  <2>3. Up'  BY <1>7 DEF SendClaim, Up
  <2> QED  BY <2>1, <2>2, <2>3 DEF CallOK, ReportIsCurrent
<1>8. ASSUME NEW v \in Works, SendRelease(v)  PROVE CallOK'
  <2>1. call' = [kind |-> "release", work |-> v, free |-> 0, runs |-> 0]
    BY <1>8 DEF SendRelease, NoCall
  <2>2. Up' /\ call' \in RequestRecord
    BY <1>8, <2>1, SlotsAssumption DEF SendRelease, Running, Up, RequestRecord
  <2>3. at'[v] = "release"  BY <1>8 DEF SendRelease
  <2> QED  BY <2>1, <2>2, <2>3 DEF CallOK, ReportIsCurrent
<1>9. CASE Answer
  <2>1. CASE call' = NoCall  BY <2>1, NoCallOK
  <2>2. CASE ReleaseTaken /\ call' = [call EXCEPT !.kind = "ack"] /\ UNCHANGED at
    <3>1. /\ call.kind = "release" /\ call.work \in Works /\ at[call.work] = "release"
          /\ call \in RequestRecord /\ Up
      BY <1>1, <2>2 DEF ReleaseTaken, CallOK
    <3>2. call'.kind = "ack" /\ call'.work = call.work /\ call' \in RequestRecord
      BY <2>2, <3>1 DEF RequestRecord
    <3>3. lease'[call.work] = "released"
      <4>1. TakeBack(call.work) /\ TypeApi  BY <2>2, Types DEF ReleaseTaken, IInv
      <4> QED  BY <3>1, <4>1 DEF TakeBack, TypeApi
    <3>4. Up'  BY <2>2, <3>1 DEF ReleaseTaken, Up
    <3> QED  BY <2>2, <3>1, <3>2, <3>3, <3>4 DEF CallOK, ReportIsCurrent
  <2>3. CASE ReleaseTaken  BY <2>1, <2>2, <2>3 DEF ReleaseTaken, CallReturns
  <2>4. CASE ~ReleaseTaken
    BY <1>9, <2>1, <2>4 DEF Answer, HeartbeatTaken, ClaimGranted, ClaimEmpty, ReleaseRefused,
       CallFails, CallReturns
  <2> QED  BY <2>3, <2>4
<1>10. ASSUME NEW v \in Works, Execution(v)  PROVE CallOK'
  <2>1. CASE NoteRelease(v)  BY <2>1, NoCallOK DEF NoteRelease
  <2>2. CASE SendRelease(v)  BY <1>8, <2>2
  <2>3. CASE \/ CreateRecord(v) \/ CreateMachine(v) \/ RecordRunning(v) \/ Watch(v)
             \/ CleanRun(v) \/ Settle(v) \/ FailWork(v) \/ FailRefused(v)
    <3>1. at[v] # "release" /\ UNCHANGED <<call, tracker, phase>>
      BY <2>3 DEF CreateRecord, CreateMachine, RecordRunning, Watch, CleanRun, Settle,
           FailWork, FailRefused
    <3>2. PICK place : at' = [at EXCEPT ![v] = place]
      BY <2>3 DEF CreateRecord, CreateMachine, RecordRunning, Watch, CleanRun, Settle,
           FailWork, FailRefused, Goto
    <3>3. \A w \in Works : at[w] = "release" => at'[w] = "release"
      BY <1>1, <3>1, <3>2 DEF TypeExec
    <3> QED  BY <1>1, <3>1, <3>3, CallUntouched DEF Up
  <2> QED  BY <1>10, <2>1, <2>2, <2>3 DEF Execution
<1>11. CASE \/ \E v \in Works : LeaseExpires(v)
            \/ \E v \in Works, target \in { "open", "held", "finished" } : WorkMoves(v, target)
            \/ \E request \in late : LateRequest(request)
  BY <1>3, <1>11 DEF LeaseExpires, WorkMoves, LateRequest, Up
<1>12. CASE UNCHANGED vars  BY <1>3, <1>12 DEF vars, Up
<1> QED
  BY <1>4, <1>5, <1>6, <1>7, <1>8, <1>9, <1>10, <1>11, <1>12 DEF Next

\* A request that is given up leaves nothing behind that could not be handled late: its
\* run, if it is a release, is gone for good.
LEMMA GivenUp ==
  ASSUME IInv, call.kind \in { "heartbeat", "claim", "release" }
  PROVE  RequestOK(call)
  BY DEF IInv, CallOK, RequestOK, RunOK, PlaceOK

\* Late requests stay harmless, and only harmless ones are added.
LEMMA LateKept ==
  ASSUME IInv, \A w \in Works : Kept(w), NEW r, RequestOK(r), late' \subseteq late \cup { r }
  PROVE  LateOK'
<1>1. SUFFICES ASSUME NEW q \in late'  PROVE RequestOK(q)'
  BY DEF LateOK
<1>2. RequestOK(q)  BY DEF IInv, LateOK
<1>3. q.kind = "release" => q.work \in Works /\ Gone(q.work)  BY <1>2 DEF RequestOK
<1>4. q.kind = "release" => Gone(q.work)'  BY <1>3 DEF Kept
<1> QED  BY <1>2, <1>4 DEF RequestOK

\* The same when no request is added.
LEMMA LateShrinks ==
  ASSUME IInv, \A w \in Works : Kept(w), late' \subseteq late
  PROVE  LateOK'
<1>1. SUFFICES ASSUME NEW q \in late'  PROVE RequestOK(q)'
  BY DEF LateOK
<1>2. RequestOK(q)  BY DEF IInv, LateOK
<1>3. q.kind = "release" => q.work \in Works /\ Gone(q.work)  BY <1>2 DEF RequestOK
<1>4. q.kind = "release" => Gone(q.work)'  BY <1>3 DEF Kept
<1> QED  BY <1>2, <1>4 DEF RequestOK

\* Requests are given up by a crash, a failed call and a failed transition.
LEMMA LateStep ==
  ASSUME IInv, [Next]_vars
  PROVE  LateOK'
<1>1. \A w \in Works : Kept(w)  BY RunsKept
<1>2. CASE late' \subseteq late  BY <1>1, <1>2, LateShrinks
<1>3. CASE Crash
  <2>1. CASE call.kind \in { "heartbeat", "claim", "release" }
    <3>1. late' \subseteq late \cup { call }  BY <1>3 DEF Crash
    <3> QED  BY <1>1, <2>1, <3>1, GivenUp, LateKept
  <2>2. CASE call.kind \notin { "heartbeat", "claim", "release" }
    <3>1. call.kind \in { "none", "ack" }  BY <2>2 DEF IInv, CallOK, RequestRecord
    <3> QED  BY <1>2, <1>3, <3>1 DEF Crash
  <2> QED  BY <2>1, <2>2
<1>4. CASE CallFails
  <2>1. call.kind \in { "heartbeat", "claim", "release" } /\ late' \subseteq late \cup { call }
    BY <1>4 DEF CallFails
  <2> QED  BY <1>1, <2>1, GivenUp, LateKept
<1>5. ASSUME NEW v \in Works, FailRefused(v)  PROVE LateOK'
  <2> DEFINE r == [NoCall EXCEPT !.kind = "fail", !.work = v, !.runs = read[v]]
  <2>1. read[v] \in Nat  BY Types DEF IInv, TypeExec
  <2>2. NoCall \in RequestRecord  BY SlotsAssumption DEF NoCall, RequestRecord
  <2>3. r \in RequestRecord /\ r.kind = "fail" /\ r.work = v
    BY <2>1, <2>2 DEF RequestRecord
  <2>4. late' \subseteq late \cup { r }  BY <1>5 DEF FailRefused
  <2> HIDE DEF r
  <2>5. RequestOK(r)  BY <2>3 DEF RequestOK
  <2> QED  BY <1>1, <2>4, <2>5, LateKept
<1>6. CASE Process \/ Stop
  BY <1>2, <1>6 DEF Process, Start, Recovered, Register, RegisterAgain, Admit, Refuse, Exit,
       Stop
<1>7. ASSUME NEW v \in Works, Recovery(v) \/ LeaseExpires(v)  PROVE LateOK'
  BY <1>2, <1>7 DEF Recovery, RecoverRun, ReconcileRun, Acknowledge, LeaseExpires
<1>8. CASE SendHeartbeat \/ SendClaim \/ (Answer /\ ~CallFails)
  BY <1>2, <1>8 DEF SendHeartbeat, SendClaim, Answer, HeartbeatTaken, ClaimGranted, ClaimEmpty,
       ReleaseTaken, ReleaseRefused
<1>9. ASSUME NEW v \in Works, Execution(v), ~FailRefused(v)  PROVE LateOK'
  BY <1>2, <1>9 DEF Execution, CreateRecord, CreateMachine, RecordRunning, Watch, CleanRun,
       Settle, FailWork, SendRelease, NoteRelease
<1>10. ASSUME NEW v \in Works, NEW target, WorkMoves(v, target)  PROVE LateOK'
  BY <1>2, <1>10 DEF WorkMoves
<1>11. ASSUME NEW request \in late, LateRequest(request)  PROVE LateOK'
  BY <1>2, <1>11 DEF LateRequest
<1>12. CASE UNCHANGED vars  BY <1>2, <1>12 DEF vars
<1> QED
  BY <1>3, <1>4, <1>5, <1>6, <1>7, <1>8, <1>9, <1>10, <1>11, <1>12 DEF Next

\* An acknowledged run stays cleaned up and released until the marker is written.
LEMMA ProcessStep ==
  ASSUME IInv, [Next]_vars
  PROVE  ProcessOK'
<1> USE DEF hostVars, apiVars, execVars
<1>1. /\ TypeApi /\ TypeProcess /\ \A w \in Works : Kept(w)
      /\ (~Up => tracker = 0) /\ (acked # None => phase = "reconciling")
  BY Types, RunsKept DEF IInv, ProcessOK
<1>2. CASE Forget  BY <1>2 DEF Forget, ProcessOK
<1>3. CASE UNCHANGED <<phase, acked, tracker, journal>>
  BY <1>1, <1>3 DEF IInv, ProcessOK, TypeProcess, Kept, Up
<1>4. CASE acked' = None /\ (~Up' => tracker' = tracker /\ ~Up)
  BY <1>1, <1>4 DEF ProcessOK
<1>5. CASE Process \/ Stop \/ Crash
  BY <1>1, <1>2, <1>4, <1>5 DEF Process, Start, Recovered, Register, RegisterAgain, Admit,
       Refuse, Exit, Stop, Crash, Up
<1>6. ASSUME NEW v \in Works, Recovery(v)  PROVE ProcessOK'
  <2>1. CASE RecoverRun(v)  BY <1>1, <1>2, <1>4, <2>1 DEF RecoverRun, Up
  <2>2. CASE Acknowledge(v)  BY <1>2, <1>4, <2>2 DEF Acknowledge, Up
  <2>3. CASE ReconcileRun(v)
    <3>1. CASE Reconcile(v) /\ acked' = v /\ UNCHANGED <<phase, tracker>>
      <4>1. /\ lease'[v] = "released" /\ journal'[v] = "cleaned"
            /\ phase' = "reconciling" /\ tracker' = 0
        BY <1>1, <2>3, <3>1 DEF ReconcileRun, Reconcile, TypeApi, Up
      <4> QED  BY <3>1, <4>1 DEF ProcessOK
    <3> QED  BY <1>2, <2>3, <3>1 DEF ReconcileRun
  <2> QED  BY <1>6, <2>1, <2>2, <2>3 DEF Recovery
<1>7. CASE Up /\ phase' = phase /\ acked' = acked
  <2>1. acked' = None /\ Up'  BY <1>1, <1>7 DEF Up
  <2> QED  BY <1>4, <2>1
<1>8. CASE SendHeartbeat \/ SendClaim
  BY <1>7, <1>8 DEF SendHeartbeat, SendClaim, Up
<1>9. CASE Answer
  <2>1. Up
    BY <1>9 DEF Answer, HeartbeatTaken, ClaimGranted, ClaimEmpty, ReleaseTaken, ReleaseRefused,
       CallFails, IInv, CallOK
  <2>2. phase' = phase /\ acked' = acked
    BY <1>9 DEF Answer, HeartbeatTaken, ClaimGranted, ClaimEmpty, ReleaseTaken, ReleaseRefused,
       CallFails
  <2> QED  BY <1>7, <2>1, <2>2
<1>10. ASSUME NEW v \in Works, Execution(v)  PROVE ProcessOK'
  <2>1. Up
    BY <1>10 DEF Execution, CreateRecord, CreateMachine, RecordRunning, Watch, CleanRun, Settle,
         FailWork, FailRefused, SendRelease, NoteRelease, Running, Up, IInv, CallOK
  <2>2. phase' = phase /\ acked' = acked
    BY <1>10 DEF Execution, CreateRecord, CreateMachine, RecordRunning, Watch, CleanRun, Settle,
         FailWork, FailRefused, SendRelease, NoteRelease
  <2> QED  BY <1>7, <2>1, <2>2
<1>11. CASE \/ \E v \in Works : LeaseExpires(v)
            \/ \E v \in Works, target \in { "open", "held", "finished" } : WorkMoves(v, target)
            \/ \E request \in late : LateRequest(request)
  BY <1>3, <1>11 DEF LeaseExpires, WorkMoves, LateRequest
<1>12. CASE UNCHANGED vars  BY <1>3, <1>12 DEF vars
<1> QED  BY <1>5, <1>6, <1>8, <1>9, <1>10, <1>11, <1>12 DEF Next

\* The types of the steps of the process and of recovery.
LEMMA RecoveryTypes ==
  ASSUME IInv, Process \/ Stop \/ Crash \/ \E v \in Works : Recovery(v)
  PROVE  TypeOK'
<1> USE DEF hostVars, apiVars, execVars
<1>1. TypeHost /\ TypeApi /\ TypeProcess /\ TypeExec /\ TypeFaults  BY Types DEF IInv
<1>2. UNCHANGED hostVars => TypeHost'  BY <1>1 DEF TypeHost
<1>3. UNCHANGED apiVars => TypeApi'  BY <1>1 DEF TypeApi
<1>4. /\ Forget => TypeProcess' /\ TypeExec'
      /\ UNCHANGED execVars => TypeExec'
  BY <1>1, ForgetTypes DEF TypeExec
<1>5. \A kind : Fault(kind) => TypeFaults'  BY <1>1, Counted
<1>6. UNCHANGED faults => TypeFaults'  BY <1>1, Counted
<1>7. CASE Start \/ Recovered \/ RegisterAgain \/ Admit \/ Stop
  <2>1. TypeProcess'
    BY <1>1, <1>7 DEF Start, Recovered, RegisterAgain, Admit, Stop, TypeProcess, ProcessPhases
  <2> QED
    BY <1>2, <1>3, <1>4, <1>6, <1>7, <2>1, Types DEF Start, Recovered, RegisterAgain, Admit, Stop
<1>8. CASE Refuse \/ Exit \/ Crash
  BY <1>2, <1>3, <1>4, <1>5, <1>6, <1>8, Types DEF Refuse, Exit, Crash
<1>9. CASE Register
  <2>1. row' \in [known : BOOLEAN, free : 0..Slots, runs : Nat]
    BY <1>1, <1>9, SlotsAssumption DEF Register, TypeApi
  <2>2. TypeApi'  BY <1>1, <1>9, <2>1 DEF Register, TypeApi
  <2>3. TypeProcess' /\ TypeExec' /\ TypeFaults'
    <3>1. CASE Forget  BY <1>4, <1>5, <1>6, <1>9, <3>1 DEF Register
    <3>2. CASE phase' = "reconciling" /\ UNCHANGED <<acked, tracker, execVars, faults>>
      BY <1>1, <1>4, <1>6, <3>2 DEF TypeProcess, ProcessPhases
    <3> QED  BY <1>9, <3>1, <3>2 DEF Register
  <2> QED  BY <1>2, <1>9, <2>2, <2>3, Types DEF Register
<1>10. ASSUME NEW v \in Works, RecoverRun(v)  PROVE TypeOK'
  <2>1. TypeHost'  BY <1>1, <1>10, CleanTypes DEF RecoverRun
  <2>2. TypeProcess' /\ TypeExec'  BY <1>1, <1>4, <1>10 DEF RecoverRun, TypeProcess
  <2>3. TypeFaults'  BY <1>1, <1>6, <1>10, CleanTypes DEF RecoverRun
  <2> QED  BY <1>3, <1>10, <2>1, <2>2, <2>3, Types DEF RecoverRun
<1>11. ASSUME NEW v \in Works, ReconcileRun(v)  PROVE TypeOK'
  <2>1. TypeApi'
    <3>1. work' = work /\ version' = version /\ (Reconcile(v) \/ UNCHANGED <<lease, row>>)
      BY <1>11 DEF ReconcileRun
    <3> QED  BY <1>1, <1>3, <3>1, ApiTypes
  <2>2. TypeProcess' /\ TypeExec' /\ TypeFaults'
    BY <1>1, <1>4, <1>5, <1>6, <1>11 DEF ReconcileRun, TypeProcess
  <2> QED  BY <1>2, <1>11, <2>1, <2>2, Types DEF ReconcileRun
<1>12. ASSUME NEW v \in Works, Acknowledge(v)  PROVE TypeOK'
  <2>1. TypeHost'  BY <1>1, <1>12, WriteKeeps, Markers DEF Acknowledge, TypeHost
  <2>2. TypeProcess' /\ TypeExec' /\ TypeFaults'
    BY <1>1, <1>4, <1>5, <1>6, <1>12, WriteKeeps, Markers DEF Acknowledge, TypeProcess
  <2> QED  BY <1>3, <1>12, <2>1, <2>2, Types DEF Acknowledge
<1> QED  BY <1>7, <1>8, <1>9, <1>10, <1>11, <1>12 DEF Process, Recovery

\* The types of what happens without the daemon.
LEMMA OutsideTypes ==
  ASSUME IInv,
         \/ \E v \in Works : LeaseExpires(v)
         \/ \E v \in Works, target \in { "open", "held", "finished" } : WorkMoves(v, target)
         \/ \E request \in late : LateRequest(request)
  PROVE  TypeOK'
<1>1. TypeHost /\ TypeApi /\ TypeProcess /\ TypeExec /\ TypeFaults  BY Types DEF IInv
<1>2. TypeHost' /\ TypeProcess' /\ TypeExec'
  BY <1>1 DEF LeaseExpires, WorkMoves, LateRequest, hostVars, execVars, TypeHost, TypeProcess,
       TypeExec
<1>3. TypeFaults'  BY <1>1, Counted DEF LeaseExpires, WorkMoves, LateRequest
<1>4. TypeApi'
  <2>1. CASE \E v \in Works : LeaseExpires(v)  BY <1>1, <2>1 DEF LeaseExpires, TypeApi
  <2>2. CASE \E v \in Works, target \in { "open", "held", "finished" } : WorkMoves(v, target)
    BY <1>1, <2>2 DEF WorkMoves, TypeApi
  <2>3. ASSUME NEW request \in late, LateRequest(request)  PROVE TypeApi'
    <3>1. RequestOK(request)  BY DEF IInv, LateOK
    <3>2. request.free \in 0..Slots /\ request.runs \in Nat
      BY <3>1 DEF RequestOK, RequestRecord
    <3>3. CASE request.kind = "heartbeat"
      BY <1>1, <2>3, <3>2, <3>3, ApiTypes DEF LateRequest, TypeApi, TakeReport
    <3>4. CASE request.kind = "claim"  BY <1>1, <2>3, <3>4, GrantTypes DEF LateRequest
    <3>5. CASE request.kind = "release"
      <4>1. TakeBack(request.work)  BY <2>3, <3>5 DEF LateRequest
      <4> QED  BY <1>1, <3>1, <3>5, <4>1, ApiTypes DEF RequestOK
    <3>6. CASE request.kind = "fail"
      <4>1. TakeFailure(request.work, request.runs)  BY <2>3, <3>6 DEF LateRequest
      <4> QED  BY <1>1, <3>1, <3>6, <4>1, ApiTypes DEF RequestOK
    <3> QED  BY <3>1, <3>3, <3>4, <3>5, <3>6 DEF RequestOK
  <2> QED  BY <2>1, <2>2, <2>3
<1> QED  BY <1>2, <1>3, <1>4, Types

\* The types of requests and their answers.
LEMMA CallTypes ==
  ASSUME IInv, SendHeartbeat \/ SendClaim \/ Answer
  PROVE  TypeOK'
<1> USE DEF hostVars, apiVars, execVars
<1>1. TypeHost /\ TypeApi /\ TypeProcess /\ TypeExec /\ TypeFaults /\ CallOK
  BY Types DEF IInv
<1>2. TypeHost'
  BY <1>1 DEF SendHeartbeat, SendClaim, Answer, HeartbeatTaken, ClaimGranted, ClaimEmpty,
       ReleaseTaken, ReleaseRefused, CallFails, TypeHost
<1>3. TypeFaults'
  BY <1>1, Counted DEF SendHeartbeat, SendClaim, Answer, HeartbeatTaken, ClaimGranted,
       ClaimEmpty, ReleaseTaken, ReleaseRefused, CallFails
<1>4. TypeApi'
  <2>1. CASE HeartbeatTaken
    <3>1. call.free \in 0..Slots /\ call.runs \in Nat  BY <1>1 DEF CallOK, RequestRecord
    <3>2. TakeReport(call.free, call.runs)  BY <2>1 DEF HeartbeatTaken
    <3> QED  BY <1>1, <3>1, <3>2 DEF TakeReport, TypeApi
  <2>2. CASE \E v \in Works : ClaimGranted(v)  BY <1>1, <2>2, GrantTypes DEF ClaimGranted
  <2>3. CASE ReleaseTaken
    <3>1. call.work \in Works /\ TakeBack(call.work)
      BY <1>1, <2>3 DEF CallOK, ReleaseTaken
    <3> QED  BY <1>1, <3>1, ApiTypes
  <2>4. CASE SendHeartbeat \/ SendClaim \/ ClaimEmpty \/ ReleaseRefused \/ CallFails
    BY <1>1, <2>4 DEF SendHeartbeat, SendClaim, ClaimEmpty, ReleaseRefused, CallFails, TypeApi
  <2> QED  BY <2>1, <2>2, <2>3, <2>4 DEF Answer
<1>5. CASE CallReturns /\ UNCHANGED <<phase, acked, bound, settling, retried, read>>
  <2>1. tracker' \in 0..Slots  BY <1>5, ReturnTracker
  <2>2. at' \in [Works -> Places]
    <3>1. AfterError(call.work) \in Places  BY DEF AfterError, Places
    <3> QED  BY <1>1, <1>5, <3>1 DEF CallReturns, TypeExec
  <2> QED  BY <1>1, <1>2, <1>3, <1>4, <1>5, <2>1, <2>2, Types DEF TypeProcess, TypeExec
<1>6. CASE UNCHANGED <<phase, acked, tracker, bound, settling, retried, read>>
           /\ at' \in [Works -> Places]
  BY <1>1, <1>2, <1>3, <1>4, <1>6, Types DEF TypeProcess, TypeExec
<1>7. CASE SendHeartbeat \/ HeartbeatTaken
  BY <1>1, <1>6, <1>7 DEF SendHeartbeat, HeartbeatTaken, TypeExec
<1>8. CASE SendClaim
  <2>1. tracker' \in 0..Slots  BY <1>1, <1>8, SlotsAssumption DEF SendClaim, TypeProcess
  <2> QED
    BY <1>1, <1>2, <1>3, <1>4, <1>8, <2>1, Types DEF SendClaim, TypeProcess, TypeExec
<1>9. CASE ClaimEmpty \/ ReleaseRefused \/ CallFails
  BY <1>5, <1>9 DEF ClaimEmpty, ReleaseRefused, CallFails
<1>10. ASSUME NEW v \in Works, ClaimGranted(v)  PROVE TypeOK'
  <2>1. CASE CallReturns  BY <1>5, <1>10, <2>1 DEF ClaimGranted
  <2>2. CASE at' = [at EXCEPT ![v] = "start"] /\ tracker' = tracker
    <3>1. at' \in [Works -> Places]  BY <1>1, <2>2 DEF TypeExec, Places
    <3> QED  BY <1>6, <1>10, <2>2, <3>1 DEF ClaimGranted
  <2> QED  BY <1>10, <2>1, <2>2 DEF ClaimGranted
<1>11. CASE ReleaseTaken
  <2>1. CASE CallReturns  BY <1>5, <1>11, <2>1 DEF ReleaseTaken
  <2>2. CASE at' = at /\ tracker' = tracker
    BY <1>1, <1>6, <1>11, <2>2 DEF ReleaseTaken, TypeExec
  <2> QED  BY <1>11, <2>1, <2>2 DEF ReleaseTaken
<1> QED  BY <1>7, <1>8, <1>9, <1>10, <1>11 DEF Answer

\* The types of one execution.
LEMMA ExecutionTypes ==
  ASSUME IInv, NEW v \in Works, Execution(v)
  PROVE  TypeOK'
<1> USE DEF hostVars, apiVars, execVars
<1>1. TypeHost /\ TypeApi /\ TypeProcess /\ TypeExec /\ TypeFaults /\ CallOK
  BY Types DEF IInv
<1>2. \A kind : Disturbed(kind, v) \/ Fault(kind) => TypeFaults'  BY <1>1, Counted
<1>3. UNCHANGED faults => TypeFaults'  BY <1>1, Counted
<1>4. at' \in [Works -> Places]
  <2>1. at' = at \/ \E place \in Places : at' = [at EXCEPT ![v] = place]
    BY DEF Execution, CreateRecord, CreateMachine, RecordRunning, Watch, CleanRun, Settle,
         FailWork, FailRefused, SendRelease, NoteRelease, Goto, AfterError, Places
  <2> QED  BY <1>1, <2>1 DEF TypeExec
<1>5. CASE CreateRecord(v)
  <2>1. TypeHost'  BY <1>1, <1>5, WriteKeeps, Markers DEF CreateRecord, TypeHost
  <2>2. TypeExec'  BY <1>1, <1>4, <1>5 DEF CreateRecord, TypeExec
  <2>3. TypeFaults'  BY <1>1, <1>2, <1>3, <1>5, WriteKeeps, Markers DEF CreateRecord
  <2> QED  BY <1>1, <1>5, <2>1, <2>2, <2>3, Types DEF CreateRecord, TypeApi, TypeProcess
<1>6. CASE CreateMachine(v)
  <2>1. TypeHost'  BY <1>1, <1>6 DEF CreateMachine, TypeHost
  <2>2. TypeExec'  BY <1>1, <1>4, <1>6 DEF CreateMachine, TypeExec
  <2>3. TypeFaults'  BY <1>2, <1>3, <1>6 DEF CreateMachine
  <2> QED  BY <1>1, <1>6, <2>1, <2>2, <2>3, Types DEF CreateMachine, TypeApi, TypeProcess
<1>7. CASE RecordRunning(v)
  <2>1. TypeHost'  BY <1>1, <1>7, WriteKeeps, Markers DEF RecordRunning, TypeHost
  <2>2. TypeExec'  BY <1>1, <1>4, <1>7 DEF RecordRunning, TypeExec
  <2>3. TypeFaults'  BY <1>1, <1>2, <1>3, <1>7, WriteKeeps, Markers DEF RecordRunning
  <2> QED  BY <1>1, <1>7, <2>1, <2>2, <2>3, Types DEF RecordRunning, TypeApi, TypeProcess
<1>8. CASE Watch(v)
  <2>1. TypeExec'  BY <1>1, <1>4, <1>8 DEF Watch, TypeExec
  <2>2. TypeFaults'  BY <1>2, <1>3, <1>8 DEF Watch
  <2> QED  BY <1>1, <1>8, <2>1, <2>2, Types DEF Watch, TypeHost, TypeApi, TypeProcess
<1>9. CASE CleanRun(v)
  <2>1. TypeHost'  BY <1>1, <1>9, CleanTypes DEF CleanRun, TypeHost
  <2>2. TypeExec'  BY <1>1, <1>4, <1>9 DEF CleanRun, TypeExec
  <2>3. TypeFaults'  BY <1>1, <1>3, <1>9, CleanTypes DEF CleanRun
  <2> QED  BY <1>1, <1>9, <2>1, <2>2, <2>3, Types DEF CleanRun, TypeApi, TypeProcess
<1>10. CASE Settle(v)
  <2>1. TypeExec'  BY <1>1, <1>4, <1>10 DEF Settle, TypeExec, TypeApi
  <2>2. TypeFaults'  BY <1>2, <1>3, <1>10 DEF Settle
  <2> QED  BY <1>1, <1>10, <2>1, <2>2, Types DEF Settle, TypeHost, TypeApi, TypeProcess
<1>11. CASE FailWork(v)
  <2>1. TypeApi'  BY <1>1, <1>11, ApiTypes DEF FailWork
  <2>2. TypeExec'  BY <1>1, <1>4, <1>11 DEF FailWork, TypeExec
  <2>3. TypeFaults'  BY <1>2, <1>3, <1>11 DEF FailWork
  <2> QED  BY <1>1, <1>11, <2>1, <2>2, <2>3, Types DEF FailWork, TypeHost, TypeProcess
<1>12. CASE FailRefused(v)
  <2>1. TypeExec'  BY <1>1, <1>4, <1>12 DEF FailRefused, TypeExec
  <2>2. TypeFaults'  BY <1>2, <1>3, <1>12 DEF FailRefused
  <2> QED  BY <1>1, <1>12, <2>1, <2>2, Types DEF FailRefused, TypeHost, TypeApi, TypeProcess
<1>13. CASE SendRelease(v)
  BY <1>1, <1>3, <1>13, Types DEF SendRelease, TypeHost, TypeApi, TypeProcess, TypeExec
<1>14. CASE NoteRelease(v)
  <2>1. TypeHost'  BY <1>1, <1>14, WriteKeeps, Markers DEF NoteRelease, TypeHost
  <2>2. TypeExec'  BY <1>1, <1>4, <1>14 DEF NoteRelease, TypeExec
  <2>3. TypeFaults'  BY <1>1, <1>2, <1>3, <1>14, WriteKeeps, Markers DEF NoteRelease
  <2>4. TypeProcess'  BY <1>1, <1>14, NoteTracker DEF NoteRelease, TypeProcess
  <2> QED  BY <1>1, <1>14, <2>1, <2>2, <2>3, <2>4, Types DEF NoteRelease, TypeApi
<1> QED
  BY <1>5, <1>6, <1>7, <1>8, <1>9, <1>10, <1>11, <1>12, <1>13, <1>14 DEF Execution

\* Every step keeps the types.
LEMMA TypeStep ==
  ASSUME IInv, [Next]_vars
  PROVE  TypeOK'
<1>1. CASE UNCHANGED vars  BY <1>1 DEF IInv, TypeOK, vars, hostVars, apiVars, execVars
<1> QED
  BY <1>1, RecoveryTypes, OutsideTypes, CallTypes, ExecutionTypes DEF Next

-----------------------------------------------------------------------------
(* What holds in every execution.                                          *)

\* A host that was never used, and a worker that was never started.
LEMMA InitHolds ==
  ASSUME Init
  PROVE  IInv
<1>1. TypeOK
  BY SlotsAssumption, BoundsAssumption
     DEF Init, TypeOK, JournalPhases, ProcessPhases, Places
<1>2. \A w \in Works : RunOK(w)  BY DEF Init, RunOK, LeaseOK, HostOK, PlaceOK, Up
<1>3. TrackerOK
  <2>1. Reserved = {} /\ tracker = 0 /\ call.kind = "none"  BY DEF Init, Reserved, NoCall
  <2> QED  BY <2>1, FS_EmptySet DEF TrackerOK, TrackerExact, Reserved
<1>4. CallOK  BY SlotsAssumption DEF Init, CallOK, NoCall, RequestRecord, ReportIsCurrent
<1>5. LateOK /\ ProcessOK  BY DEF Init, LateOK, ProcessOK
<1> QED  BY <1>1, <1>2, <1>3, <1>4, <1>5 DEF IInv

\* Each step keeps every part of the invariant.
LEMMA StepHolds ==
  ASSUME IInv, [Next]_vars
  PROVE  IInv'
<1>1. \A w \in Works : RunOK(w)'  BY RunsKept DEF Kept
<1> QED  BY <1>1, TypeStep, TrackerStep, CallStep, LateStep, ProcessStep DEF IInv

\* For any works, slots and failures, the records, the accounting, the requests and the
\* process fit together at every moment.
THEOREM Invariance ==
  Spec => []IInv
<1> QED  BY InitHolds, StepHolds, PTL DEF Spec

\* No step takes a variable out of its domain: the API's row never shows more room than the
\* host has, and the daemon never reserves more (worker_heartbeat, Daemon.claim).
THEOREM TypeCorrect ==
  Spec => []TypeOK
<1>1. IInv => TypeOK  BY DEF IInv
<1> QED  BY <1>1, Invariance, PTL

\* Nothing is on the host that no record covers, whenever a crash comes (store.Create
\* before the first command, the cleaned marker after the last one).
THEOREM AlwaysRecorded ==
  Spec => []RecordedBeforeBoot
<1>1. IInv => RecordedBeforeBoot
  BY DEF IInv, RunOK, HostOK, RecordedBeforeBoot, TypeOK
<1> QED  BY <1>1, Invariance, PTL

\* The slots reserved locally are those of the executions that have not noted their
\* release, and of the claim under way (Daemon.claim, Release).
THEOREM ExactTracker ==
  Spec => []TrackerExact
<1>1. IInv => TrackerExact  BY DEF IInv, TrackerOK
<1> QED  BY <1>1, Invariance, PTL

\* No heartbeat under way is outdated by a claim or a release (resourcesMu).
THEOREM CurrentReport ==
  Spec => []ReportIsCurrent
<1>1. IInv => ReportIsCurrent  BY DEF IInv, CallOK
<1> QED  BY <1>1, Invariance, PTL

\* A new process takes work only on a host where nothing is left, and with every recorded
\* run released at the API (prepareVMRecovery, reconcileVMLeases).
THEOREM CleanAdmission ==
  Spec => AdmittedClean
<1> DEFINE Clean ==
      phase' = "serving" /\ phase # "serving" =>
        /\ domain' = {} /\ disks' = {}
        /\ \A w \in Works :
             journal'[w] = "none" \/ (journal'[w] = "released" /\ lease'[w] = "released")
<1>1. ASSUME IInv, [Next]_vars  PROVE [Clean]_vars
  <2>1. SUFFICES ASSUME phase' = "serving", phase # "serving"
                 PROVE  /\ domain' = {} /\ disks' = {}
                        /\ \A w \in Works : \/ journal'[w] = "none"
                                            \/ journal'[w] = "released" /\ lease'[w] = "released"
    OBVIOUS
  <2>2. Admit
    <3>1. phase' # phase  BY <2>1
    <3>2. CASE Process \/ Stop \/ Crash
      BY <2>1, <3>2 DEF Process, Start, Recovered, Register, RegisterAgain, Refuse, Exit, Stop,
           Crash, Forget
    <3>3. ASSUME NEW v \in Works, Recovery(v)  PROVE FALSE
      BY <2>1, <3>3 DEF Recovery, RecoverRun, ReconcileRun, Acknowledge, Forget
    <3>4. CASE SendHeartbeat \/ SendClaim \/ Answer
      BY <3>1, <3>4 DEF SendHeartbeat, SendClaim, Answer, HeartbeatTaken, ClaimGranted,
           ClaimEmpty, ReleaseTaken, ReleaseRefused, CallFails
    <3>5. ASSUME NEW v \in Works, Execution(v)  PROVE FALSE
      BY <3>1, <3>5 DEF Execution, CreateRecord, CreateMachine, RecordRunning, Watch, CleanRun,
           Settle, FailWork, FailRefused, SendRelease, NoteRelease
    <3>6. CASE \/ \E v \in Works : LeaseExpires(v)
               \/ \E v \in Works, target \in { "open", "held", "finished" } : WorkMoves(v, target)
               \/ \E request \in late : LateRequest(request)
      BY <3>1, <3>6 DEF LeaseExpires, WorkMoves, LateRequest
    <3>7. CASE UNCHANGED vars  BY <3>1, <3>7 DEF vars
    <3> QED  BY <1>1, <3>2, <3>3, <3>4, <3>5, <3>6, <3>7 DEF Next
  <2>3. \A w \in Works : journal[w] \in { "none", "released" }
    BY <2>2 DEF Admit, Outstanding
  <2>4. domain \subseteq Works /\ disks \subseteq Works  BY <1>1 DEF IInv, TypeOK
  <2>5. \A w \in Works : w \notin domain \cup disks
    BY <1>1, <2>3 DEF IInv, RunOK, HostOK
  <2>6. \A w \in Works : journal[w] = "released" => lease[w] = "released"
    BY <1>1 DEF IInv, RunOK, LeaseOK
  <2> QED  BY <2>2, <2>3, <2>4, <2>5, <2>6 DEF Admit, hostVars, apiVars
<1> QED  BY <1>1, Invariance, PTL DEF Spec, AdmittedClean

-----------------------------------------------------------------------------
(* The host implements Occupancy.                                          *)

Returned == { w \in Works : lease[w] = "released" }

\* A step that Occupancy allows.
RoomStep == [Room!Next]_(Room!vars)

\* Nothing that Occupancy sees has changed.
LEMMA RoomStutters ==
  ASSUME domain' = domain, Returned' = Returned
  PROVE  RoomStep
  BY DEF RoomStep, Returned, Room!vars

\* A lease that changes without being released or taken back shows nothing.
LEMMA LeaseUnseen ==
  ASSUME TypeApi, NEW v \in Works, NEW state, state # "released", lease[v] # "released",
         domain' = domain, lease' = [lease EXCEPT ![v] = state]
  PROVE  RoomStep
<1>1. Returned' = Returned  BY DEF TypeApi, Returned
<1> QED  BY <1>1, RoomStutters

\* Room is given back for a run whose machine is gone.
LEMMA RoomGivenBack ==
  ASSUME TypeApi, NEW v \in Works, Gone(v), domain' = domain,
         lease' = [lease EXCEPT ![v] = "released"]
  PROVE  RoomStep
<1>1. CASE lease[v] = "released"
  <2>1. Returned' = Returned  BY <1>1 DEF TypeApi, Returned
  <2> QED  BY <2>1, RoomStutters
<1>2. CASE lease[v] # "released"
  <2>1. Returned' = Returned \cup { v } /\ v \notin Returned
    BY <1>2 DEF TypeApi, Returned
  <2>2. Room!GiveBack(v)  BY <2>1 DEF Gone, Room!GiveBack, Returned
  <2> QED  BY <2>2 DEF RoomStep, Room!Next
<1> QED  BY <1>1, <1>2

\* A machine that is removed vanishes.
LEMMA RoomVanishes ==
  ASSUME IInv, NEW v \in Works, domain' \in { domain, domain \ { v } }, lease' = lease
  PROVE  RoomStep
<1>1. Returned' = Returned  BY DEF Returned
<1>2. CASE domain' = domain  BY <1>1, <1>2, RoomStutters
<1>3. CASE v \in domain /\ domain' = domain \ { v }
  <2>1. Room!Vanish(v)  BY <1>1, <1>3 DEF Room!Vanish, Returned
  <2> QED  BY <2>1 DEF RoomStep, Room!Next
<1>4. CASE v \notin domain /\ domain' = domain \ { v }
  <2>1. domain' = domain  BY <1>4
  <2> QED  BY <1>1, <2>1, RoomStutters
<1> QED  BY <1>2, <1>3, <1>4

\* Occupancy counts machines as this module counts executions.
LEMMA SameCount ==
  \A S : Room!Cardinality(S) = Cardinality(S)
  BY DEF Room!Cardinality, Cardinality

\* A machine is booted in a slot that is free: every machine belongs to an execution that
\* holds a slot, and so does the execution that boots.
LEMMA RoomBooted ==
  ASSUME IInv, NEW v \in Works, CreateMachine(v)
  PROVE  RoomStep
<1>1. Returned' = Returned  BY DEF CreateMachine, apiVars, Returned
<1>2. CASE domain' = domain  BY <1>1, <1>2, RoomStutters
<1>3. CASE domain' = domain \cup { v }
  <2>1. TypeHost /\ TypeProcess /\ RunOK(v)  BY Types DEF IInv
  <2>2. Up /\ at[v] = "boot"  BY DEF CreateMachine, Running, Up
  <2>3. v \notin domain /\ lease[v] # "released" /\ v \in Reserved
    BY <2>1, <2>2 DEF RunOK, PlaceOK, LeaseOK, Gone, Reserved
  <2>4. domain \subseteq Reserved \ { v }
    BY <2>1, <2>2, <2>3 DEF IInv, RunOK, PlaceOK, TypeHost, Reserved
  <2>5. IsFiniteSet(Reserved)  BY DEF IInv, TrackerOK
  <2>6. /\ IsFiniteSet(Reserved \ { v })
        /\ Cardinality(Reserved \ { v }) = Cardinality(Reserved) - 1
    BY <2>3, <2>5, FS_RemoveElement
  <2>7. IsFiniteSet(domain) /\ Cardinality(domain) <= Cardinality(Reserved \ { v })
    BY <2>4, <2>6, FS_Subset
  <2>8. /\ Cardinality(Reserved) <= tracker /\ tracker <= Slots
        /\ Cardinality(Reserved) \in Nat /\ tracker \in Nat
    BY <2>1, Counting, SlotsAssumption DEF TypeProcess
  <2>9. Cardinality(domain) \in Nat  BY <2>7, FS_CardinalityType
  <2>10. Cardinality(domain) < Slots  BY <2>6, <2>7, <2>8, <2>9, SlotsAssumption
  <2>11. Room!Boot(v)  BY <1>1, <1>3, <2>3, <2>10, SameCount DEF Room!Boot, Returned
  <2> QED  BY <2>11 DEF RoomStep, Room!Next
<1> QED  BY <1>2, <1>3 DEF CreateMachine

\* The API's transactions give back the room of runs that are gone, and take none back.
LEMMA RoomAtApi ==
  ASSUME IInv, domain' = domain, NEW v \in Works
  PROVE  /\ Grant(v) => RoomStep
         /\ TakeBack(v) /\ Gone(v) => RoomStep
         /\ lease' = lease => RoomStep
<1>1. TypeApi  BY Types DEF IInv
<1>2. lease' = lease => RoomStep  BY RoomStutters DEF Returned
<1>3. TakeBack(v) /\ Gone(v) => RoomStep  BY <1>1, RoomGivenBack DEF TakeBack
<1>4. ASSUME Grant(v)  PROVE RoomStep
  <2>1. lease[v] = "none"  BY <1>4 DEF Grant, IInv, RunOK, LeaseOK
  <2>2. lease' = [lease EXCEPT ![v] = "active"]  BY <1>4 DEF Grant
  <2> QED  BY <1>1, <2>1, <2>2, LeaseUnseen
<1> QED  BY <1>2, <1>3, <1>4

\* Every step of the worker and its API is one of Occupancy, or one it does not see.
LEMMA RoomSteps ==
  ASSUME IInv, [Next]_vars
  PROVE  RoomStep
<1> USE DEF hostVars, apiVars, execVars
<1>1. TypeApi /\ CallOK  BY Types DEF IInv
<1>2. CASE domain' = domain /\ lease' = lease  BY <1>2, RoomStutters DEF Returned
<1>3. CASE Process \/ Stop \/ Crash
  BY <1>2, <1>3 DEF Process, Start, Recovered, Register, RegisterAgain, Admit, Refuse, Exit,
       Stop, Crash
<1>4. ASSUME NEW v \in Works, Recovery(v)  PROVE RoomStep
  <2>1. CASE RecoverRun(v)
    <3>1. domain' \in { domain, domain \ { v } } /\ lease' = lease
      BY <2>1 DEF RecoverRun, CleanUp, CleanUpFails
    <3> QED  BY <3>1, RoomVanishes
  <2>2. CASE ReconcileRun(v)
    <3>1. domain' = domain  BY <2>2 DEF ReconcileRun
    <3>2. CASE Reconcile(v)
      <4>1. Gone(v)
        BY <2>2, <3>2 DEF ReconcileRun, Reconcile, IInv, RunOK, LeaseOK, HostOK, PlaceOK, Gone,
             Up
      <4> QED  BY <1>1, <3>1, <3>2, <4>1, RoomGivenBack DEF Reconcile
    <3>3. CASE lease' = lease  BY <1>2, <3>1, <3>3
    <3> QED  BY <2>2, <3>2, <3>3 DEF ReconcileRun
  <2>3. CASE Acknowledge(v)  BY <1>2, <2>3 DEF Acknowledge
  <2> QED  BY <1>4, <2>1, <2>2, <2>3 DEF Recovery
<1>5. CASE SendHeartbeat \/ SendClaim  BY <1>2, <1>5 DEF SendHeartbeat, SendClaim
<1>6. CASE Answer
  <2>1. domain' = domain
    BY <1>6 DEF Answer, HeartbeatTaken, ClaimGranted, ClaimEmpty, ReleaseTaken, ReleaseRefused,
         CallFails
  <2>2. CASE HeartbeatTaken \/ ClaimEmpty \/ ReleaseRefused \/ CallFails
    BY <1>2, <2>1, <2>2 DEF HeartbeatTaken, TakeReport, ClaimEmpty, ReleaseRefused, CallFails
  <2>3. ASSUME NEW v \in Works, ClaimGranted(v)  PROVE RoomStep
    BY <2>1, <2>3, RoomAtApi DEF ClaimGranted
  <2>4. CASE ReleaseTaken
    <3>1. call.work \in Works /\ at[call.work] = "release" /\ TakeBack(call.work)
      BY <1>1, <2>4 DEF ReleaseTaken, CallOK
    <3>2. Gone(call.work)  BY <3>1 DEF IInv, RunOK, PlaceOK
    <3> QED  BY <2>1, <3>1, <3>2, RoomAtApi
  <2> QED  BY <1>6, <2>2, <2>3, <2>4 DEF Answer
<1>7. ASSUME NEW v \in Works, Execution(v)  PROVE RoomStep
  <2>1. CASE CreateMachine(v)  BY <2>1, RoomBooted
  <2>2. CASE CleanRun(v)
    <3>1. domain' \in { domain, domain \ { v } } /\ lease' = lease
      BY <2>2 DEF CleanRun, CleanUp, CleanUpFails
    <3> QED  BY <3>1, RoomVanishes
  <2>3. CASE \/ CreateRecord(v) \/ RecordRunning(v) \/ Watch(v) \/ Settle(v) \/ FailWork(v)
             \/ FailRefused(v) \/ SendRelease(v) \/ NoteRelease(v)
    BY <1>2, <2>3 DEF CreateRecord, RecordRunning, Watch, Settle, FailWork, TakeFailure,
         FailRefused, SendRelease, NoteRelease
  <2> QED  BY <1>7, <2>1, <2>2, <2>3 DEF Execution
<1>8. ASSUME NEW v \in Works, LeaseExpires(v)  PROVE RoomStep
  <2>1. /\ lease[v] = "active" /\ domain' = domain
        /\ lease' = [lease EXCEPT ![v] = "expired"]
    BY <1>8 DEF LeaseExpires
  <2> QED  BY <1>1, <2>1, LeaseUnseen
<1>9. ASSUME NEW v \in Works, NEW target, WorkMoves(v, target)  PROVE RoomStep
  BY <1>2, <1>9 DEF WorkMoves
<1>10. ASSUME NEW request \in late, LateRequest(request)  PROVE RoomStep
  <2>1. RequestOK(request) /\ domain' = domain
    BY <1>10 DEF IInv, LateOK, LateRequest
  <2>2. CASE request.kind = "heartbeat"
    BY <1>2, <1>10, <2>1, <2>2 DEF LateRequest, TakeReport
  <2>3. CASE request.kind = "claim"  BY <1>10, <2>1, <2>3, RoomAtApi DEF LateRequest
  <2>4. CASE request.kind = "release"
    <3>1. TakeBack(request.work)  BY <1>10, <2>4 DEF LateRequest
    <3> QED  BY <2>1, <2>4, <3>1, RoomAtApi DEF RequestOK
  <2>5. CASE request.kind = "fail"
    BY <1>2, <1>10, <2>1, <2>5 DEF LateRequest, TakeFailure
  <2> QED  BY <2>1, <2>2, <2>3, <2>4, <2>5 DEF RequestOK
<1>11. CASE UNCHANGED vars  BY <1>2, <1>11 DEF vars
<1> QED  BY <1>3, <1>4, <1>5, <1>6, <1>7, <1>8, <1>9, <1>10, <1>11 DEF Next

\* Whatever crashes, is lost or comes late: the host never has more machines than slots,
\* boots a run at most until its room is returned, and returns room only after the machine
\* is gone.
THEOREM Implements ==
  Spec => KeepsRoom
<1>1. Init => Room!Init  BY DEF Init, Room!Init
<1>2. IInv /\ [Next]_vars => [Room!Next]_(Room!vars)  BY RoomSteps DEF RoomStep
<1> QED  BY <1>1, <1>2, Invariance, PTL DEF Spec, KeepsRoom, Room!Spec
=============================================================================
