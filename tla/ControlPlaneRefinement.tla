----------------------- MODULE ControlPlaneRefinement -----------------------
(***************************************************************************)
(* What no step of the control plane may do, from the inductive invariant  *)
(* of ControlPlaneProofs: touch what a quarantined worker holds, or break  *)
(* the promise that module Reservation states.                             *)
(***************************************************************************)
EXTENDS ControlPlaneProofs

-----------------------------------------------------------------------------
(* Quarantine is final.                                                    *)

\* What a step leaves alone: the record of worker k, and the lease and the status of
\* every work that was assigned to it.
Untouched(k) ==
  /\ host'[k] = host[k]
  /\ \A w \in Works : assigned[w] = k => lease'[w] = lease[w] /\ status'[w] = status[w]

\* Every step leaves a quarantined worker alone: its works are finished and their leases
\* inactive, so no guard that touches them holds.
LEMMA FencedUntouched ==
  ASSUME Inv, [Next]_vars, NEW k \in Workers, host[k].quarantined
  PROVE  Untouched(k)
<1>1. \A w \in Works : assigned[w] = k =>
        status[w] \in TerminalWork /\ lease[w].state # "active" /\ lease[w].worker = k
  BY DEF Inv, QuarantineFences, LeaseMatchesAssignment
<1>2. host[k].state = "offline" /\ Registered(k)
  BY DEF Inv, QuarantineFences, Registered
<1>3. ASSUME NEW w \in Works, PeopleStep(w)  PROVE Untouched(k)
  <2>1. host' = host /\ lease' = lease
    BY <1>3 DEF PeopleStep, Submit, Cancel, Feedback, ExtendBudget, Approve, Reject
  <2>2. status'[w] = status[w] \/ status[w] \notin TerminalWork
    BY <1>3 DEF PeopleStep, Submit, Cancel, Feedback, ExtendBudget, Approve, Reject,
       ResumedByFeedback, TerminalWork
  <2>3. \A v \in Works \ { w } : status'[v] = status[v]
    BY <1>3 DEF PeopleStep, Submit, Cancel, Feedback, ExtendBudget, Approve, Reject,
       Transition, Inv, TypeOK
  <2> QED  BY <1>1, <2>1, <2>2, <2>3 DEF Untouched
<1>4. ASSUME NEW w \in Works, DeliveryStep(w)  PROVE Untouched(k)
  <2>1. host' = host /\ lease' = lease
    BY <1>4 DEF DeliveryStep, StartDelivery, RearmDelivery, FinishDelivery, FailDelivery
  <2>2. status[w] = "committing"
    BY <1>4 DEF DeliveryStep, StartDelivery, RearmDelivery, FinishDelivery, FailDelivery,
       Deliverable
  <2>3. \A v \in Works \ { w } : status'[v] = status[v]
    BY <1>4 DEF DeliveryStep, StartDelivery, RearmDelivery, FinishDelivery, FailDelivery,
       Transition, workVars, Inv, TypeOK
  <2> QED  BY <1>1, <2>1, <2>2, <2>3 DEF Untouched, TerminalWork
<1>5. ASSUME NEW w \in Works, LeaseStep(w)  PROVE Untouched(k)
  <2>1. status' = status
    BY <1>5 DEF LeaseStep, LeaseExpires, Release, Reconcile, workVars
  <2>2. assigned[w] # k /\ lease[w].worker # k
    BY <1>1, <1>5 DEF LeaseStep, LeaseExpires, Release, Reconcile, LeaseValid, Inv,
       LeaseMatchesAssignment
  <2>3. host'[k] = host[k]
    BY <1>5, <2>2 DEF LeaseStep, LeaseExpires, Release, Reconcile, ReconciledHost, Inv, TypeOK
  <2>4. \A v \in Works \ { w } : lease'[v] = lease[v]
    BY <1>5 DEF LeaseStep, LeaseExpires, Release, Reconcile, Inv, TypeOK
  <2> QED  BY <2>1, <2>2, <2>3, <2>4 DEF Untouched
<1>6. ASSUME NEW w \in Works, NEW target \in WorkStatus, WorkerTransition(w, target)
      PROVE  Untouched(k)
  BY <1>1, <1>6 DEF Untouched, WorkerTransition, LeaseValid, Transition, Inv, TypeOK
<1>7. ASSUME NEW j \in Workers, NEW w \in Works, Claim(j, w)  PROVE Untouched(k)
  BY <1>1, <1>2, <1>7 DEF Untouched, Claim, Transition, TerminalWork, Inv, TypeOK
<1>8. ASSUME NEW j \in Workers, Report(j)  PROVE Untouched(k)
  BY <1>8 DEF Untouched, Report, Heartbeat, workVars, Inv, TypeOK
<1>9. ASSUME NEW j \in Workers, Quarantine(j)  PROVE Untouched(k)
  BY <1>1, <1>9 DEF Untouched, Quarantine, Inv, TypeOK
<1>10. ASSUME NEW j \in Workers, NEW mock \in BOOLEAN, Register(j, mock)
       PROVE  Untouched(k)
  BY <1>10 DEF Untouched, Register, workVars, Inv, TypeOK
<1>11. CASE UNCHANGED vars
  BY <1>11 DEF Untouched, vars, workVars
<1> QED  BY <1>3, <1>4, <1>5, <1>6, <1>7, <1>8, <1>9, <1>10, <1>11 DEF Next

\* No later request, heartbeat, release, reconciliation or delivery changes what a
\* quarantined worker holds (quarantine_worker, ensure_worker_not_quarantined).
THEOREM FenceIsFinal ==
  Spec => QuarantineIsFinal
<1>1. Inv /\ [Next]_vars =>
        [\A k \in Workers : host[k].quarantined =>
           /\ host'[k] = host[k]
           /\ \A w \in Works : assigned[w] = k =>
                lease'[w] = lease[w] /\ status'[w] = status[w]]_vars
  BY FencedUntouched DEF Untouched
<1> QED  BY <1>1, Invariance, PTL DEF Spec, QuarantineIsFinal

-----------------------------------------------------------------------------
(* The control plane implements Reservation: each step is one of its steps *)
(* or changes nothing an owner of a run can see.                           *)

\* Work that was never submitted is free and waits, as queued work does.
LEMMA RunInit ==
  Init => Run!Init
  BY DEF Init, Run!Init, Phase, Slot, NoLease

\* People withdraw work nobody took, or move a run that goes on.
LEMMA RunPeople ==
  ASSUME Inv, NEW w \in Works, PeopleStep(w)
  PROVE  Run!Next \/ UNCHANGED Run!vars
<1>1. CASE Submit(w)
  BY <1>1 DEF Inv, NothingEarly, Submit, Run!vars, Phase, Slot
<1>2. CASE Cancel(w)
  <2>1. Run!Finish(w)
    BY <1>2 DEF Inv, TypeOK, Cancel, Transition, Run!Finish, Phase, Slot, TerminalWork
  <2> QED  BY <2>1 DEF Run!Next
<1>3. CASE Feedback(w) \/ ExtendBudget(w) \/ Approve(w) \/ Reject(w)
  <2>1. /\ status[w] \notin TerminalWork \cup { "queued" }
        /\ status'[w] \notin TerminalWork \cup { "queued" }
    BY <1>3 DEF Inv, TypeOK, Feedback, ExtendBudget, Approve, Reject, Transition,
       ResumedByFeedback, TerminalWork
  <2>2. \A v \in Works \ { w } : status'[v] = status[v]
    BY <1>3 DEF Inv, TypeOK, Feedback, ExtendBudget, Approve, Reject, Transition
  <2>3. lease' = lease /\ assigned' = assigned /\ items' = items
    BY <1>3 DEF Feedback, ExtendBudget, Approve, Reject, Transition
  <2> QED  BY <2>1, <2>2, <2>3 DEF Run!vars, Phase, Slot, Inv, NothingEarly
<1> QED  BY <1>1, <1>2, <1>3 DEF PeopleStep

\* Delivery ends a run, or goes on with it.
LEMMA RunDelivery ==
  ASSUME Inv, NEW w \in Works, DeliveryStep(w)
  PROVE  Run!Next \/ UNCHANGED Run!vars
<1>1. CASE StartDelivery(w) \/ RearmDelivery(w)
  BY <1>1 DEF StartDelivery, RearmDelivery, Run!vars, Phase, Slot, workVars
<1>2. CASE FinishDelivery(w) \/ FailDelivery(w)
  <2>1. status[w] = "committing" /\ w \in items
    BY <1>2 DEF FinishDelivery, FailDelivery, Deliverable, Inv, NothingEarly
  <2>2. status' = [status EXCEPT ![w] = status'[w]] /\ status'[w] \in TerminalWork
    BY <1>2 DEF FinishDelivery, FailDelivery, Transition, Inv, TypeOK, TerminalWork
  <2>3. lease' = lease /\ assigned' = assigned /\ items' = items
    BY <1>2 DEF FinishDelivery, FailDelivery, Transition
  <2>4. Run!Finish(w)
    BY <2>1, <2>2, <2>3 DEF Run!Finish, Phase, Slot, Inv, TypeOK, TerminalWork
  <2> QED  BY <2>4 DEF Run!Next
<1> QED  BY <1>1, <1>2 DEF DeliveryStep

\* A slot goes back by the first of release and reconciliation; the second is a stutter.
LEMMA RunLease ==
  ASSUME Inv, NEW w \in Works, LeaseStep(w)
  PROVE  Run!Next \/ UNCHANGED Run!vars
<1>1. CASE LeaseExpires(w)
  BY <1>1 DEF LeaseExpires, Run!vars, Phase, Slot, workVars, Inv, TypeOK, LeaseRecord
<1>2. CASE Release(w) \/ (Reconcile(w) /\ lease[w].state = "active")
  <2>1. status[w] \in TerminalWork /\ lease[w].state = "active" /\ w \in items
    BY <1>2 DEF Release, Reconcile, LeaseValid, Inv, LeaseMatchesAssignment, NothingEarly,
       TerminalWork
  <2>2. /\ lease' = [lease EXCEPT ![w].state = "released"]
        /\ UNCHANGED <<assigned, items, status>>
    BY <1>2 DEF Release, Reconcile, workVars
  <2>3. Phase(w) = "finished" /\ Slot(w) = "held"
    BY <2>1 DEF Phase, Slot, TerminalWork
  <2>4. [v \in Works |-> Slot(v)]' = [[v \in Works |-> Slot(v)] EXCEPT ![w] = "returned"]
    BY <2>1, <2>2 DEF Slot, Inv, TypeOK, LeaseRecord
  <2>5. Run!GiveBack(w)  BY <2>2, <2>3, <2>4 DEF Run!GiveBack, Phase
  <2> QED  BY <2>5 DEF Run!Next
<1>3. CASE Reconcile(w) /\ lease[w].state # "active"
  <2>1. /\ lease[w].state = "released"
        /\ lease' = [lease EXCEPT ![w].state = "released"]
        /\ UNCHANGED <<assigned, items, status>>
    BY <1>3 DEF Reconcile, workVars
  <2>2. lease' = lease  BY <2>1 DEF Inv, TypeOK, LeaseRecord
  <2> QED  BY <2>1, <2>2 DEF Run!vars, Phase, Slot
<1> QED  BY <1>1, <1>2, <1>3 DEF LeaseStep

\* A worker's report ends its run, or moves it on.
LEMMA RunWorker ==
  ASSUME Inv, NEW w \in Works, NEW target \in WorkStatus, WorkerTransition(w, target)
  PROVE  Run!Next \/ UNCHANGED Run!vars
<1>1. status[w] \notin TerminalWork \cup { "queued" } /\ target # "queued" /\ w \in items
  BY LeaseEdge DEF WorkerTransition, Inv, TypeOK, NothingEarly
<1>2. status' = [status EXCEPT ![w] = target] /\ UNCHANGED <<items, assigned, lease>>
  BY DEF WorkerTransition, Transition
<1>3. CASE target \in TerminalWork
  <2>1. Run!Finish(w)
    BY <1>1, <1>2, <1>3 DEF Run!Finish, Phase, Slot, Inv, TypeOK
  <2> QED  BY <2>1 DEF Run!Next
<1>4. CASE target \notin TerminalWork
  BY <1>1, <1>2, <1>4 DEF Run!vars, Phase, Slot, Inv, TypeOK
<1> QED  BY <1>3, <1>4

\* A claim takes a slot.
LEMMA RunClaim ==
  ASSUME Inv, NEW k \in Workers, NEW w \in Works, Claim(k, w)
  PROVE  Run!Next \/ UNCHANGED Run!vars
<1>1. Run!Take(w, k)
  BY DEF Claim, Transition, Run!Take, Phase, Slot, Inv, TypeOK, TerminalWork
<1> QED  BY <1>1 DEF Run!Next

\* A quarantine shuts its worker out.
LEMMA RunQuarantine ==
  ASSUME Inv, NEW k \in Workers, Quarantine(k)
  PROVE  Run!Next \/ UNCHANGED Run!vars
<1>1. ASSUME NEW w \in Works
      PROVE  Phase(w)' = IF assigned[w] = k THEN "finished" ELSE Phase(w)
  <2>1. assigned' = assigned /\ items' = items  BY DEF Quarantine
  <2>2. CASE assigned[w] # k
    <3>1. status'[w] = status[w]  BY <2>2 DEF Quarantine, Inv, TypeOK
    <3> QED  BY <2>1, <2>2, <3>1 DEF Phase
  <2>3. CASE assigned[w] = k
    <3>1. status[w] # "queued" /\ w \in items
      BY <2>3, NoneAssumption DEF Inv, LeaseMatchesAssignment, NothingEarly
    <3>2. status'[w] \in TerminalWork
      BY <2>3 DEF Quarantine, QuarantineOutcome, TerminalWork, Inv, TypeOK
    <3> QED  BY <2>1, <2>3, <3>1, <3>2 DEF Phase, TerminalWork
  <2> QED  BY <2>2, <2>3
<1>2. \A w \in Works : Slot(w)' = IF assigned[w] = k /\ Slot(w) = "held" THEN "kept"
                                 ELSE Slot(w)
  BY DEF Quarantine, Slot, Inv, TypeOK, LeaseMatchesAssignment
<1>3. Run!ShutOut(k)
  BY <1>1, <1>2 DEF Run!ShutOut, Quarantine
<1> QED  BY <1>3 DEF Run!Next

\* Registrations and heartbeats are nothing an owner of a run can see.
LEMMA RunHost ==
  ASSUME NEW k \in Workers, Report(k) \/ \E mock \in BOOLEAN : Register(k, mock)
  PROVE  UNCHANGED Run!vars
  BY DEF Report, Heartbeat, Register, Run!vars, Phase, Slot, workVars

\* One worker runs a work, holds one slot for it from its claim on, gives it back once
\* after the work has finished, or keeps it when it is quarantined (claim_next_work,
\* release_run, reconcile_terminal_lease, quarantine_worker).
THEOREM Implements ==
  Spec => KeepsReservations
<1>1. Inv /\ [Next]_vars => [Run!Next]_(Run!vars)
  <2> SUFFICES ASSUME Inv, [Next]_vars  PROVE Run!Next \/ UNCHANGED Run!vars
    OBVIOUS
  <2>1. CASE UNCHANGED vars
    BY <2>1 DEF vars, workVars, Run!vars, Phase, Slot
  <2>2. CASE Next
    BY <2>2, RunPeople, RunDelivery, RunLease, RunWorker, RunClaim, RunQuarantine, RunHost
    DEF Next
  <2> QED  BY <2>1, <2>2
<1> QED  BY <1>1, RunInit, Invariance, PTL DEF Spec, Run!Spec, KeepsReservations
=============================================================================
