----------------------------- MODULE RunnerProofs -----------------------------
(***************************************************************************)
(* Proofs about Runner, for every repair limit, any number of feedback     *)
(* rows, failed calls and late requests.                                   *)
(***************************************************************************)
EXTENDS Runner, TLAPS

-----------------------------------------------------------------------------
(* The inductive invariant.                                                *)

\* run() is at work on its own, waits for people, or is about to end.
Running == { "bootstrap", "claiming", "clone", "session", "turn", "report", "verify",
             "repair", "upload", "exhaust", "wait" }
Polling == { "poll", "reading", "ready" }
Ending == { "failing", "settle", "exited", "killed" }

\* What the runner ever asks of the control plane, and the states only a person leaves.
Calls == { "analyzing", "implementing", "verifying", "budget_exhausted", "awaiting_approval",
           "failed", "bundle" }
Waiting == { "awaiting_approval", "budget_exhausted" }

\* A request is late only when the runner has given up, and the tree stays as it was then.
LateStage ==
  /\ late # {} => pc \in Ending
  /\ \A r \in late : r.call \in Calls
  /\ \A r \in late : r.call = "awaiting_approval" => checked /\ bundle = "current"

\* The way to the gate.
GateStage ==
  /\ status \notin { "awaiting_feedback", "awaiting_input" }
  /\ pc \in { "upload", "wait" } => checked
  /\ pc = "wait" => bundle = "current"
  /\ ApprovalShowsVerifiedTree

\* No person resumes work while the runner is busy with it, and an answer that says the
\* work was resumed stays true until it is used.
DecisionStage ==
  /\ pc \in Running => status \notin Waiting
  /\ pc \in { "reading", "ready" } /\ seen.status = "implementing" => status \notin Waiting

\* What the agent has been told.
ToldStage ==
  /\ due <= notes
  /\ 1..cursor \subseteq told
  /\ pc \in Running => due <= cursor
  /\ pc = "ready" /\ seen.status = "implementing" => due <= seen.upto

\* How often the tree has been verified since a person last resumed the work.
RepairStage ==
  /\ pc \in Running \ { "upload", "wait", "exhaust" } =>
       checks <= attempts /\ attempts <= ReplanLimit
  /\ pc \in Polling /\ status = "implementing" => checks = 0
  /\ pc \in { "reading", "ready" } /\ seen.status = "implementing" => checks = 0
  /\ RepairsAreBounded

\* While the lease holds, the work is where the runner takes it to be, and what it was
\* told of the work's end stays true.
PlaceStage ==
  /\ lease /\ pc = "bootstrap" => status = "provisioning" /\ version = 2
  /\ lease /\ pc \in Running \ { "bootstrap" } => held = version
  /\ lease /\ pc = "claiming" => status = "provisioning"
  /\ lease /\ pc = "clone" => status = "analyzing"
  /\ lease /\ pc \in { "session", "turn", "report" } => status = "implementing"
  /\ lease /\ pc \in { "verify", "repair", "exhaust", "upload", "wait" } => status = "verifying"
  /\ lease /\ pc \in { "reading", "ready" } /\ seen.status = "implementing" =>
       status = "implementing" /\ version = seen.version
  /\ pc \in { "reading", "ready" } /\ Ends => status \in Closed \cup { "committing" }

\* After one failure there is at most one request on its way, and once it was served
\* nothing can come between reading the work and settling it.
FailureStage ==
  /\ pc \in Running \cup Polling => tries = 0
  /\ lease /\ pc \in { "failing", "settle" } => faults >= 1
  /\ late # {} => faults >= 1
  /\ faults <= 1 => \A r, s \in late : r = s
  /\ lease /\ faults <= 1 /\ pc \in { "failing", "settle" } =>
       tries = 0 \/ (tries = 1 /\ late = {})
  /\ lease /\ faults <= 1 /\ pc = "settle" =>
       \/ held = version /\ status \in Executing
       \/ late = {} /\ tries = 0
  /\ NoSilentDeath

Stage ==
  LateStage /\ GateStage /\ DecisionStage /\ ToldStage /\ RepairStage /\ PlaceStage
    /\ FailureStage

\* The inductive invariant.
IInv == TypeOK /\ Stage

-----------------------------------------------------------------------------
(* The graphs.                                                             *)

\* Every edge leads to a status, delivery never leads back to the gate, and a quarantine
\* ends the work.
LEMMA Graphs ==
  /\ \A s \in WorkStatus : AllowedTransitions[s] \subseteq WorkStatus
  /\ \A s \in { "committing", "pr_created" } : AllowedTransitions[s] \subseteq
       { "pr_created", "completed", "failed" }
  /\ \A s \in WorkStatus : QuarantineOutcome(s) \in { "failed", "cancelled" }
BY DEF WorkStatus, AllowedTransitions, QuarantineOutcome

\* A worker's lease leads no finished or waiting work back into execution, and may fail
\* whatever is being executed; every report of a run without faults is an edge.
LEMMA WorkerGraphs ==
  /\ \A s \in WorkStatus \ Executing : WorkerTransitions[s] \cap Executing = {}
  /\ \A s \in Executing : "failed" \in WorkerTransitions[s]
  /\ \A s \in Closed \cup { "committing" } :
       WorkerTransitions[s] \subseteq Closed \cup { "committing" }
  /\ "analyzing" \in WorkerTransitions["provisioning"]
  /\ "implementing" \in WorkerTransitions["analyzing"]
  /\ "verifying" \in WorkerTransitions["implementing"]
  /\ { "implementing", "budget_exhausted", "awaiting_approval" } \subseteq
       WorkerTransitions["verifying"]
BY DEF WorkStatus, WorkerTransitions, Executing, Closed

-----------------------------------------------------------------------------
(* The steps.                                                              *)

\* Every step leaves every variable in its domain.
LEMMA TypeStep ==
  ASSUME TypeOK, [Next]_vars
  PROVE  TypeOK'
<1> USE Graphs DEF TypeOK, Stages, Reporting, WorkStatus
<1> USE DEF Transition, Accepts, Move, Fault, FailsIf, Request, Resume, Executing, vars, work,
            progress
<1>1. CASE Bootstrap
  BY <1>1 DEF Bootstrap
<1>2. CASE ClaimRun
  BY <1>2 DEF ClaimRun
<1>3. CASE CloneDone
  BY <1>3 DEF CloneDone
<1>4. CASE SessionStarts
  BY <1>4 DEF SessionStarts
<1>5. CASE ToVerifying
  BY <1>5 DEF ToVerifying
<1>6. CASE Verify
  <2>1. checks' \in Nat /\ attempts' \in Nat
    BY <1>6 DEF Verify
  <2>2. pc' \in { "upload", "exhaust", "repair" }
    BY <1>6 DEF Verify
  <2>3. checked' \in BOOLEAN
    BY <1>6 DEF Verify
  <2>4. QED
    BY <1>6, <2>1, <2>2, <2>3 DEF Verify
<1>7. CASE Repair
  BY <1>7 DEF Repair
<1>8. CASE Exhaust
  BY <1>8 DEF Exhaust
<1>9. CASE UploadBundle
  BY <1>9 DEF UploadBundle
<1>10. CASE ToWaiting
  BY <1>10 DEF ToWaiting
<1>11. CASE ReadStatus
  BY <1>11 DEF ReadStatus
<1>12. CASE ReadFeedback
  BY <1>12 DEF ReadFeedback
<1>13. CASE TakeCommands
  <2>1. cursor + 1..seen.upto \subseteq Nat
    OBVIOUS
  <2>2. pc' \in { "turn", "exited", "poll" }
    BY <1>13 DEF TakeCommands, Wait
  <2>3. held' \in Nat /\ cursor' \in Nat /\ attempts' \in Nat
    BY <1>13 DEF TakeCommands, Wait
  <2>4. told' \subseteq Nat
    BY <1>13, <2>1 DEF TakeCommands, Wait
  <2>5. checked' = checked /\ checks' = checks
    BY <1>13 DEF TakeCommands, Wait
  <2>6. QED
    BY <1>13, <2>2, <2>3, <2>4, <2>5 DEF TakeCommands
<1>14. CASE FailRead
  BY <1>14 DEF FailRead
<1>15. CASE FailWrite
  <2>1. pc' \in { "failing", "exited" } /\ tries' \in Nat
    BY <1>15 DEF FailWrite
  <2>2. QED
    BY <1>15, <2>1 DEF FailWrite
<1>16. CASE TurnEnds
  BY <1>16 DEF TurnEnds
<1>17. CASE StageFails
  BY <1>17 DEF StageFails
<1>18. CASE LateArrives
  BY <1>18 DEF LateArrives
<1>19. CASE AddFeedback
  <2>1. notes' \in Nat /\ due' \in Nat /\ checks' \in Nat /\ version' \in Nat
    BY <1>19 DEF AddFeedback
  <2>2. status' \in WorkStatus
    BY <1>19 DEF AddFeedback
  <2>3. stranded' \in BOOLEAN
    BY <1>19 DEF AddFeedback
  <2>4. QED
    BY <1>19, <2>1, <2>2, <2>3 DEF AddFeedback
<1>20. CASE DecideToContinue
  BY <1>20 DEF DecideToContinue
<1>21. CASE Deliver
  BY <1>21 DEF Deliver
<1>22. CASE LoseLease
  <2>1. QuarantineOutcome(status) \in WorkStatus
    OBVIOUS
  <2>2. \/ status' = status /\ version' = version
        \/ status' = QuarantineOutcome(status) /\ version' = version + 1
    BY <1>22 DEF LoseLease
  <2>3. status' \in WorkStatus /\ version' \in Nat
    BY <2>1, <2>2
  <2>4. /\ lease' \in BOOLEAN
        /\ UNCHANGED <<notes, bundle, late, pc, held, checked, attempts, cursor, told,
                       checks, seen, tries, faults, due, stranded>>
    BY <1>22 DEF LoseLease
  <2>5. QED
    BY <2>3, <2>4
<1>23. CASE KillVM
  BY <1>23 DEF KillVM
<1>24. CASE WorkerSettles
  BY <1>24 DEF WorkerSettles
<1>25. CASE UNCHANGED vars
  BY <1>25
<1>26. QED
  BY <1>1, <1>2, <1>3, <1>4, <1>5, <1>6, <1>7, <1>8, <1>9, <1>10, <1>11, <1>12, <1>13,
     <1>14, <1>15, <1>16, <1>17, <1>18, <1>19, <1>20, <1>21, <1>22, <1>23, <1>24, <1>25
  DEF Next, RunnerStep, Environment
\* A request that is given up ends the run, and nothing touches the tree after it.
LEMMA LateStep ==
  ASSUME IInv, [Next]_vars, TypeOK'
  PROVE  LateStage'
<1> USE Graphs, BoundsAssumption DEF IInv, Stage, TypeOK, Running, Polling, Ending, LateStage, GateStage, Calls
<1> USE DEF Transition, Accepts, Move, Fault, FailsIf, Request, Resume, Executing, vars, work,
            progress
<1>1. CASE Bootstrap
  BY <1>1 DEF Bootstrap
<1>2. CASE ClaimRun
  BY <1>2 DEF ClaimRun
<1>3. CASE CloneDone
  BY <1>3 DEF CloneDone
<1>4. CASE SessionStarts
  BY <1>4 DEF SessionStarts
<1>5. CASE ToVerifying
  BY <1>5 DEF ToVerifying
<1>6. CASE Verify
  BY <1>6 DEF Verify, OutOfRepairs
<1>7. CASE Repair
  BY <1>7 DEF Repair
<1>8. CASE Exhaust
  BY <1>8 DEF Exhaust
<1>9. CASE UploadBundle
  BY <1>9 DEF UploadBundle, AcceptsBundle
<1>10. CASE ToWaiting
  BY <1>10 DEF ToWaiting
<1>11. CASE ReadStatus
  BY <1>11 DEF ReadStatus
<1>12. CASE ReadFeedback
  BY <1>12 DEF ReadFeedback
<1>13. CASE TakeCommands
  BY <1>13 DEF TakeCommands, Continues, Wait, Ends
<1>14. CASE FailRead
  BY <1>14 DEF FailRead
<1>15. CASE FailWrite
  BY <1>15 DEF FailWrite
<1>16. CASE TurnEnds
  BY <1>16 DEF TurnEnds
<1>17. CASE StageFails
  BY <1>17 DEF StageFails
<1>18. CASE LateArrives
  BY <1>18 DEF LateArrives, AcceptsBundle
<1>19. CASE AddFeedback
  BY <1>19 DEF AddFeedback
<1>20. CASE DecideToContinue
  BY <1>20 DEF DecideToContinue
<1>21. CASE Deliver
  BY <1>21 DEF Deliver
<1>22. CASE LoseLease
  BY <1>22 DEF LoseLease
<1>23. CASE KillVM
  BY <1>23 DEF KillVM
<1>24. CASE WorkerSettles
  BY <1>24 DEF WorkerSettles
<1>25. CASE UNCHANGED vars
  BY <1>25
<1>26. QED
  BY <1>1, <1>2, <1>3, <1>4, <1>5, <1>6, <1>7, <1>8, <1>9, <1>10, <1>11, <1>12, <1>13,
     <1>14, <1>15, <1>16, <1>17, <1>18, <1>19, <1>20, <1>21, <1>22, <1>23, <1>24, <1>25
  DEF Next, RunnerStep, Environment

\* Nothing reaches the gate but the tree as it was verified and uploaded.
LEMMA GateStep ==
  ASSUME IInv, [Next]_vars, TypeOK'
  PROVE  GateStage'
<1> USE Graphs, BoundsAssumption DEF IInv, Stage, TypeOK, Running, Polling, Ending, LateStage, GateStage, DecisionStage, Waiting, Calls, ApprovalShowsVerifiedTree, MockOnly
<1> USE DEF Transition, Accepts, Move, Fault, FailsIf, Request, Resume, Executing, vars, work,
            progress
<1>1. CASE Bootstrap
  BY <1>1 DEF Bootstrap
<1>2. CASE ClaimRun
  BY <1>2 DEF ClaimRun
<1>3. CASE CloneDone
  BY <1>3 DEF CloneDone
<1>4. CASE SessionStarts
  BY <1>4 DEF SessionStarts
<1>5. CASE ToVerifying
  BY <1>5 DEF ToVerifying
<1>6. CASE Verify
  BY <1>6 DEF Verify, OutOfRepairs
<1>7. CASE Repair
  BY <1>7 DEF Repair
<1>8. CASE Exhaust
  BY <1>8 DEF Exhaust
<1>9. CASE UploadBundle
  BY <1>9 DEF UploadBundle, AcceptsBundle
<1>10. CASE ToWaiting
  BY <1>10 DEF ToWaiting
<1>11. CASE ReadStatus
  BY <1>11 DEF ReadStatus
<1>12. CASE ReadFeedback
  BY <1>12 DEF ReadFeedback
<1>13. CASE TakeCommands
  BY <1>13 DEF TakeCommands, Continues, Wait, Ends
<1>14. CASE FailRead
  BY <1>14 DEF FailRead
<1>15. CASE FailWrite
  BY <1>15 DEF FailWrite
<1>16. CASE TurnEnds
  BY <1>16 DEF TurnEnds
<1>17. CASE StageFails
  BY <1>17 DEF StageFails
<1>18. CASE LateArrives
  BY <1>18 DEF LateArrives, AcceptsBundle
<1>19. CASE AddFeedback
  BY <1>19 DEF AddFeedback
<1>20. CASE DecideToContinue
  BY <1>20 DEF DecideToContinue
<1>21. CASE Deliver
  BY <1>21 DEF Deliver
<1>22. CASE LoseLease
  BY <1>22 DEF LoseLease
<1>23. CASE KillVM
  BY <1>23 DEF KillVM
<1>24. CASE WorkerSettles
  BY <1>24 DEF WorkerSettles
<1>25. CASE UNCHANGED vars
  BY <1>25
<1>26. QED
  BY <1>1, <1>2, <1>3, <1>4, <1>5, <1>6, <1>7, <1>8, <1>9, <1>10, <1>11, <1>12, <1>13,
     <1>14, <1>15, <1>16, <1>17, <1>18, <1>19, <1>20, <1>21, <1>22, <1>23, <1>24, <1>25
  DEF Next, RunnerStep, Environment

\* People never resume work the runner is busy with.
LEMMA DecisionStep ==
  ASSUME IInv, [Next]_vars, TypeOK'
  PROVE  DecisionStage'
<1> USE Graphs, BoundsAssumption DEF IInv, Stage, TypeOK, Running, Polling, Ending, LateStage, DecisionStage, GateStage, Waiting, Calls
<1> USE DEF Transition, Accepts, Move, Fault, FailsIf, Request, Resume, Executing, vars, work,
            progress
<1>1. CASE Bootstrap
  BY <1>1 DEF Bootstrap
<1>2. CASE ClaimRun
  BY <1>2 DEF ClaimRun
<1>3. CASE CloneDone
  BY <1>3 DEF CloneDone
<1>4. CASE SessionStarts
  BY <1>4 DEF SessionStarts
<1>5. CASE ToVerifying
  BY <1>5 DEF ToVerifying
<1>6. CASE Verify
  BY <1>6 DEF Verify, OutOfRepairs
<1>7. CASE Repair
  BY <1>7 DEF Repair
<1>8. CASE Exhaust
  BY <1>8 DEF Exhaust
<1>9. CASE UploadBundle
  BY <1>9 DEF UploadBundle, AcceptsBundle
<1>10. CASE ToWaiting
  BY <1>10 DEF ToWaiting
<1>11. CASE ReadStatus
  BY <1>11 DEF ReadStatus
<1>12. CASE ReadFeedback
  BY <1>12 DEF ReadFeedback
<1>13. CASE TakeCommands
  BY <1>13 DEF TakeCommands, Continues, Wait, Ends
<1>14. CASE FailRead
  BY <1>14 DEF FailRead
<1>15. CASE FailWrite
  BY <1>15 DEF FailWrite
<1>16. CASE TurnEnds
  BY <1>16 DEF TurnEnds
<1>17. CASE StageFails
  BY <1>17 DEF StageFails
<1>18. CASE LateArrives
  BY <1>18 DEF LateArrives, AcceptsBundle
<1>19. CASE AddFeedback
  BY <1>19 DEF AddFeedback
<1>20. CASE DecideToContinue
  BY <1>20 DEF DecideToContinue
<1>21. CASE Deliver
  BY <1>21 DEF Deliver
<1>22. CASE LoseLease
  BY <1>22 DEF LoseLease
<1>23. CASE KillVM
  BY <1>23 DEF KillVM
<1>24. CASE WorkerSettles
  BY <1>24 DEF WorkerSettles
<1>25. CASE UNCHANGED vars
  BY <1>25
<1>26. QED
  BY <1>1, <1>2, <1>3, <1>4, <1>5, <1>6, <1>7, <1>8, <1>9, <1>10, <1>11, <1>12, <1>13,
     <1>14, <1>15, <1>16, <1>17, <1>18, <1>19, <1>20, <1>21, <1>22, <1>23, <1>24, <1>25
  DEF Next, RunnerStep, Environment

\* What was there when a person resumed the work is known before the next turn.
LEMMA ToldStep ==
  ASSUME IInv, [Next]_vars, TypeOK'
  PROVE  ToldStage'
<1> USE Graphs, BoundsAssumption DEF IInv, Stage, TypeOK, Running, Polling, Ending, DecisionStage, ToldStage, GateStage, Waiting, ResumedByFeedback
<1> USE DEF Transition, Accepts, Move, Fault, FailsIf, Request, Resume, Executing, vars, work,
            progress
<1>1. CASE Bootstrap
  BY <1>1 DEF Bootstrap
<1>2. CASE ClaimRun
  BY <1>2 DEF ClaimRun
<1>3. CASE CloneDone
  BY <1>3 DEF CloneDone
<1>4. CASE SessionStarts
  BY <1>4 DEF SessionStarts
<1>5. CASE ToVerifying
  BY <1>5 DEF ToVerifying
<1>6. CASE Verify
  BY <1>6 DEF Verify, OutOfRepairs
<1>7. CASE Repair
  BY <1>7 DEF Repair
<1>8. CASE Exhaust
  BY <1>8 DEF Exhaust
<1>9. CASE UploadBundle
  BY <1>9 DEF UploadBundle, AcceptsBundle
<1>10. CASE ToWaiting
  BY <1>10 DEF ToWaiting
<1>11. CASE ReadStatus
  BY <1>11 DEF ReadStatus
<1>12. CASE ReadFeedback
  BY <1>12 DEF ReadFeedback
<1>13. CASE TakeCommands
  BY <1>13 DEF TakeCommands, Continues, Wait, Ends
<1>14. CASE FailRead
  BY <1>14 DEF FailRead
<1>15. CASE FailWrite
  BY <1>15 DEF FailWrite
<1>16. CASE TurnEnds
  BY <1>16 DEF TurnEnds
<1>17. CASE StageFails
  BY <1>17 DEF StageFails
<1>18. CASE LateArrives
  BY <1>18 DEF LateArrives, AcceptsBundle
<1>19. CASE AddFeedback
  BY <1>19 DEF AddFeedback
<1>20. CASE DecideToContinue
  BY <1>20 DEF DecideToContinue
<1>21. CASE Deliver
  BY <1>21 DEF Deliver
<1>22. CASE LoseLease
  BY <1>22 DEF LoseLease
<1>23. CASE KillVM
  BY <1>23 DEF KillVM
<1>24. CASE WorkerSettles
  BY <1>24 DEF WorkerSettles
<1>25. CASE UNCHANGED vars
  BY <1>25
<1>26. QED
  BY <1>1, <1>2, <1>3, <1>4, <1>5, <1>6, <1>7, <1>8, <1>9, <1>10, <1>11, <1>12, <1>13,
     <1>14, <1>15, <1>16, <1>17, <1>18, <1>19, <1>20, <1>21, <1>22, <1>23, <1>24, <1>25
  DEF Next, RunnerStep, Environment

\* The verifications since the last decision are the repairs, and one more.
LEMMA RepairStep ==
  ASSUME IInv, [Next]_vars, TypeOK'
  PROVE  RepairStage'
<1> USE Graphs, BoundsAssumption DEF IInv, Stage, TypeOK, Running, Polling, Ending, LateStage, DecisionStage, RepairStage, GateStage, Waiting, RepairsAreBounded
<1> USE DEF Transition, Accepts, Move, Fault, FailsIf, Request, Resume, Executing, vars, work,
            progress
<1>1. CASE Bootstrap
  BY <1>1 DEF Bootstrap
<1>2. CASE ClaimRun
  BY <1>2 DEF ClaimRun
<1>3. CASE CloneDone
  BY <1>3 DEF CloneDone
<1>4. CASE SessionStarts
  BY <1>4 DEF SessionStarts
<1>5. CASE ToVerifying
  BY <1>5 DEF ToVerifying
<1>6. CASE Verify
  BY <1>6 DEF Verify, OutOfRepairs
<1>7. CASE Repair
  BY <1>7 DEF Repair
<1>8. CASE Exhaust
  BY <1>8 DEF Exhaust
<1>9. CASE UploadBundle
  BY <1>9 DEF UploadBundle, AcceptsBundle
<1>10. CASE ToWaiting
  BY <1>10 DEF ToWaiting
<1>11. CASE ReadStatus
  BY <1>11 DEF ReadStatus
<1>12. CASE ReadFeedback
  BY <1>12 DEF ReadFeedback
<1>13. CASE TakeCommands
  BY <1>13 DEF TakeCommands, Continues, Wait, Ends
<1>14. CASE FailRead
  BY <1>14 DEF FailRead
<1>15. CASE FailWrite
  BY <1>15 DEF FailWrite
<1>16. CASE TurnEnds
  BY <1>16 DEF TurnEnds
<1>17. CASE StageFails
  BY <1>17 DEF StageFails
<1>18. CASE LateArrives
  BY <1>18 DEF LateArrives, AcceptsBundle
<1>19. CASE AddFeedback
  BY <1>19 DEF AddFeedback
<1>20. CASE DecideToContinue
  BY <1>20 DEF DecideToContinue
<1>21. CASE Deliver
  BY <1>21 DEF Deliver
<1>22. CASE LoseLease
  BY <1>22 DEF LoseLease
<1>23. CASE KillVM
  BY <1>23 DEF KillVM
<1>24. CASE WorkerSettles
  BY <1>24 DEF WorkerSettles
<1>25. CASE UNCHANGED vars
  BY <1>25
<1>26. QED
  BY <1>1, <1>2, <1>3, <1>4, <1>5, <1>6, <1>7, <1>8, <1>9, <1>10, <1>11, <1>12, <1>13,
     <1>14, <1>15, <1>16, <1>17, <1>18, <1>19, <1>20, <1>21, <1>22, <1>23, <1>24, <1>25
  DEF Next, RunnerStep, Environment
\* Only the runner moves work it is busy with.
LEMMA PlaceStep ==
  ASSUME IInv, [Next]_vars, TypeOK'
  PROVE  PlaceStage'
<1> USE Graphs, WorkerGraphs DEF IInv, Stage, TypeOK, Running, Polling, Ending, LateStage,
            DecisionStage, GateStage, Waiting, PlaceStage, Closed, Ends
<1> USE DEF Transition, Accepts, Move, Fault, FailsIf, Request, Resume, Executing, vars, work,
            progress
<1>1. CASE Bootstrap
  BY <1>1 DEF Bootstrap, Assigned
<1>2. CASE ClaimRun
  BY <1>2 DEF ClaimRun
<1>3. CASE CloneDone
  BY <1>3 DEF CloneDone
<1>4. CASE SessionStarts
  BY <1>4 DEF SessionStarts
<1>5. CASE ToVerifying
  BY <1>5 DEF ToVerifying
<1>6. CASE Verify
  BY <1>6 DEF Verify, OutOfRepairs
<1>7. CASE Repair
  BY <1>7 DEF Repair
<1>8. CASE Exhaust
  BY <1>8 DEF Exhaust
<1>9. CASE UploadBundle
  BY <1>9 DEF UploadBundle, AcceptsBundle
<1>10. CASE ToWaiting
  BY <1>10 DEF ToWaiting
<1>11. CASE ReadStatus
  BY <1>11 DEF ReadStatus
<1>12. CASE ReadFeedback
  BY <1>12 DEF ReadFeedback
<1>13. CASE TakeCommands
  BY <1>13 DEF TakeCommands, Continues, Wait
<1>14. CASE FailRead
  BY <1>14 DEF FailRead
<1>15. CASE FailWrite
  BY <1>15 DEF FailWrite
<1>16. CASE TurnEnds
  BY <1>16 DEF TurnEnds
<1>17. CASE StageFails
  BY <1>17 DEF StageFails
<1>18. CASE LateArrives
  BY <1>18 DEF LateArrives, AcceptsBundle
<1>19. CASE AddFeedback
  BY <1>19 DEF AddFeedback, FeedbackAllowed, ResumedByFeedback, WorkStatus, TerminalWork
<1>20. CASE DecideToContinue
  BY <1>20 DEF DecideToContinue
<1>21. CASE Deliver
  BY <1>21 DEF Deliver
<1>22. CASE LoseLease
  BY <1>22 DEF LoseLease
<1>23. CASE KillVM
  BY <1>23 DEF KillVM
<1>24. CASE WorkerSettles
  BY <1>24 DEF WorkerSettles
<1>25. CASE UNCHANGED vars
  BY <1>25
<1>26. QED
  BY <1>1, <1>2, <1>3, <1>4, <1>5, <1>6, <1>7, <1>8, <1>9, <1>10, <1>11, <1>12, <1>13,
     <1>14, <1>15, <1>16, <1>17, <1>18, <1>19, <1>20, <1>21, <1>22, <1>23, <1>24, <1>25
  DEF Next, RunnerStep, Environment

\* One failure is either settled by the runner or leaves nothing to settle.
LEMMA FailureStep ==
  ASSUME IInv, [Next]_vars, TypeOK'
  PROVE  FailureStage'
<1> USE Graphs, WorkerGraphs DEF IInv, Stage, TypeOK, Running, Polling, Ending, LateStage,
            DecisionStage, GateStage, Waiting, PlaceStage,
            FailureStage, NoSilentDeath, Ends, Closed
<1> USE DEF Transition, Accepts, Move, Fault, FailsIf, Request, Resume, Executing, vars, work,
            progress
<1>1. CASE Bootstrap
  BY <1>1 DEF Bootstrap, Assigned
<1>2. CASE ClaimRun
  BY <1>2 DEF ClaimRun, MockOnly
<1>3. CASE CloneDone
  BY <1>3 DEF CloneDone, MockOnly
<1>4. CASE SessionStarts
  BY <1>4 DEF SessionStarts
<1>5. CASE ToVerifying
  BY <1>5 DEF ToVerifying, MockOnly
<1>6. CASE Verify
  BY <1>6 DEF Verify, OutOfRepairs
<1>7. CASE Repair
  BY <1>7 DEF Repair, MockOnly
<1>8. CASE Exhaust
  BY <1>8 DEF Exhaust, MockOnly
<1>9. CASE UploadBundle
  BY <1>9 DEF UploadBundle, AcceptsBundle
<1>10. CASE ToWaiting
  BY <1>10 DEF ToWaiting, MockOnly
<1>11. CASE ReadStatus
  BY <1>11 DEF ReadStatus
<1>12. CASE ReadFeedback
  BY <1>12 DEF ReadFeedback
<1>13. CASE TakeCommands
  BY <1>13 DEF TakeCommands, Continues, Wait
<1>14. CASE FailRead
  BY <1>14 DEF FailRead
<1>15. CASE FailWrite
  BY <1>15 DEF FailWrite, Conflict, MockOnly
<1>16. CASE TurnEnds
  BY <1>16 DEF TurnEnds
<1>17. CASE StageFails
  BY <1>17 DEF StageFails
<1>18. CASE LateArrives
  BY <1>18 DEF LateArrives, AcceptsBundle
<1>19. CASE AddFeedback
  BY <1>19 DEF AddFeedback, FeedbackAllowed, ResumedByFeedback, WorkStatus, TerminalWork
<1>20. CASE DecideToContinue
  BY <1>20 DEF DecideToContinue
<1>21. CASE Deliver
  BY <1>21 DEF Deliver
<1>22. CASE LoseLease
  BY <1>22 DEF LoseLease
<1>23. CASE KillVM
  BY <1>23 DEF KillVM
<1>24. CASE WorkerSettles
  BY <1>24 DEF WorkerSettles
<1>25. CASE UNCHANGED vars
  BY <1>25
<1>26. QED
  BY <1>1, <1>2, <1>3, <1>4, <1>5, <1>6, <1>7, <1>8, <1>9, <1>10, <1>11, <1>12, <1>13,
     <1>14, <1>15, <1>16, <1>17, <1>18, <1>19, <1>20, <1>21, <1>22, <1>23, <1>24, <1>25
  DEF Next, RunnerStep, Environment

-----------------------------------------------------------------------------
(* The theorems.                                                           *)

\* The invariant holds of both ways a run begins, and every step keeps it.
THEOREM Invariance == Spec => []IInv
<1>1. Init => IInv
  <2> SUFFICES ASSUME Init PROVE IInv
    OBVIOUS
  <2> USE BoundsAssumption DEF Init
  <2>1. TypeOK
    <3>1. status \in WorkStatus /\ version \in Nat /\ pc \in Stages /\ held \in Nat
      BY DEF Stages, Reporting, WorkStatus
    <3>2. seen \in [status : WorkStatus, version : Nat, upto : Nat]
      BY DEF WorkStatus
    <3>3. lease \in BOOLEAN /\ checked \in BOOLEAN /\ stranded \in BOOLEAN
      OBVIOUS
    <3>4. QED
      BY <3>1, <3>2, <3>3 DEF TypeOK
  <2>2. LateStage /\ GateStage
    BY DEF LateStage, GateStage, ApprovalShowsVerifiedTree
  <2>3. DecisionStage /\ ToldStage
    BY DEF DecisionStage, ToldStage, Waiting
  <2>4. RepairStage
    BY DEF RepairStage, RepairsAreBounded, Polling
  <2>5. PlaceStage
    BY DEF PlaceStage
  <2>6. FailureStage
    BY DEF FailureStage, NoSilentDeath
  <2>7. QED
    BY <2>1, <2>2, <2>3, <2>4, <2>5, <2>6 DEF IInv, Stage
<1>2. IInv /\ [Next]_vars => IInv'
  BY TypeStep, LateStep, GateStep, DecisionStep, ToldStep, RepairStep, PlaceStep, FailureStep
  DEF IInv, Stage
<1>3. QED
  BY <1>1, <1>2, PTL DEF Spec

\* Every variable stays in its domain.
THEOREM TypeCorrect == Spec => []TypeOK
BY Invariance, PTL DEF IInv

\* The agent never works on resumed work without the feedback that was there.
THEOREM AgentTold == Spec => []AgentIsTold
<1>1. IInv => AgentIsTold
  BY DEF IInv, TypeOK, Stage, ToldStage, Running, AgentIsTold
<1>2. QED
  BY <1>1, Invariance, PTL

\* The gate shows the tree as it was verified and uploaded.
THEOREM VerifiedAtGate == Spec => []ApprovalShowsVerifiedTree
<1>1. IInv => ApprovalShowsVerifiedTree
  BY DEF IInv, Stage, GateStage
<1>2. QED
  BY <1>1, Invariance, PTL

\* Repairs are bounded between two decisions of a person.
THEOREM BoundedRepairs == Spec => []RepairsAreBounded
<1>1. IInv => RepairsAreBounded
  BY DEF IInv, Stage, RepairStage
<1>2. QED
  BY <1>1, Invariance, PTL

\* A single failure never leaves work in execution with no runner behind it.
THEOREM OneFailureIsSettled == Spec => []NoSilentDeath
<1>1. IInv => NoSilentDeath
  BY DEF IInv, Stage, FailureStage
<1>2. QED
  BY <1>1, Invariance, PTL
=============================================================================
