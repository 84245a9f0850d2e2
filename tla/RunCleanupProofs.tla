-------------------------- MODULE RunCleanupProofs --------------------------
(***************************************************************************)
(* Proofs about RunCleanup, with and without logging, for any number of    *)
(* failed commands, crashes and reboots.                                   *)
(***************************************************************************)
EXTENDS RunCleanup, TLAPS

-----------------------------------------------------------------------------
(* The inductive invariant: what has been done by the time the execution   *)
(* or the cleanup is at a place.                                           *)

\* How far the journal is, by the place of the execution or its cleanup.
JournalStage ==
  /\ pc = "new" <=> journal = "none"
  /\ pc \in Creating \ { "new", "up" } => journal = "prepared"
  /\ pc = "up" => journal = "running"
  /\ pc = "mark" => journal # "released"
  /\ pc \in Cleaning \ { "mark" } => journal = "cleanup-pending"
  /\ pc = "cleaned" => journal = "cleaned"
  /\ pc = "over" => journal = "released"

\* What a creation has put on the host so far.
CreationStage ==
  /\ pc \in { "new", "disks", "check" } =>
       domain = "absent" /\ ~NetworkOwn /\ filter # "own" /\ receipts = {}
  /\ pc = "new" => files = {}
  /\ pc \in { "filter", "network", "intent", "start", "confirm", "install", "record", "up" } =>
       Recorded
  /\ pc = "filter" => Vacant
  /\ pc \in { "network", "intent", "start", "confirm", "install", "record", "up" } =>
       filter = "own"
  /\ pc = "network" => network = "absent"
  /\ pc \in { "intent", "start" } => network = "inactive"
  /\ pc \in { "filter", "network", "intent", "start" } => receipts = {}
  /\ pc \in { "confirm", "install" } => network = "active"
  /\ pc = "install" => Confirmed
  /\ pc \in { "confirm", "install" } /\ "active" \in receipts => table

\* What a cleanup has taken away so far.
TeardownStage ==
  /\ pc = "undefine" => domain = "defined"
  /\ pc \in Cleaning \ { "mark", "domain", "undefine" } => domain = "absent"
  /\ pc \in { "unnetwork", "unfilter", "log", "remove", "settle" } =>
       network \in { "absent", "inactive" } /\ filter # "foreign"
  /\ pc \in { "unfilter", "log", "remove", "settle" } => network = "absent"
  /\ pc \in { "log", "remove", "settle" } => filter = "absent"
  /\ pc \in { "remove", "settle" } => LogEvidence
  /\ pc = "settle" => files = {}
  /\ journal \in { "cleaned", "released" } => Vacant

\* A table that is still there was begun and not stopped; without logging there is none.
TableStage ==
  /\ table => logged /\ "pending" \in receipts /\ "stopped" \notin receipts
  /\ domain # "absent" => journal \in { "prepared", "running", "cleanup-pending" }

\* All that holds between two commands, apart from the types.
Stages ==
  /\ JournalStage /\ CreationStage /\ TeardownStage /\ TableStage
  /\ CleanedIsGone /\ OwnIsRecorded /\ GuestIsGuarded

\* The inductive invariant.
IInv == TypeOK /\ Stages

-----------------------------------------------------------------------------
(* The steps.                                                              *)

\* Every step leaves every variable in its domain.
LEMMA TypeStep ==
  ASSUME TypeOK, [Next]_vars
  PROVE  TypeOK'
<1> USE DEF Next, CleanupStep, CreateRecord, CreateDisks, WriteDefinitions, DefineFilter,
            DefineNetwork, BeginNetwork, StartNetwork, ConfirmNetwork, InstallDomain,
            RecordRunning, PowerOff, Finish, Mark, StopDomain, UndefineDomain, StopNetwork,
            UndefineNetwork, UndefineFilter, ConfirmLog, RemoveArtifacts, RecordCleaned,
            Release, Retry, Crash, Reboot, GoesOn, GivesUp, Stays, Fault, HookStarts,
            HookFails, HookStops, HookLeaves, vars, diskVars, libvirtVars, hookVars
<1>0. logged' \in BOOLEAN
  BY DEF TypeOK
<1>1. pc' \in Places
  BY DEF TypeOK, Places, Creating, Cleaning
<1>2. journal' \in { "none", "prepared", "running", "cleanup-pending", "cleaned", "released" }
  BY DEF TypeOK
<1>3. files' \subseteq Artifacts
  BY DEF TypeOK, Artifacts, Definitions
<1>4. intent' \in BOOLEAN
  BY DEF TypeOK
<1>5. domain' \in { "absent", "defined", "running" }
  BY DEF TypeOK
<1>6. network' \in { "absent", "inactive", "active", "foreign" }
  BY DEF TypeOK
<1>7. filter' \in { "absent", "own", "foreign" }
  BY DEF TypeOK
<1>8. table' \in BOOLEAN
  BY DEF TypeOK
<1>9. receipts' \subseteq { "pending", "active", "stopped" }
  BY DEF TypeOK
<1>10. UNCHANGED faults \/ Fault
  OBVIOUS
<1> HIDE DEF Next, CleanupStep, CreateRecord, CreateDisks, WriteDefinitions, DefineFilter,
            DefineNetwork, BeginNetwork, StartNetwork, ConfirmNetwork, InstallDomain,
            RecordRunning, PowerOff, Finish, Mark, StopDomain, UndefineDomain, StopNetwork,
            UndefineNetwork, UndefineFilter, ConfirmLog, RemoveArtifacts, RecordCleaned,
            Release, Retry, Crash, Reboot, GoesOn, GivesUp, Stays, Fault, HookStarts,
            HookFails, HookStops, HookLeaves, vars, diskVars, libvirtVars, hookVars
<1>11. faults' \in 0..MaxFaults
  BY <1>10, MaxFaultsAssumption DEF TypeOK, Fault
<1> QED  BY <1>0, <1>1, <1>2, <1>3, <1>4, <1>5, <1>6, <1>7, <1>8, <1>9, <1>11 DEF TypeOK

\* Every outcome of stopping the network: net-destroy may fail before or after its effect,
\* and so may the hook that libvirt calls for it.
LEMMA StopOutcome ==
  ASSUME TypeOK, StopNetwork
  PROVE  /\ pc = "stop" /\ pc' \in { "unnetwork", "failed" }
         /\ pc' = "unnetwork" => network' \in { "absent", "inactive" } /\ filter # "foreign"
         /\ network' = network \/ (network = "active" /\ network' = "inactive")
         /\ \/ receipts' = receipts /\ table' \in { table, FALSE }
            \/ receipts' = receipts \cup { "stopped" } /\ table' = FALSE
         /\ UNCHANGED <<logged, journal, files, intent, domain, filter>>
<1>1. pc = "stop" /\ pc' \in { "unnetwork", "failed" }
  BY DEF StopNetwork, GoesOn, Stays
<1>2. pc' = "unnetwork" => network' \in { "absent", "inactive" } /\ filter # "foreign"
  BY DEF StopNetwork, Removable, Recognised, GoesOn, Stays, TypeOK, NetworkOwn
<1>3. network' = network \/ (network = "active" /\ network' = "inactive")
  BY DEF StopNetwork
<1>4. \/ receipts' = receipts /\ table' \in { table, FALSE }
      \/ receipts' = receipts \cup { "stopped" } /\ table' = FALSE
  BY DEF StopNetwork, HookStops, HookLeaves, hookVars
<1>5. UNCHANGED <<logged, journal, files, intent, domain, filter>>
  BY DEF StopNetwork, diskVars
<1> QED  BY <1>1, <1>2, <1>3, <1>4, <1>5

\* Stopping the network, whatever the hook did, keeps the stages.
LEMMA StopNetworkKeeps ==
  ASSUME IInv, StopNetwork
  PROVE  Stages'
<1>0. TypeOK  BY DEF IInv
<1> USE <1>0, StopOutcome
<1>1. JournalStage'
  BY DEF IInv, Stages, JournalStage, Creating, Cleaning
<1>2. CreationStage'
  BY DEF CreationStage
<1>3. TeardownStage'
  BY DEF IInv, Stages, TeardownStage, JournalStage, Vacant, Creating, Cleaning
<1>4. table' => table /\ receipts' = receipts
  OBVIOUS
<1>5. TableStage'
  BY <1>4 DEF IInv, Stages, TableStage
<1>6. CleanedIsGone'
  BY DEF IInv, Stages, CleanedIsGone, JournalStage, Cleaning
<1>7. OwnIsRecorded'
  BY DEF IInv, Stages, OwnIsRecorded, Recorded, NetworkOwn
<1>8. GuestIsGuarded'
  BY DEF IInv, Stages, GuestIsGuarded, TeardownStage, Cleaning
<1> QED  BY <1>1, <1>2, <1>3, <1>5, <1>6, <1>7, <1>8 DEF Stages

\* Every step keeps the stages: one case per command, with its failures.
LEMMA StagesStep ==
  ASSUME IInv, Next
  PROVE  Stages'
<1> USE DEF IInv, TypeOK, Stages, JournalStage, CreationStage, TeardownStage, TableStage,
            CleanedIsGone, OwnIsRecorded, GuestIsGuarded, NetworkOwn, Vacant, Confirmed,
            LogEvidence, Recorded, Places, Creating, Cleaning, Definitions, Artifacts, diskVars,
            libvirtVars, hookVars
<1>1. CASE CreateRecord  BY <1>1 DEF CreateRecord, GoesOn
<1>2. CASE CreateDisks  BY <1>2 DEF CreateDisks, GoesOn, GivesUp, Fault
<1>3. CASE WriteDefinitions  BY <1>3 DEF WriteDefinitions, GoesOn, GivesUp, Fault
<1>4. CASE DefineFilter  BY <1>4 DEF DefineFilter, GoesOn, GivesUp, Fault
<1>5. CASE DefineNetwork  BY <1>5 DEF DefineNetwork, GoesOn, GivesUp, Fault
<1>6. CASE BeginNetwork  BY <1>6 DEF BeginNetwork, GoesOn, GivesUp, Fault
<1>7. CASE StartNetwork  BY <1>7 DEF StartNetwork, GoesOn, GivesUp, Fault, HookStarts, HookFails
<1>8. CASE ConfirmNetwork  BY <1>8 DEF ConfirmNetwork, GoesOn, GivesUp, Fault
<1>9. CASE InstallDomain  BY <1>9 DEF InstallDomain, GoesOn, GivesUp, Fault
<1>10. CASE RecordRunning  BY <1>10 DEF RecordRunning, GoesOn, GivesUp, Fault
<1>11. CASE PowerOff  BY <1>11 DEF PowerOff
<1>12. CASE Finish  BY <1>12 DEF Finish, GoesOn
<1>13. CASE Mark  BY <1>13 DEF Mark, GoesOn, Stays, Fault, Gone
<1>14. CASE StopDomain  BY <1>14 DEF StopDomain, GoesOn, Stays, Fault
<1>15. CASE UndefineDomain  BY <1>15 DEF UndefineDomain, GoesOn, Stays, Fault
<1>16. CASE UndefineNetwork  BY <1>16 DEF UndefineNetwork, GoesOn, Stays, Fault
<1>17. CASE UndefineFilter  BY <1>17 DEF UndefineFilter, GoesOn, Stays, Fault
<1>18. CASE ConfirmLog  BY <1>18 DEF ConfirmLog, GoesOn, Stays, Fault
<1>19. CASE RemoveArtifacts  BY <1>19 DEF RemoveArtifacts, GoesOn, Stays, Fault
<1>20. CASE RecordCleaned  BY <1>20 DEF RecordCleaned, GoesOn, Stays, Fault
<1>21. CASE Release  BY <1>21 DEF Release, GoesOn, Stays, Fault
<1>22. CASE Retry  BY <1>22 DEF Retry, GoesOn
<1>23. CASE Crash  BY <1>23 DEF Crash, Fault
<1>24. CASE Reboot  BY <1>24 DEF Reboot, Fault
<1>25. CASE StopNetwork  BY <1>25, StopNetworkKeeps
<1> QED
  BY <1>1, <1>2, <1>3, <1>4, <1>5, <1>6, <1>7, <1>8, <1>9, <1>10, <1>11, <1>12, <1>13, <1>14,
     <1>15, <1>16, <1>17, <1>18, <1>19, <1>20, <1>21, <1>22, <1>23, <1>24, <1>25
  DEF Next, CleanupStep

\* Stuttering changes nothing that the stages speak of.
LEMMA StagesStutter ==
  ASSUME IInv, UNCHANGED vars
  PROVE  Stages'
  BY DEF IInv, Stages, JournalStage, CreationStage, TeardownStage, TableStage, CleanedIsGone,
     OwnIsRecorded, Recorded, GuestIsGuarded, NetworkOwn, Vacant, Confirmed, LogEvidence, vars,
     diskVars, libvirtVars, hookVars

\* A host before the run: nothing is there but what others may have defined.
LEMMA InitStages ==
  Init => IInv
<1> SUFFICES ASSUME Init PROVE IInv
  OBVIOUS
<1>1. TypeOK
  <2>1. logged \in BOOLEAN /\ intent \in BOOLEAN /\ table \in BOOLEAN  BY DEF Init
  <2>2. faults \in 0..MaxFaults  BY MaxFaultsAssumption DEF Init
  <2> QED  BY <2>1, <2>2 DEF Init, TypeOK, Places, Creating
<1>2. Stages
  BY DEF Init, Stages, JournalStage, CreationStage, TeardownStage, TableStage, CleanedIsGone,
     OwnIsRecorded, GuestIsGuarded, NetworkOwn, Creating, Cleaning
<1> QED  BY <1>1, <1>2 DEF IInv

-----------------------------------------------------------------------------
(* The theorems.                                                           *)

\* The invariant holds in every execution, however often commands fail, the daemon dies or
\* the host restarts.
THEOREM Invariance ==
  Spec => []IInv
<1>1. IInv /\ [Next]_vars => IInv'
  <2> SUFFICES ASSUME IInv, [Next]_vars PROVE IInv'
    OBVIOUS
  <2>1. TypeOK'  BY TypeStep DEF IInv
  <2>2. Stages'  BY StagesStep, StagesStutter
  <2> QED  BY <2>1, <2>2 DEF IInv
<1> QED  BY InitStages, <1>1, PTL DEF Spec

\* No command takes a variable out of its domain (nextRunPhase, the hook's records).
THEOREM TypeCorrect ==
  Spec => []TypeOK
<1>1. IInv => TypeOK  BY DEF IInv
<1> QED  BY <1>1, Invariance, PTL

\* A run is marked cleaned only when the host has nothing of it any more (Cleanup).
THEOREM CleanedMeansGone ==
  Spec => []CleanedIsGone
<1>1. IInv => CleanedIsGone  BY DEF IInv, Stages
<1> QED  BY <1>1, Invariance, PTL

\* What this run has put into libvirt can always be recognised by its own records
\* (networkCreationRecorded).
THEOREM OwnershipRecorded ==
  Spec => []OwnIsRecorded
<1>1. IInv => OwnIsRecorded  BY DEF IInv, Stages
<1> QED  BY <1>1, Invariance, PTL

\* No guest runs without its filter, and none of a logged run without its logging table
\* (create, ConfirmNetwork's receipt, cleanupNetwork).
THEOREM GuestGuarded ==
  Spec => []GuestIsGuarded
<1>1. IInv => GuestIsGuarded  BY DEF IInv, Stages
<1> QED  BY <1>1, Invariance, PTL

\* The domain goes before the network, the network before the filter, and all of them
\* before the files that prove whose they are (Cleanup, cleanupNetwork).
THEOREM TeardownOrdered ==
  Spec => TeardownOrder
<1>1. ASSUME IInv, Next
      PROVE  /\ NetworkOwn /\ network' = "absent" => domain = "absent"
             /\ filter = "own" /\ filter' # "own" => network = "absent" /\ domain = "absent"
             /\ ~(files \subseteq files') => domain = "absent" /\ ~NetworkOwn /\ filter # "own"
  <2> USE DEF Next, CleanupStep, CreateRecord, CreateDisks, WriteDefinitions, DefineFilter,
              DefineNetwork, BeginNetwork, StartNetwork, ConfirmNetwork, InstallDomain,
              RecordRunning, PowerOff, Finish, Mark, StopDomain, UndefineDomain, StopNetwork,
              UndefineNetwork, UndefineFilter, ConfirmLog, RemoveArtifacts, RecordCleaned,
              Release, Retry, Crash, Reboot, GoesOn, GivesUp, Stays, Fault, HookStarts,
              HookFails, HookStops, HookLeaves, vars, diskVars, libvirtVars, hookVars
  <2>1. NetworkOwn /\ network' = "absent" => pc = "unnetwork"
    BY <1>1 DEF NetworkOwn
  <2>2. filter = "own" /\ filter' # "own" => pc = "unfilter"
    BY <1>1
  <2>3. ~(files \subseteq files') => pc = "remove"
    BY <1>1
  <2> HIDE DEF Next, CleanupStep, CreateRecord, CreateDisks, WriteDefinitions, DefineFilter,
              DefineNetwork, BeginNetwork, StartNetwork, ConfirmNetwork, InstallDomain,
              RecordRunning, PowerOff, Finish, Mark, StopDomain, UndefineDomain, StopNetwork,
              UndefineNetwork, UndefineFilter, ConfirmLog, RemoveArtifacts, RecordCleaned,
              Release, Retry, Crash, Reboot, GoesOn, GivesUp, Stays, Fault, HookStarts,
              HookFails, HookStops, HookLeaves, vars, diskVars, libvirtVars, hookVars
  <2> QED  BY <1>1, <2>1, <2>2, <2>3 DEF IInv, Stages, TeardownStage, Cleaning, NetworkOwn
<1>2. IInv /\ [Next]_vars =>
        [/\ NetworkOwn /\ network' = "absent" => domain = "absent"
         /\ filter = "own" /\ filter' # "own" => network = "absent" /\ domain = "absent"
         /\ ~(files \subseteq files') =>
              domain = "absent" /\ ~NetworkOwn /\ filter # "own"]_vars
  BY <1>1
<1> QED  BY <1>2, Invariance, PTL DEF Spec, TeardownOrder

\* Nothing another administrator defined is changed, and the run that met it is never
\* marked cleaned (networkProvisioner.create, cleanupNetwork).
THEOREM ForeignSafe ==
  Spec => ForeignUntouched
<1>1. ASSUME IInv, Next
      PROVE  /\ network = "foreign" => network' = "foreign"
             /\ filter = "foreign" => filter' = "foreign"
             /\ network = "foreign" \/ filter = "foreign" => journal' # "cleaned"
  <2> USE DEF Next, CleanupStep, CreateRecord, CreateDisks, WriteDefinitions, DefineFilter,
              DefineNetwork, BeginNetwork, StartNetwork, ConfirmNetwork, InstallDomain,
              RecordRunning, PowerOff, Finish, Mark, StopDomain, UndefineDomain, StopNetwork,
              UndefineNetwork, UndefineFilter, ConfirmLog, RemoveArtifacts, RecordCleaned,
              Release, Retry, Crash, Reboot, GoesOn, GivesUp, Stays, Fault, HookStarts,
              HookFails, HookStops, HookLeaves, vars, diskVars, libvirtVars, hookVars
  <2>1. network' # network =>
          network # "foreign" \/ pc \in { "network", "start", "unnetwork" }
    BY <1>1
  <2>2. filter' # filter => filter # "foreign" \/ pc \in { "filter", "unfilter" }
    BY <1>1
  <2> HIDE DEF Next, CleanupStep, CreateRecord, CreateDisks, WriteDefinitions, DefineFilter,
              DefineNetwork, BeginNetwork, StartNetwork, ConfirmNetwork, InstallDomain,
              RecordRunning, PowerOff, Finish, Mark, StopDomain, UndefineDomain, StopNetwork,
              UndefineNetwork, UndefineFilter, ConfirmLog, RemoveArtifacts, RecordCleaned,
              Release, Retry, Crash, Reboot, GoesOn, GivesUp, Stays, Fault, HookStarts,
              HookFails, HookStops, HookLeaves, vars, diskVars, libvirtVars, hookVars
  <2>3. network = "foreign" => network' = "foreign"
    BY <1>1, <2>1 DEF IInv, Stages, CreationStage, TeardownStage
  <2>4. filter = "foreign" => filter' = "foreign"
    BY <1>1, <2>2 DEF IInv, Stages, CreationStage, TeardownStage, Vacant
  <2>5. journal' = "cleaned" => Vacant'
    BY <1>1, StagesStep DEF Stages, TeardownStage
  <2> QED  BY <2>3, <2>4, <2>5 DEF Vacant
<1>2. IInv /\ [Next]_vars =>
        [/\ network = "foreign" => network' = "foreign"
         /\ filter = "foreign" => filter' = "foreign"
         /\ network = "foreign" \/ filter = "foreign" => journal' # "cleaned"]_vars
  BY <1>1
<1> QED  BY <1>2, Invariance, PTL DEF Spec, ForeignUntouched
=============================================================================
