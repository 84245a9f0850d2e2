----------------------------- MODULE RunCleanup -----------------------------
(***************************************************************************)
(* One run on a KVM host: what its execution creates, command by command   *)
(* (executor.go, network_provision.go), and what cleanup takes away again  *)
(* after the end, a failure or a restart (vm_cleanup.go,                   *)
(* network_cleanup.go), with the journal of the run (run_store.go) and the *)
(* logging hook that libvirt runs as root (network_log_hook.go,            *)
(* network_log_receipt.go).                                                *)
(*                                                                         *)
(* Nobody else changes the host meanwhile: a conflicting filter or network *)
(* is there from the start or not at all.  So a check and the command that *)
(* follows it are one step.  A command that fails may have had its effect; *)
(* one that reported nothing has no effect later.                          *)
(***************************************************************************)
EXTENDS Integers

CONSTANTS
  MaxFaults   \* bound: failed commands, crashes and reboots in a behaviour

ASSUME MaxFaultsAssumption == MaxFaults \in Nat

VARIABLES
  logged,     \* network version 3 of the record: public egress with mandatory logging
  pc,         \* where the execution or its cleanup is
  journal,    \* the last phase of the run's record
  files,      \* the artifacts in the run's directory
  intent,     \* network-start.json: is it there
  domain,     \* "absent", "defined" (shut off) or "running"
  network,    \* "absent", "inactive", "active", or another's: "foreign"
  filter,     \* "absent", "own", or another's: "foreign"
  table,      \* the nftables logging table: is it there
  receipts,   \* the hook's records: "pending", "active", "stopped"
  faults      \* how many failures have happened

libvirtVars == <<domain, network, filter>>
hookVars == <<table, receipts>>
diskVars == <<journal, files, intent>>
vars == <<logged, pc, diskVars, libvirtVars, hookVars, faults>>

Definitions == { "filter.xml", "network.xml" }
Artifacts == Definitions \cup { "disks" }

Creating == { "new", "disks", "check", "filter", "network", "intent", "start", "confirm",
              "install", "record", "up" }
Cleaning == { "mark", "domain", "undefine", "stop", "unnetwork", "unfilter", "log", "remove",
              "settle" }
Places == Creating \cup Cleaning \cup { "failed", "down", "cleaned", "over" }

Init ==
  /\ logged \in BOOLEAN
  /\ pc = "new" /\ journal = "none" /\ files = {} /\ intent = FALSE
  /\ domain = "absent"
  /\ network \in { "absent", "foreign" }
  /\ filter \in { "absent", "foreign" }
  /\ table = FALSE /\ receipts = {}
  /\ faults = 0

-----------------------------------------------------------------------------
Fault == faults < MaxFaults /\ faults' = faults + 1

GoesOn(from, to) == pc = from /\ pc' = to /\ UNCHANGED faults

\* The execution returns an error and its cleanup starts.
GivesUp(from) == pc = from /\ pc' = "mark"

\* Cleanup stops with an error: nothing is confirmed.
Stays(from) == pc = from /\ pc' = "failed"

NetworkOwn == network \in { "inactive", "active" }
Vacant == network = "absent" /\ filter = "absent"

-----------------------------------------------------------------------------
(* Creation (Execute, networkProvisioner.create).                          *)

\* runStore.create, then BindResources: no host command before it.
CreateRecord ==
  /\ GoesOn("new", "disks")
  /\ journal' = "prepared"
  /\ UNCHANGED <<logged, files, intent, libvirtVars, hookVars>>

CreateDisks ==
  /\ \/ GoesOn("disks", "check") /\ files' = files \cup { "disks" }
     \/ GivesUp("disks") /\ Fault /\ files' \in { files, files \cup { "disks" } }
  /\ UNCHANGED <<logged, journal, intent, libvirtVars, hookVars>>

\* The network's definition is written only when it is needed.
WriteFilterOnly ==
  /\ \/ Vacant /\ ~intent /\ receipts = {} /\ GoesOn("check", "filter")
     \/ GivesUp("check") /\ Fault
  /\ files' = files \cup { "filter.xml" }
  /\ UNCHANGED <<logged, journal, intent, libvirtVars, hookVars>>

\* The host is vacant, nothing was logged for this run; then the definitions are written.
WriteDefinitions ==
  /\ \/ /\ Vacant /\ ~intent /\ receipts = {}
        /\ \/ GoesOn("check", "filter") /\ files' = files \cup Definitions
           \/ /\ GivesUp("check") /\ Fault
              /\ files' \in { files, files \cup { "filter.xml" }, files \cup Definitions }
     \/ /\ ~Vacant \/ intent \/ receipts # {}
        /\ GoesOn("check", "mark")
        /\ UNCHANGED files
  /\ UNCHANGED <<logged, journal, intent, libvirtVars, hookVars>>

DefineFilter ==
  /\ \/ GoesOn("filter", "network") /\ filter' = "own"
     \/ GivesUp("filter") /\ Fault /\ filter' \in { filter, "own" }
  /\ UNCHANGED <<logged, diskVars, domain, network, hookVars>>

DefineNetwork ==
  /\ \/ GoesOn("network", IF logged THEN "intent" ELSE "start") /\ network' = "inactive"
     \/ GivesUp("network") /\ Fault /\ network' \in { network, "inactive" }
  /\ UNCHANGED <<logged, diskVars, domain, filter, hookVars>>

\* beginNetwork: from here on a missing log record is not taken for "never started".
BeginNetwork ==
  /\ \/ GoesOn("intent", "start") /\ intent' = TRUE
     \/ GivesUp("intent") /\ Fault /\ intent' \in BOOLEAN
  /\ UNCHANGED <<logged, journal, files, libvirtVars, hookVars>>

\* networkLogHook.start: the journal is ready, then pending, the table, active.
HookStarts == table' = TRUE /\ receipts' = { "pending", "active" }
HookFails ==
  \/ UNCHANGED hookVars
  \/ receipts' = { "pending" } /\ table' \in BOOLEAN

\* net-start.  A network whose hook fails does not start; one that failed later may be
\* stopped again by libvirt without a word to the hook; and the hook may not run at all.
StartNetwork ==
  /\ \/ /\ GoesOn("start", "confirm")
        /\ network' = "active"
        /\ IF logged THEN HookStarts ELSE UNCHANGED hookVars
     \/ /\ pc = "start" /\ pc' = "confirm" /\ Fault
        /\ network' = "active"
        /\ UNCHANGED hookVars
     \/ /\ GivesUp("start") /\ Fault
        /\ \/ UNCHANGED <<network, hookVars>>
           \/ logged /\ HookFails /\ UNCHANGED network
           \/ /\ network' \in { "inactive", "active" }
              /\ IF logged THEN HookStarts ELSE UNCHANGED hookVars
  /\ UNCHANGED <<logged, diskVars, domain, filter>>

\* A start that takes the answer of net-start for the evidence.
ConfirmNothing ==
  /\ GoesOn("confirm", "install")
  /\ UNCHANGED <<logged, diskVars, libvirtVars, hookVars>>

\* The bridge and the "active" receipt, before any NIC may attach.
Confirmed == logged => "active" \in receipts /\ "stopped" \notin receipts

ConfirmNetwork ==
  /\ \/ Confirmed /\ GoesOn("confirm", "install")
     \/ ~Confirmed /\ GivesUp("confirm") /\ UNCHANGED faults
     \/ GivesUp("confirm") /\ Fault
  /\ UNCHANGED <<logged, diskVars, libvirtVars, hookVars>>

\* virt-install: the hook checks the log again when the port is created.
InstallDomain ==
  /\ \/ GoesOn("install", "record") /\ domain' = "running"
     \/ GivesUp("install") /\ Fault /\ domain' \in { "absent", "defined", "running" }
  /\ UNCHANGED <<logged, diskVars, network, filter, hookVars>>

RecordRunning ==
  /\ \/ GoesOn("record", "up") /\ journal' = "running"
     \/ GivesUp("record") /\ Fault /\ UNCHANGED journal
  /\ UNCHANGED <<logged, files, intent, libvirtVars, hookVars>>

\* The guest powers itself off, or the run ends.
PowerOff ==
  /\ pc = "up" /\ domain = "running"
  /\ domain' = "defined"
  /\ UNCHANGED <<logged, pc, diskVars, network, filter, hookVars, faults>>

Finish ==
  /\ GoesOn("up", "mark")
  /\ UNCHANGED <<logged, diskVars, libvirtVars, hookVars>>

-----------------------------------------------------------------------------
(* Cleanup (vmCleanup.Cleanup).                                            *)

\* Evidence that is asked for only when the hook had got as far as "active".
LogEvidenceOfActive == logged /\ "active" \in receipts => "stopped" \in receipts

\* loggingStopped
LogEvidence ==
  logged => IF intent THEN { "pending", "active", "stopped" } \subseteq receipts
            ELSE receipts = {}

\* A journal that can go to cleanup only from "running" (nextRunPhase).
MarkRunning ==
  /\ \/ journal # "prepared" /\ GoesOn("mark", "domain") /\ journal' = "cleanup-pending"
     \/ journal = "prepared" /\ Stays("mark") /\ UNCHANGED <<journal, faults>>
  /\ UNCHANGED <<logged, files, intent, libvirtVars, hookVars>>

\* A cleaned run is only looked at again: what has come back is not deleted.
Gone == domain = "absent" /\ Vacant /\ files = {} /\ LogEvidence

Mark ==
  /\ \/ /\ journal \notin { "cleaned", "released" }
        /\ \/ GoesOn("mark", "domain") /\ journal' = "cleanup-pending"
           \/ Stays("mark") /\ Fault /\ UNCHANGED journal
     \/ /\ journal \in { "cleaned", "released" }
        /\ \/ Gone /\ GoesOn("mark", "cleaned")
           \/ ~Gone /\ Stays("mark") /\ UNCHANGED faults
           \/ Stays("mark") /\ Fault
        /\ UNCHANGED journal
  /\ UNCHANGED <<logged, files, intent, libvirtVars, hookVars>>

\* stopDomain: ACPI, then destroy; only a stopped domain goes on.
StopDomain ==
  /\ \/ domain # "absent" /\ GoesOn("domain", "undefine") /\ domain' = "defined"
     \/ domain = "absent" /\ GoesOn("domain", "stop") /\ UNCHANGED domain
     \/ /\ Stays("domain") /\ Fault
        /\ domain' \in IF domain = "running" THEN { "running", "defined" } ELSE { domain }
  /\ UNCHANGED <<logged, diskVars, network, filter, hookVars>>

\* undefine only forgets a domain that is stopped.
UndefineDomain ==
  /\ \/ /\ GoesOn("undefine", "stop")
        /\ domain' = IF domain = "running" THEN domain ELSE "absent"
     \/ Stays("undefine") /\ Fault /\ domain' \in { domain, "absent" }
  /\ UNCHANGED <<logged, diskVars, network, filter, hookVars>>

\* networkLogHook.stop; its failure does not keep libvirt from stopping the network.
HookStops ==
  IF { "pending", "active" } \subseteq receipts
  THEN table' = FALSE /\ receipts' = receipts \cup { "stopped" }
  ELSE UNCHANGED hookVars
HookLeaves == UNCHANGED receipts /\ table' \in { table, FALSE }

\* A cleanup that takes a resource for its own because its name is reserved.
AdoptNetwork ==
  /\ domain = "absent"
  /\ \/ /\ network # "absent"
        /\ GoesOn("stop", "unnetwork")
        /\ network' = "inactive"
        /\ UNCHANGED hookVars
     \/ network = "absent" /\ GoesOn("stop", "unnetwork") /\ UNCHANGED <<network, hookVars>>
  /\ UNCHANGED <<logged, diskVars, domain, filter>>

\* What cleanup may take away: the domain is gone (networkUnreferenced), nothing of another
\* owner has the names (inspectNetwork, inspectFilter), and what there is was recorded.
Unreferenced == domain = "absent"
Recognised == network # "foreign" /\ filter # "foreign"
Recorded == Definitions \subseteq files
Removable == Unreferenced /\ Recognised /\ (NetworkOwn \/ filter = "own" => Recorded)

\* verify, networkCreationRecorded, net-destroy.
StopNetwork ==
  /\ \/ /\ Removable
        /\ \/ /\ network = "active"
              /\ \/ GoesOn("stop", "unnetwork") /\ logged /\ HookStops
                 \/ GoesOn("stop", "unnetwork") /\ ~logged /\ UNCHANGED hookVars
                 \/ pc = "stop" /\ pc' = "unnetwork" /\ Fault /\ logged /\ HookLeaves
                 \/ Stays("stop") /\ Fault /\ IF logged THEN HookStops ELSE UNCHANGED hookVars
              /\ network' = "inactive"
           \/ network # "active" /\ GoesOn("stop", "unnetwork") /\ UNCHANGED <<network, hookVars>>
           \/ Stays("stop") /\ Fault /\ UNCHANGED <<network, hookVars>>
     \/ ~Removable /\ Stays("stop") /\ UNCHANGED <<network, hookVars, faults>>
  /\ UNCHANGED <<logged, diskVars, domain, filter>>

UndefineNetwork ==
  /\ \/ GoesOn("unnetwork", "unfilter") /\ network' = "absent"
     \/ Stays("unnetwork") /\ Fault /\ network' \in { network, "absent" }
  /\ UNCHANGED <<logged, diskVars, domain, filter, hookVars>>

\* A last step whose failure is only logged.
UndefineFilterIfPossible ==
  /\ network = "absent"
  /\ GoesOn("unfilter", "log")
  /\ filter' \in { filter, "absent" }
  /\ UNCHANGED <<logged, diskVars, domain, network, hookVars>>

UndefineFilter ==
  /\ network = "absent"
  /\ \/ GoesOn("unfilter", "log") /\ filter' = "absent"
     \/ Stays("unfilter") /\ Fault /\ filter' \in { filter, "absent" }
  /\ UNCHANGED <<logged, diskVars, domain, network, hookVars>>

ConfirmLog ==
  /\ \/ LogEvidence /\ GoesOn("log", "remove")
     \/ ~LogEvidence /\ Stays("log") /\ UNCHANGED faults
     \/ Stays("log") /\ Fault
  /\ UNCHANGED <<logged, diskVars, libvirtVars, hookVars>>

\* removeArtifacts: one after the other, the disks before the definitions.
RemoveArtifacts ==
  /\ \/ GoesOn("remove", "settle") /\ files' = {}
     \/ Stays("remove") /\ Fault /\ files' \in { files, files \ { "disks" }, { "filter.xml" }, {} }
                        /\ files' \subseteq files
  /\ UNCHANGED <<logged, journal, intent, libvirtVars, hookVars>>

RecordCleaned ==
  /\ \/ GoesOn("settle", "cleaned") /\ journal' = "cleaned"
     \/ Stays("settle") /\ Fault /\ journal' \in { journal, "cleaned" }
  /\ UNCHANGED <<logged, files, intent, libvirtVars, hookVars>>

\* Released, after the room was returned at the control plane.
Release ==
  /\ journal = "cleaned"
  /\ \/ GoesOn("cleaned", "over") /\ journal' = "released"
     \/ Stays("cleaned") /\ Fault /\ journal' \in { journal, "released" }
  /\ UNCHANGED <<logged, files, intent, libvirtVars, hookVars>>

-----------------------------------------------------------------------------
(* The next attempt, by the execution or by the recovery of a new process. *)

Retry ==
  /\ \E from \in { "failed", "down" } : GoesOn(from, "mark")
  /\ journal \notin { "none", "released" }
  /\ UNCHANGED <<logged, diskVars, libvirtVars, hookVars>>

\* The process dies, and the commands it runs with it.
Crash ==
  /\ pc \notin { "new", "down", "over" }
  /\ Fault
  /\ pc' = "down"
  /\ UNCHANGED <<logged, diskVars, libvirtVars, hookVars>>

\* The host starts again: nothing is started by itself, and the tables are gone.
Reboot ==
  /\ pc \notin { "new", "over" }
  /\ Fault
  /\ pc' = "down"
  /\ domain' = IF domain = "running" THEN "defined" ELSE domain
  /\ network' = IF network = "active" THEN "inactive" ELSE network
  /\ table' = FALSE
  /\ UNCHANGED <<logged, diskVars, filter, receipts>>

CleanupStep ==
  \/ Mark \/ StopDomain \/ UndefineDomain \/ StopNetwork \/ UndefineNetwork \/ UndefineFilter
  \/ ConfirmLog \/ RemoveArtifacts \/ RecordCleaned

Next ==
  \/ CreateRecord \/ CreateDisks \/ WriteDefinitions \/ DefineFilter \/ DefineNetwork
  \/ BeginNetwork \/ StartNetwork \/ ConfirmNetwork \/ InstallDomain \/ RecordRunning
  \/ PowerOff \/ Finish
  \/ CleanupStep \/ Release \/ Retry \/ Crash \/ Reboot

Spec == Init /\ [][Next]_vars

\* Cleanup goes on when nothing fails, and is tried again after every failure: a worker
\* with an unconfirmed cleanup is started until it succeeds.
FairSpec == Spec /\ WF_vars(CleanupStep /\ UNCHANGED faults) /\ WF_vars(Retry)

-----------------------------------------------------------------------------
(* Invariants.                                                             *)

TypeOK ==
  /\ logged \in BOOLEAN
  /\ pc \in Places
  /\ journal \in { "none", "prepared", "running", "cleanup-pending", "cleaned", "released" }
  /\ files \subseteq Artifacts /\ intent \in BOOLEAN
  /\ domain \in { "absent", "defined", "running" }
  /\ network \in { "absent", "inactive", "active", "foreign" }
  /\ filter \in { "absent", "own", "foreign" }
  /\ table \in BOOLEAN /\ receipts \subseteq { "pending", "active", "stopped" }
  /\ faults \in 0..MaxFaults

\* A run that the journal calls cleaned has left nothing on the host: no domain, network,
\* filter, logging table or artifact, whatever failed on the way (Cleanup).
CleanedIsGone ==
  journal \in { "cleaned", "released" } =>
    /\ domain = "absent" /\ ~NetworkOwn /\ filter # "own"
    /\ ~table /\ files = {}

\* A network or filter of the run is on the host only while both of its definitions are in
\* the run's directory: what cleanup may remove, a restart can recognise
\* (networkCreationRecorded).
OwnIsRecorded ==
  NetworkOwn \/ filter = "own" =>
    /\ Recorded
    /\ journal \in { "prepared", "running", "cleanup-pending" }

\* A guest with a network card is filtered, and its connections are logged: the card comes
\* after the filter and the table, and goes before them (create, cleanupNetwork).
GuestIsGuarded ==
  domain = "running" =>
    /\ network = "active" /\ filter = "own"
    /\ logged => table /\ "active" \in receipts /\ "stopped" \notin receipts

-----------------------------------------------------------------------------
(* Action properties.                                                      *)

\* Teardown never overtakes itself: the network outlives the domain, the filter the
\* network, the disks and the definitions both.
TeardownOrder ==
  [][/\ NetworkOwn /\ network' = "absent" => domain = "absent"
     /\ filter = "own" /\ filter' # "own" => network = "absent" /\ domain = "absent"
     /\ ~(files \subseteq files') => domain = "absent" /\ ~NetworkOwn /\ filter # "own"]_vars

\* What another administrator defined is never changed, and the run it collides with is
\* never confirmed (TestRunNetworkRejectedFilterCannotBecomeCleanupOwnership).
ForeignUntouched ==
  [][/\ network = "foreign" => network' = "foreign"
     /\ filter = "foreign" => filter' = "foreign"
     /\ network = "foreign" \/ filter = "foreign" => journal' # "cleaned"]_vars

-----------------------------------------------------------------------------
(* Liveness.                                                               *)

\* What cleanup cannot confirm by itself: a conflict, or a logging that was begun and for
\* which no stop will be recorded any more.
Uncertain ==
  \/ network = "foreign" \/ filter = "foreign"
  \/ logged /\ intent /\ network # "active" /\ ~({ "active", "stopped" } \subseteq receipts)

\* Cleanup that was begun is confirmed in the end, unless it is uncertain: no failed or
\* repeated step leaves it in a state that a further attempt cannot finish.
Converges == pc \in Cleaning ~> journal \in { "cleaned", "released" } \/ Uncertain
=============================================================================
